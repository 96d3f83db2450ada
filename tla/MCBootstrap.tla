----------------------------- MODULE MCBootstrap -----------------------------
EXTENDS Bootstrap

Settings(r, m, u) == [rows |-> r, modes |-> m, usb |-> u]
MCDefault == Settings(8, "CAP", "DEBUG")
MCWants == {Settings(8, "CAP", None), Settings(3, "RES", "FULL")}
MCOthers == {Settings(3, "CAP", "FULL")}
=============================================================================
