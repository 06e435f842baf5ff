------------------------------- MODULE MCRhCli -------------------------------
(* Two actuators, wired crosswise as in g_i4kMap, and small inputs.        *)
EXTENDS RhCliSystem

MCActMap  == <<2, 1>>
FullFiles == {<<7, 9>>, <<8, 5>>}
AnyFiles  == FullFiles \cup {<<6>>, << >>}
MCRates   == {9, 40, 1000}
MCVolts   == {0, 300, 65537, 301}
MCNibbles == {1, 15}

NoFaults   == {}
SoftFaults == {"ioctl", "dmastart"}
=============================================================================
