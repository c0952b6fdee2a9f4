-------------------------- MODULE MCScreenGeometry --------------------------
(* Small screens.  Each behaviour is a session of a host that uses some of *)
(* the groups of operations: everything but saved cursors, or saved        *)
(* cursors and the alternate buffer with double-width lines, or with       *)
(* changes of size.                                                        *)
EXTENDS ScreenGeometry

VARIABLE session

TwoSizes == {<<4, 2>>, <<2, 3>>}

EditingOps == Groups \ {"save", "restore", "noclear"}
SavingOps == {"print", "place", "double", "region", "origin", "save", "restore", "alt"}
ResizingOps == (SavingOps \ {"double"}) \cup {"resize", "settings", "noclear"}

SessionInit == Init /\ session \in {EditingOps, SavingOps, ResizingOps}
SessionNext == NextOf(session) /\ UNCHANGED session
SessionSpec == SessionInit /\ [][SessionNext]_<<geo, session>>
=============================================================================
