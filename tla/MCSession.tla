----------------------------- MODULE MCSession -----------------------------
(* Three layers, GDN, QSA, GDN, with the PLE in front of the second; every *)
(* boundary of the caches is crossed within seven tokens.                  *)
EXTENDS Session
MCQsa == {2}
MCWidths == 1..3
MCModes == {"full", "bounded"}
=============================================================================
