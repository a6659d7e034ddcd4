----------------------------- MODULE MCErrorsEq -----------------------------
(* Small payload sets for ErrorsEq: two kinds and two messages of          *)
(* io::Error, so that equal kinds with different messages occur.           *)
EXTENDS ErrorsEq

MCIoKind   == {"NotFound", "BrokenPipe"}
MCIoMsg    == {"oh no!", "oh yes!"}
MCDesc     == {"config error", "other error"}
MCProtoErr == {"WireError"}
MCNodeId   == {1, 2}
MCSetName  == {"voters"}
=============================================================================
