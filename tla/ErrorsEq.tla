------------------------------ MODULE ErrorsEq ------------------------------
(***************************************************************************)
(* Equality of raft-rs's error types (src/src/errors.rs): the hand-written *)
(* PartialEq impls of Error and StorageError.                             *)
(*                                                                         *)
(* An error value is a record tagged with its variant.  Payloads are small *)
(* sets: an io::Error is its ErrorKind and its message, a ConfigInvalid    *)
(* its description, Exists and NotExists a node id and a set name, a       *)
(* CodecError an opaque protobuf error.  The comparison is a pure          *)
(* function; the state machine below compares any two errors, one pair   *)
(* per step, which is how the engine and its tests use it.               *)
(***************************************************************************)
EXTENDS Naturals, FiniteSets

CONSTANTS
  IoKind,   \* io::ErrorKind values
  IoMsg,    \* io::Error messages
  Desc,     \* ConfigInvalid descriptions
  ProtoErr, \* protobuf::ProtobufError values
  NodeId,   \* u64 node ids of Exists / NotExists
  SetName   \* the &'static str set names of Exists / NotExists

VARIABLES lhs, rhs

\* enum StorageError: four unit variants.
StorageErrorValue ==
  {"Compacted", "Unavailable", "SnapshotOutOfDate",
   "SnapshotTemporarilyUnavailable"}

\* The unit variants of enum Error.
UnitTag == {"StepLocalMsg", "StepPeerNotFound", "ProposalDropped",
            "RequestSnapshotDropped"}

\* enum Error, one record set per shape of variant.
ErrorValue ==
       [tag : {"Io"}, kind : IoKind, msg : IoMsg]
  \cup [tag : {"Store"}, err : StorageErrorValue]
  \cup [tag : UnitTag]
  \cup [tag : {"ConfigInvalid"}, desc : Desc]
  \cup [tag : {"CodecError"}, err : ProtoErr]
  \cup [tag : {"Exists", "NotExists"}, id : NodeId, set : SetName]

\* impl PartialEq for StorageError: each variant equals only itself.
StorageError_eq(e1, e2) == e1 = e2

Error_eq_config_any(e1, e2) ==
  \/ e1.tag = e2.tag /\ e1.tag \in UnitTag
  \/ e1.tag = "Store" /\ e2.tag = "Store" /\ StorageError_eq(e1.err, e2.err)
  \/ e1.tag = "Io" /\ e2.tag = "Io" /\ e1.kind = e2.kind
  \/ e1.tag = "ConfigInvalid" /\ e2.tag = "ConfigInvalid"

\* impl PartialEq for Error: the unit variants equal themselves, Store
\* compares the storage errors, Io compares only the ErrorKind,
\* ConfigInvalid compares the description, and every other pair,
\* CodecError, Exists and NotExists with themselves included, is unequal
\* (the `_ => false` arm).
Error_eq(e1, e2) ==
  \/ e1.tag = e2.tag /\ e1.tag \in UnitTag
  \/ e1.tag = "Store" /\ e2.tag = "Store" /\ StorageError_eq(e1.err, e2.err)
  \/ e1.tag = "Io" /\ e2.tag = "Io" /\ e1.kind = e2.kind
  \/ e1.tag = "ConfigInvalid" /\ e2.tag = "ConfigInvalid" /\ e1.desc = e2.desc

-----------------------------------------------------------------------------
Init == lhs \in ErrorValue /\ rhs \in ErrorValue

\* One call of eq on two errors; the result is Error_eq(lhs, rhs).
Compare ==
  \E a, b \in ErrorValue : lhs' = a /\ rhs' = b

Next == Compare

Spec == Init /\ [][Next]_<<lhs, rhs>>

-----------------------------------------------------------------------------
\* Reference meaning of error equality, as test_error_equal states it: two
\* errors are equal when they are the same value, except that an io::Error
\* is identified by its ErrorKind alone, not by its message.
Identity(e) == IF e.tag = "Io" THEN [e EXCEPT !.msg = "any"] ELSE e

\* The pairs test_error_equal and test_storage_error_equal assert equal
\* (TRUE) or unequal (FALSE); a StorageError on its own is a Store error.
Io(kind, msg) == [tag |-> "Io", kind |-> kind, msg |-> msg]
Store(err)    == [tag |-> "Store", err |-> err]
Conf(desc)    == [tag |-> "ConfigInvalid", desc |-> desc]
Unit(tag)     == [tag |-> tag]
TestAsserts ==
  {<<Unit("StepPeerNotFound"), Unit("StepPeerNotFound"), TRUE>>,
   <<Store("Compacted"), Store("Compacted"), TRUE>>,
   <<Io("UnexpectedEof", "oh no!"), Io("UnexpectedEof", "oh yes!"), TRUE>>,
   <<Io("NotFound", "error"), Io("BrokenPipe", "error"), FALSE>>,
   <<Unit("StepLocalMsg"), Unit("StepLocalMsg"), TRUE>>,
   <<Conf("config error"), Conf("config error"), TRUE>>,
   <<Conf("config error"), Conf("other error"), FALSE>>,
   <<Io("Other", "oh no!"), Io("Other", "oh yes!"), TRUE>>,
   <<Unit("StepPeerNotFound"), Store("Compacted"), FALSE>>,
   <<Store("Unavailable"), Store("Unavailable"), TRUE>>,
   <<Store("SnapshotOutOfDate"), Store("SnapshotOutOfDate"), TRUE>>,
   <<Store("SnapshotTemporarilyUnavailable"),
     Store("SnapshotTemporarilyUnavailable"), TRUE>>,
   <<Store("Compacted"), Store("Unavailable"), FALSE>>}

\* The reference meaning is the one the tests assert, pair by pair.
ASSUME \A t \in TestAsserts : (Identity(t[1]) = Identity(t[2])) = t[3]

\* eq agrees with the reference meaning on every variant the match lists,
\* in both argument orders (so it is also symmetric there), Store's nested
\* StorageError comparison included: test_error_equal and
\* test_storage_error_equal check a handful of pairs, this checks all.
EqMatchesReference ==
  lhs.tag \notin {"CodecError", "Exists", "NotExists"} =>
    /\ Error_eq(lhs, rhs) <=> Identity(lhs) = Identity(rhs)
    /\ Error_eq(rhs, lhs) <=> Identity(lhs) = Identity(rhs)

=============================================================================
