------------------------------- MODULE Verify -------------------------------
(***************************************************************************)
(* The pure activation verifier, src/verify.rs: VerifierState and its      *)
(* three transitions, as operators on a record.                            *)
(*                                                                         *)
(* The only caller passes the workspace handle itself as the TimerId       *)
(* (runtime.rs:451), so the map pending: handle -> timer is a set.         *)
(***************************************************************************)
EXTENDS Naturals, FiniteSets

CONSTANTS
  Handles,        \* the protocol ids of workspace handles
  WarnThreshold   \* N, the number of distinct attempts behind the WARN

(* VerifierState::new asserts it; production passes 3 (app.rs:242). *)
ASSUME WarnThresholdAssumption == WarnThreshold \in Nat \ {0}

VerifierState ==
  [ pending            : SUBSET Handles,
    attempted_distinct : SUBSET Handles,
    ever_confirmed     : BOOLEAN,
    process_warn_fired : BOOLEAN,
    info_emitted       : SUBSET Handles ]

VerifyEvent ==
  {"None", "InfoOnceForHandle", "WarnOnceForProcess", "InfoAndWarn"}

NewVerifier ==
  [ pending            |-> {},
    attempted_distinct |-> {},
    ever_confirmed     |-> FALSE,
    process_warn_fired |-> FALSE,
    info_emitted       |-> {} ]

(* timed: a timer was registered; otherwise the attempt is only counted.
   An attempt on a pending handle trips a debug_assert in debug builds and
   overwrites the entry in release builds: this is the release build. *)
RecordAttempt(v, h, timed) ==
  [v EXCEPT !.attempted_distinct = @ \union {h},
            !.pending = IF timed THEN @ \union {h} ELSE @]

(* Mutant: a confirmation is not remembered. *)
RecordConfirmForgets(v, h) ==
  [v EXCEPT !.pending            = @ \ {h},
            !.attempted_distinct = {},
            !.info_emitted       = {}]

RecordConfirm(v, h) ==
  [v EXCEPT !.pending            = @ \ {h},
            !.ever_confirmed     = TRUE,
            !.attempted_distinct = {},
            !.info_emitted       = {}]

InfoFires(v, h) == h \notin v.info_emitted

(* Mutants: the WARN is not latched; it ignores earlier confirmations. *)
WarnFiresAgain(v) ==
  /\ ~v.ever_confirmed
  /\ Cardinality(v.attempted_distinct) >= WarnThreshold

WarnFiresUnconfirmed(v) ==
  /\ ~v.process_warn_fired
  /\ Cardinality(v.attempted_distinct) >= WarnThreshold

WarnFires(v) ==
  /\ ~v.ever_confirmed
  /\ ~v.process_warn_fired
  /\ Cardinality(v.attempted_distinct) >= WarnThreshold

(* Mutant: the handle stays pending. *)
RecordTimeoutKeeps(v, h) ==
  [v EXCEPT !.info_emitted       = @ \union {h},
            !.process_warn_fired = @ \/ WarnFires(v)]

RecordTimeout(v, h) ==
  [v EXCEPT !.pending            = @ \ {h},
            !.info_emitted       = @ \union {h},
            !.process_warn_fired = @ \/ WarnFires(v)]

(* The event record_timeout returns for the caller to log. *)
TimeoutEvent(v, h) ==
  CASE InfoFires(v, h)  /\ WarnFires(v)  -> "InfoAndWarn"
    [] InfoFires(v, h)  /\ ~WarnFires(v) -> "InfoOnceForHandle"
    [] ~InfoFires(v, h) /\ WarnFires(v)  -> "WarnOnceForProcess"
    [] OTHER                             -> "None"

LogsWarn(event) == event \in {"WarnOnceForProcess", "InfoAndWarn"}
LogsInfo(event) == event \in {"InfoOnceForHandle", "InfoAndWarn"}
=============================================================================
