---------------------------- MODULE Publication ----------------------------
(***************************************************************************)
(* What POST /stations/{id}/process promises to whoever reads the stored   *)
(* metrics, without saying how a run works: a run shows its results in one *)
(* step, all metrics of a device together, before it is answered with      *)
(* success and at most once; a run that fails shows nothing; and nothing   *)
(* else ever changes what is shown, a restart included.                    *)
(***************************************************************************)
CONSTANTS
    Runs,     \* the requests
    Metrics   \* the metrics of a device

VARIABLES
    shown,   \* the stored rows: key -> [run, readings, ...]
    status   \* [Runs -> "open", "published", "ok", "failed" or "lost"]

PublicationInit == shown = [k \in {} |-> {}] /\ status = [r \in Runs |-> "open"]

(* The rows a step has given to r: whole devices, and everything that       *)
(* changes.                                                                 *)
ShownBy(r) ==
    LET batch == {k \in DOMAIN shown' : shown'[k].run = r} IN
    /\ batch # {}
    /\ \A k \in batch, m \in Metrics :
          LET other == [k EXCEPT !.metric = m]
          IN other \in batch /\ shown'[other].readings = shown'[k].readings
    /\ DOMAIN shown' = DOMAIN shown \cup batch
    /\ \A k \in DOMAIN shown \ batch : shown'[k] = shown[k]

Publish(r) ==
    /\ status[r] = "open" /\ status' = [status EXCEPT ![r] = "published"]
    /\ ShownBy(r)

Succeed(r) ==
    /\ status[r] = "published" /\ status' = [status EXCEPT ![r] = "ok"]
    /\ UNCHANGED shown

Fail(r) ==
    /\ status[r] = "open" /\ status' = [status EXCEPT ![r] = "failed"]
    /\ UNCHANGED shown

(* Runs that were in progress are lost, with or without their results. *)
Lose ==
    /\ \A r \in Runs : status'[r] # status[r] =>
          status[r] \in {"open", "published"} /\ status'[r] = "lost"
    /\ status' \in [Runs -> {"open", "published", "ok", "failed", "lost"}]
    /\ UNCHANGED shown

PublicationNext == Lose \/ \E r \in Runs : Publish(r) \/ Succeed(r) \/ Fail(r)

PublicationSpec == PublicationInit /\ [][PublicationNext]_<<shown, status>>
=============================================================================
