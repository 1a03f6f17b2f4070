------------------------------- MODULE NodeCrl -------------------------------
(***************************************************************************)
(* The certificate revocation list of a node (flows/revocations.py,        *)
(* provisioning/revocations.py, _check_crl of flows/reconcile.py).  Three  *)
(* jobs publish it, each of them whole: apply_revocations for the pending  *)
(* rows it has locked, refresh_crl once a day, and reconcile when the file *)
(* differs.  Each reads the revocations first and writes the file later,   *)
(* and only the first holds any lock in between.  Signing, validity dates  *)
(* and the reload of ocserv, which notices the file by itself, are left    *)
(* out; a certificate is the device it was issued for.                     *)
(*                                                                         *)
(* An operator X_Y is X with the slip Y, as in SubscriptionState.          *)
(***************************************************************************)
EXTENDS Integers

CONSTANTS Devices,
          Appliers, Refreshers, Reconcilers,  \* jobs of the workers; one may do the last two
          MaxOutages, Edits                   \* bounds of the model, as in NodeAccess

Workers == Appliers \cup Refreshers \cup Reconcilers

NodeCrlAssumption ==
    /\ MaxOutages \in Nat /\ Edits \in Nat
    /\ "missing" \notin Devices
    /\ Appliers \cap (Refreshers \cup Reconcilers) = {}

VARIABLES revoked,  \* rows of revocations; none is ever removed
          applied,  \* those with applied_at
          crl,      \* the serial numbers in crl.pem
          up,       \* the container runs
          work,     \* each job: the rows it has locked, and the list it holds
          outages, edits

vars == <<revoked, applied, crl, up, work, outages, edits>>

Missing == {"missing"}   \* there is no crl.pem, or it cannot be read
Idle == [at |-> "idle", claimed |-> {}, list |-> {}]

SetWork(k, step) == work' = [work EXCEPT ![k] = step]
Locked == UNION {work[k].claimed : k \in Workers}
Pending == revoked \ applied

----------------------------------------------------------------------------
\* A device is revoked (service.revoke_device), in a transaction of its own.
Revoke(d) ==
    /\ d \notin revoked
    /\ revoked' = revoked \cup {d}
    /\ UNCHANGED <<applied, crl, up, work, outages, edits>>

Claim_Locked(k) ==
    /\ k \in Appliers /\ work[k] = Idle
    /\ Pending # {}
    /\ SetWork(k, [Idle EXCEPT !.at = "gather", !.claimed = Pending])
    /\ UNCHANGED <<revoked, applied, crl, up, outages, edits>>
Claim_Nothing(k) ==
    /\ k \in Appliers /\ work[k] = Idle
    /\ SetWork(k, [Idle EXCEPT !.at = "gather", !.claimed = Pending \ Locked])
    /\ UNCHANGED <<revoked, applied, crl, up, outages, edits>>
\* pending_revocations: FOR UPDATE SKIP LOCKED; nothing is done when there are none.
Claim(k) ==
    /\ k \in Appliers /\ work[k] = Idle
    /\ Pending \ Locked # {}
    /\ SetWork(k, [at |-> "gather", claimed |-> Pending \ Locked, list |-> {}])
    /\ UNCHANGED <<revoked, applied, crl, up, outages, edits>>

StartRefresh(k) ==
    /\ k \in Refreshers /\ work[k] = Idle
    /\ SetWork(k, [Idle EXCEPT !.at = "gather"])
    /\ UNCHANGED <<revoked, applied, crl, up, outages, edits>>

\* Reconcile looks at a running node: first the file ...
ReadCrl(k) ==
    /\ k \in Reconcilers /\ work[k] = Idle /\ up
    /\ SetWork(k, [Idle EXCEPT !.at = "judge", !.list = crl])
    /\ UNCHANGED <<revoked, applied, crl, up, outages, edits>>

Drifted_ExtraOnly(list) == list = Missing \/ ~ list \subseteq revoked
\* ... then the rows: only applied revocations are expected, nothing unknown is.
Drifted(list) == list = Missing \/ ~ applied \subseteq list \/ ~ list \subseteq revoked

Judge(k) ==
    /\ work[k].at = "judge"
    /\ SetWork(k, IF Drifted(work[k].list) THEN [Idle EXCEPT !.at = "gather"] ELSE Idle)
    /\ UNCHANGED <<revoked, applied, crl, up, outages, edits>>

\* build_crl of all_revoked_serials: always the whole list.
Gather(k) ==
    /\ work[k].at = "gather"
    /\ SetWork(k, [at |-> "publish", claimed |-> work[k].claimed, list |-> revoked])
    /\ UNCHANGED <<revoked, applied, crl, up, outages, edits>>

\* The file is on a volume; it is replaced at once.
Publish(k) ==
    /\ work[k].at = "publish"
    /\ crl' = work[k].list
    /\ SetWork(k, IF k \in Appliers THEN [work[k] EXCEPT !.at = "reload"] ELSE Idle)
    /\ UNCHANGED <<revoked, applied, up, outages, edits>>

\* The node has reloaded and cut the sessions: applied_at is committed.
MarkApplied(k) ==
    /\ work[k].at = "reload" /\ up
    /\ applied' = applied \cup work[k].claimed
    /\ SetWork(k, Idle)
    /\ UNCHANGED <<revoked, crl, up, outages, edits>>

\* NodeUnreachable, or the worker dies: rolled back, the rows are pending again.
GiveUp(k) ==
    /\ work[k] # Idle
    /\ SetWork(k, Idle)
    /\ UNCHANGED <<revoked, applied, crl, up, outages, edits>>

----------------------------------------------------------------------------
Stop ==
    /\ up /\ outages < MaxOutages
    /\ up' = FALSE /\ outages' = outages + 1
    /\ UNCHANGED <<revoked, applied, crl, work, edits>>

StartUp ==
    /\ ~up /\ up' = TRUE
    /\ UNCHANGED <<revoked, applied, crl, work, outages, edits>>

EditByHand ==
    /\ edits < Edits
    /\ edits' = edits + 1
    /\ crl' \in (SUBSET Devices) \cup {Missing}
    /\ UNCHANGED <<revoked, applied, up, work, outages>>

\* install.sh leaves an empty list behind.
Init ==
    /\ revoked = {} /\ applied = {} /\ crl = {} /\ up = TRUE
    /\ work = [k \in Workers |-> Idle]
    /\ outages = 0 /\ edits = 0

Step(k) == Judge(k) \/ Gather(k) \/ Publish(k) \/ MarkApplied(k) \/ GiveUp(k)

Next ==
    \/ \E d \in Devices : Revoke(d)
    \/ \E k \in Workers : Claim(k) \/ StartRefresh(k) \/ ReadCrl(k) \/ Step(k)
    \/ Stop \/ StartUp \/ EditByHand

\* The crons come again and again, the container is restarted, each job moves on or is
\* cancelled by its timeout, and a step that jobs come to again and again is not interrupted
\* every time.  The daily refresh is not needed.
Fairness ==
    /\ WF_vars(StartUp)
    /\ \A k \in Workers : WF_vars(Step(k))
    /\ SF_vars(\E k \in Appliers : Claim(k)) /\ SF_vars(\E k \in Appliers : Gather(k))
    /\ SF_vars(\E k \in Appliers : Publish(k)) /\ SF_vars(\E k \in Appliers : MarkApplied(k))
    /\ \A k \in Reconcilers : SF_vars(ReadCrl(k)) /\ SF_vars(Judge(k))
    /\ \A k \in Reconcilers : SF_vars(Gather(k)) /\ SF_vars(Publish(k))

Spec == Init /\ [][Next]_vars
FairSpec == Spec /\ Fairness

----------------------------------------------------------------------------
\* The types; only apply_revocations locks rows, and it does nothing without one, so the
\* cron does not rewrite the list of every node each time.
TypeOK ==
    /\ applied \subseteq revoked /\ revoked \subseteq Devices
    /\ crl \in (SUBSET Devices) \cup {Missing}
    /\ up \in BOOLEAN /\ outages \in Nat /\ edits \in Nat
    /\ work \in [Workers -> [at : {"idle", "judge", "gather", "publish", "reload"},
                             claimed : SUBSET Devices, list : (SUBSET Devices) \cup {Missing}]]
    /\ \A k \in Workers : work[k].claimed # {} <=> k \in Appliers /\ work[k] # Idle

\* Two runs of apply_revocations never work on one revocation (SKIP LOCKED), and a row is
\* marked applied by the run that claimed it only.
ClaimsAreDisjoint ==
    \A j, k \in Workers :
        /\ j # k => work[j].claimed \cap work[k].claimed = {}
        /\ work[k].claimed \cap applied = {}

\* apply_revocations' comment: applied_at is set only when the node has taken the list, so
\* that while no job is about to write it and no hand was on it, the node refuses every
\* certificate that counts as revoked there.
AppliedIsListed ==
    (\A k \in Workers : work[k].at # "publish") /\ edits = 0 => applied \subseteq crl

\* The node heals: in the end every revocation is in the list, marked as applied, and
\* nothing else is in the list.
CrlConverges == <>[](applied = revoked /\ crl = revoked)
============================================================================
