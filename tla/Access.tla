------------------------------- MODULE Access -------------------------------
(***************************************************************************)
(* Who may trade one account: its activation (a paid challenge, a demo, a  *)
(* master account), the block and reactivation of its customer, the        *)
(* admins' LOCK, UNLOCK and CLOSE, the cancellation of a demo and the      *)
(* reconciliation worker, against an account at the Trader platform that   *)
(* is switched by calls of its own.                                        *)
(*                                                                         *)
(* A call loads the account document, talks to Trader and writes: with a   *)
(* condition (updateOne, findOneAndUpdate), or by save(), which writes the *)
(* fields that differ from the loaded copy over whatever is stored by then.*)
(*                                                                         *)
(* Abstracted: one customer with one account; rules, credentials, mails    *)
(* and audit rows; the account at Trader of a completed challenge; the     *)
(* clock (a trial is due and a payment's claim outlived at any time, an    *)
(* approval is stale or not).  Breaches and phases are those of            *)
(* StateEngine and CommandLifecycle.                                       *)
(***************************************************************************)
EXTENDS Naturals, FiniteSets

CONSTANTS
  None,
  Kinds,      \* a subset of {"CHALLENGE", "DEMO", "MASTER"}
  MaxCalls,   \* bound on HTTP calls and jobs, each fault counted as one
  MaxAtOnce,  \* bound on those in flight together
  MaxFaults   \* bound on crashes and failed calls to Trader

ASSUME AccessAssumption ==
  /\ Kinds \subseteq {"CHALLENGE", "DEMO", "MASTER"}
  /\ None \notin 0..MaxCalls
  /\ {MaxCalls, MaxAtOnce, MaxFaults} \subseteq Nat

VARIABLES
  kind,       \* what the account is
  doc,        \* the Account document
  customer,   \* the status of the customer
  remote,     \* the account at Trader
  stale,      \* whether the approval under way is older than five minutes
  done,       \* whether the payment records the activation
  call,       \* calls in flight, the reconciliation worker's among them
  behind,     \* calls about to save() a copy the document has moved on from (history)
  clash,      \* a save() landed on a document changed since it was read, an
              \* account was reopened during another call, a block began during
              \* another change of the customer or an UNLOCK, or an activation of
              \* the challenge during another (history)
  glitches    \* faults so far

accessVars == <<kind, doc, customer, remote, stale, done, call, behind, clash,
                glitches>>

Calls == 1..MaxCalls
Reconciler == 0  \* the reconciliation worker
Agents == Calls \cup {Reconciler}

Tradable == {"ACTIVE", "FUNDED"}
Terminal == {"EXPIRED", "CLOSED"}
AccountStatus == Tradable \cup Terminal \cup {"NEW", "FUNDED_REVIEW", "LOCKED"}
TraderStatus == {"PAUSED", "ACTIVE", "CLOSED"}
ChallengeStatus == {"COMPLETED", "PAUSED", "CLOSED"}

(* The current platform record is that of the last account provisioned,    *)
(* else that of a master account's completed challenge.                    *)
AccountDoc ==
  [status    : AccountStatus \cup {None},
   enabled   : BOOLEAN,
   denied    : BOOLEAN,                       \* customerAccessBlocked
   record    : TraderStatus \cup {None},      \* the account provisioned here
   challenge : ChallengeStatus \cup {None},   \* the completed challenge
   pending   : BOOLEAN,                       \* commandPending, the review's
   op        : Calls \cup {None},             \* lifecycleOperationId
   key       : BOOLEAN]                       \* activeTrialKey

AccessSteps ==
  {"idle", "returned", "create", "claim", "provision", "commit", "assert", "activate",
   "recheck", "enable", "record", "undo", "settle", "rollback",
   "deny", "find", "pause", "paused", "lift", "cleared", "resume", "resumed",
   "lock", "locked", "unlock", "unlocked", "close", "closed", "reap", "reaped",
   "stage", "recover", "recovered"}

AccessCall ==
  [at : AccessSteps, copy : AccountDoc, blocked : BOOLEAN]

NoAccount ==
  [status |-> None, enabled |-> FALSE, denied |-> FALSE, record |-> None,
   challenge |-> None, pending |-> FALSE, op |-> None, key |-> FALSE]

NoAccess == [at |-> "idle", copy |-> NoAccount, blocked |-> FALSE]

ASSUME NoneIsNoAccessData == 
  None \notin AccountStatus \cup TraderStatus \cup ChallengeStatus

AccessTypeOK ==
  /\ kind \in Kinds
  /\ doc \in AccountDoc
  /\ customer \in {"ACTIVE", "BLOCKED"}
  /\ remote \in TraderStatus \cup {None}
  /\ {stale, done, clash} \subseteq BOOLEAN
  /\ call \in [Agents -> AccessCall]
  /\ behind \subseteq Agents
  /\ glitches \in 0..MaxFaults

(* A master account is at its review, the challenge record completed, the  *)
(* funded one not provisioned, the command that brought it there cleared   *)
(* or not.                                                                 *)
AtReview(pending) ==
  [NoAccount EXCEPT !.status = "FUNDED_REVIEW", !.challenge = "COMPLETED",
                    !.pending = pending]

AccessInit ==
  /\ kind \in Kinds
  /\ doc \in IF kind = "MASTER" THEN {AtReview(pending) : pending \in BOOLEAN}
             ELSE {NoAccount}
  /\ customer = "ACTIVE"
  /\ remote = None
  /\ stale = FALSE
  /\ done = FALSE
  /\ call = [a \in Agents |-> NoAccess]
  /\ behind = {}
  /\ clash = FALSE
  /\ glitches = 0

-----------------------------------------------------------------------------
(* Calls.                                                                  *)

Is(a, step) == call[a].at = step
Step(a, step) == call' = [call EXCEPT ![a].at = step]
Hold(a, step, held) ==
  call' = [call EXCEPT ![a] = [call[a] EXCEPT !.at = step, !.copy = held]]
Load(a, step) == Hold(a, step, doc)
Done(a) == call' = [call EXCEPT ![a] =
  IF a = Reconciler THEN NoAccess ELSE [NoAccess EXCEPT !.at = "returned"]]
InFlight(a) == call[a].at \notin {"idle", "returned"}
Copy(a) == call[a].copy
Quiet == \A a \in Agents : ~InFlight(a)

Alone(a) == \A b \in Agents \ {a} : ~InFlight(b)

(* save() of a copy with its assignments made: what differs is written.    *)
Saved(a, new) ==
  [f \in DOMAIN doc |-> IF new[f] # Copy(a)[f] THEN new[f] ELSE doc[f]]

Save(a, new, clashes) ==
  /\ doc' = Saved(a, new)
  /\ clash' = (clash \/ clashes)

(* An activation and the end of an approval mind the status and the claim. *)
Moved(a) == \E f \in {"status", "op"} : doc[f] # Copy(a)[f]

(* The other calls that save() mind every write since they read, also when *)
(* the values are the ones they read by now.                               *)
Saving ==
  {"cleared", "resume", "resumed", "lock", "locked", "unlock", "unlocked", "close", "closed"}

Noticed ==
  behind' = {a \in Agents :
    /\ call'[a].at \in Saving
    /\ a \in behind \/ (doc' # doc /\ call'[a] = call[a])}

(* The last step of a reactivation or an UNLOCK.                           *)
Reopen(a, new) == Save(a, new, a \in behind \/ ~Alone(a))

(* A call to Trader: it takes effect, or it fails, and the failure may be  *)
(* that of the answer.                                                     *)
Glitch ==
  /\ glitches < MaxFaults
  /\ Cardinality({c \in Calls : ~Is(c, "idle")}) + glitches < MaxCalls
  /\ glitches' = glitches + 1

Switched(to) == IF remote \in {None, "CLOSED"} THEN remote ELSE to

Trader(to, success, failure) ==
  \/ remote' = to /\ success /\ UNCHANGED glitches
  \/ remote' \in {remote, to} /\ failure /\ Glitch

local == <<kind, customer, stale, done>>

-----------------------------------------------------------------------------
(* Activation.                                                             *)

Target == IF kind = "MASTER" THEN "FUNDED" ELSE "ACTIVE"
Starting(a) ==
  call[a].at \in {"provision", "commit", "assert", "activate", "recheck", "enable",
                  "undo", "settle"}

(* The payment's claim may be five minutes old, and then keeps no second   *)
(* activation of the challenge away; a demo is started once.               *)
StartAccount(c) ==
  /\ Is(c, "idle")
  /\ kind # "MASTER"
  /\ ~done
  /\ customer # "BLOCKED"
  /\ IF doc.status = None THEN Load(c, "create") /\ UNCHANGED clash
     ELSE /\ kind = "CHALLENGE"
          /\ Load(c, IF doc.record = None THEN "provision" ELSE "commit")
          /\ clash' = (clash \/ \E a \in Agents : Starting(a))
  /\ UNCHANGED <<doc, remote, local, glitches>>

(* The account's id and the demo's key are unique.                         *)
CreateAccount(c) ==
  /\ Is(c, "create")
  /\ IF doc.status = None
     THEN /\ doc' = [NoAccount EXCEPT !.status = "NEW", !.key = (kind = "DEMO")]
          /\ Hold(c, "provision", doc')
     ELSE Done(c) /\ UNCHANGED doc
  /\ UNCHANGED <<remote, local, clash, glitches>>

ApproveFunded(c) ==
  /\ Is(c, "idle")
  /\ kind = "MASTER"
  /\ doc.status = "FUNDED_REVIEW"
  /\ customer # "BLOCKED"
  /\ Step(c, "claim")
  /\ UNCHANGED <<doc, remote, local, clash, glitches>>

(* The filter of the claim: reviewed once its command is cleared, the      *)
(* challenge completed, no other approval under way.                       *)
MayClaim(d) ==
  /\ d.status = "FUNDED_REVIEW"
  /\ ~d.pending
  /\ d.challenge = "COMPLETED"
  /\ d.op = None

ClaimApproval(c) ==
  /\ Is(c, "claim")
  /\ IF MayClaim(doc)
     THEN /\ doc' = [doc EXCEPT !.op = c, !.enabled = FALSE]
          /\ stale' = FALSE
          /\ Hold(c, "provision", doc')
     ELSE Done(c) /\ UNCHANGED <<doc, stale>>
  /\ UNCHANGED <<kind, customer, done, remote, clash, glitches>>

(* A challenge that could not be provisioned is left to the next attempt.  *)
AbortProvision(c) ==
  IF kind = "CHALLENGE" THEN Done(c)
  ELSE IF kind = "DEMO" THEN Step(c, "settle") ELSE Step(c, "rollback")

ProvisionTradingAccount(c) ==
  /\ Is(c, "provision")
  /\ \/ /\ remote' = IF remote = None THEN "PAUSED" ELSE remote
        /\ doc' = Saved(c, [Copy(c) EXCEPT !.record = remote'])
        /\ Hold(c, "commit", [Copy(c) EXCEPT !.record = remote'])
        /\ UNCHANGED glitches
     \/ /\ remote' \in {remote, IF remote = None THEN "PAUSED" ELSE remote}
        /\ AbortProvision(c)
        /\ UNCHANGED doc
        /\ Glitch
  /\ UNCHANGED <<local, clash>>

(* The status is committed before the account can be traded on.            *)
CommitLifecycle(c) ==
  LET new == [Copy(c) EXCEPT !.status = Target, !.enabled = FALSE]
  IN /\ Is(c, "commit")
     /\ Save(c, new, Moved(c))
     /\ Hold(c, "assert", new)
     /\ UNCHANGED <<remote, local, glitches>>

(* assertCustomerTradingAccessAllowed, before and after the activation.    *)
AssertAccess(c) ==
  /\ call[c].at \in {"assert", "recheck"}
  /\ call' = [call EXCEPT ![c] =
       IF Copy(c).denied \/ customer = "BLOCKED"
       THEN [NoAccess EXCEPT !.at = "undo", !.blocked = TRUE]
       ELSE IF Is(c, "assert") THEN [call[c] EXCEPT !.at = "activate"]
       ELSE [NoAccess EXCEPT !.at = "enable"]]
  /\ UNCHANGED <<doc, remote, local, clash, glitches>>

ActivateTradingAccount(c) ==
  /\ Is(c, "activate")
  /\ IF remote = "CLOSED" THEN Step(c, "undo") /\ UNCHANGED <<remote, glitches>>
     ELSE Trader("ACTIVE", Step(c, "recheck"), Step(c, "undo"))
  /\ UNCHANGED <<doc, local, clash>>

(* What is left of an activation: the payment of a challenge is to record  *)
(* the account.                                                            *)
Enabled(c) == IF kind = "CHALLENGE" THEN Step(c, "record") ELSE Done(c)

(* Faulty: the last update trusts the checks before it.                    *)
EnableTrusting(c) ==
  /\ Is(c, "enable")
  /\ doc.status = Target
  /\ doc' = [doc EXCEPT !.enabled = TRUE, !.record = "ACTIVE", !.op = None]
  /\ Enabled(c)
  /\ UNCHANGED <<local, remote, clash, glitches>>

EnableAccount(c) ==
  /\ Is(c, "enable")
  /\ IF /\ doc.status = Target
        /\ ~doc.denied
        /\ kind = "DEMO" => doc.key
        /\ kind = "MASTER" => doc.op = c
     THEN /\ doc' = [doc EXCEPT !.enabled = TRUE, !.record = "ACTIVE", !.op = None]
          /\ stale' = FALSE
          /\ Enabled(c)
     ELSE /\ call' = [call EXCEPT ![c] = [NoAccess EXCEPT !.at = "undo",
               !.blocked = kind # "MASTER" /\ (doc.denied \/ customer = "BLOCKED")]]
          /\ UNCHANGED <<doc, stale>>
  /\ UNCHANGED <<kind, customer, done, remote, clash, glitches>>

RecordActivation(c) ==
  /\ Is(c, "record")
  /\ done' = TRUE
  /\ Done(c)
  /\ UNCHANGED <<kind, customer, stale, doc, remote, clash, glitches>>

(* Faulty: what was activated at Trader is left as it is.                  *)
UndoLocally(c) ==
  /\ Is(c, "undo")
  /\ Step(c, IF kind = "MASTER" THEN "rollback" ELSE "settle")
  /\ UNCHANGED <<doc, remote, local, clash, glitches>>

(* stageTradingAccount, whose failure is ignored.                          *)
StageTradingAccount(c) ==
  /\ Is(c, "undo")
  /\ LET next == Step(c, IF kind = "MASTER" THEN "rollback" ELSE "settle")
     IN Trader(Switched("PAUSED"), next, next)
  /\ UNCHANGED <<doc, local, clash>>

(* The catch blocks of activatePaidPayment and ensureDemoAccount.          *)
SettleFailure(c) ==
  /\ Is(c, "settle")
  /\ doc' = IF kind = "CHALLENGE"
            THEN IF doc.status = "ACTIVE"
                 THEN [doc EXCEPT !.enabled = FALSE, !.denied = @ \/ call[c].blocked]
                 ELSE doc
            ELSE IF call[c].blocked
                 THEN [doc EXCEPT !.enabled = FALSE, !.denied = TRUE]
                 ELSE IF doc.status \in {"NEW", "ACTIVE"} /\ doc.key
                      THEN [doc EXCEPT !.status = "CLOSED", !.enabled = FALSE, !.key = FALSE]
                      ELSE doc
  /\ Done(c)
  /\ UNCHANGED <<remote, local, clash, glitches>>

(* Faulty: the status is one the schema does not have.                     *)
ReviewedAnew(d) ==
  [d EXCEPT !.status = IF @ = "CLOSED" THEN @ ELSE "REVIEW",
            !.enabled = FALSE, !.op = None]

(* Faulty: all platform records are paused, not the current one alone.     *)
ReviewedAll(d) ==
  [d EXCEPT !.record = IF @ \in {None, "CLOSED"} THEN @ ELSE "PAUSED",
            !.challenge = IF @ = "COMPLETED" THEN "PAUSED" ELSE @,
            !.status = IF @ = "CLOSED" THEN @ ELSE "FUNDED_REVIEW",
            !.enabled = FALSE, !.op = None]

(* What the rollback of an approval and its recovery make of the document: *)
(* the current record is paused, which is the challenge's when no funded   *)
(* account was provisioned.                                                *)
Reviewed(d) ==
  [d EXCEPT !.record = IF @ \in {None, "CLOSED"} THEN @ ELSE "PAUSED",
            !.challenge = IF @ = "COMPLETED" /\ d.record = None THEN "PAUSED" ELSE @,
            !.status = IF @ = "CLOSED" THEN @ ELSE "FUNDED_REVIEW",
            !.enabled = FALSE,
            !.op = None]

RollbackApproval(c) ==
  /\ Is(c, "rollback")
  /\ IF doc.op = c THEN Load(c, "recovered") ELSE Done(c)
  /\ UNCHANGED <<doc, remote, local, clash, glitches>>

SaveReviewed(a) ==
  /\ Is(a, "recovered")
  /\ Save(a, Reviewed(Copy(a)), Moved(a))
  /\ stale' = (stale /\ doc'.op # None)
  /\ Done(a)
  /\ UNCHANGED <<kind, customer, done, remote, glitches>>

-----------------------------------------------------------------------------
(* The status of the customer.                                             *)

ChangingStatus ==
  \E a \in Agents : call[a].at \in
    {"deny", "find", "pause", "paused", "lift", "cleared", "resume", "resumed"}

Unlocking == \E a \in Agents : call[a].at \in {"unlock", "unlocked"}

BlockCustomer(c) ==
  /\ Is(c, "idle")
  /\ customer' = "BLOCKED"
  /\ Step(c, "deny")
  /\ clash' = (clash \/ ChangingStatus \/ Unlocking)
  /\ UNCHANGED <<kind, doc, remote, stale, done, glitches>>

(* The durable denial comes first.                                         *)
DenyAccess(c) ==
  /\ Is(c, "deny")
  /\ doc' = IF doc.status \in Terminal \cup {None} THEN doc
            ELSE [doc EXCEPT !.denied = TRUE, !.enabled = FALSE]
  /\ Step(c, "find")
  /\ UNCHANGED <<remote, local, clash, glitches>>

FindDenied(c) ==
  /\ Is(c, "find")
  /\ IF /\ doc.status \notin Terminal
        /\ doc.denied
        /\ doc.record \notin {None, "PAUSED", "CLOSED"}
     THEN Load(c, "pause") ELSE Done(c)
  /\ UNCHANGED <<doc, remote, local, clash, glitches>>

PauseDenied(c) ==
  /\ Is(c, "pause")
  /\ Trader(Switched("PAUSED"), Step(c, "paused"), Done(c))
  /\ UNCHANGED <<doc, local, clash>>

SavePaused(c) ==
  /\ Is(c, "paused")
  /\ doc' = Saved(c, [Copy(c) EXCEPT !.record = "PAUSED"])
  /\ Done(c)
  /\ UNCHANGED <<remote, local, clash, glitches>>

ReactivateCustomer(c) ==
  /\ Is(c, "idle")
  /\ customer' = "ACTIVE"
  /\ Step(c, "lift")
  /\ clash' = (clash \/ ~Alone(c))
  /\ UNCHANGED <<kind, doc, remote, stale, done, glitches>>

(* What is not tradable is only released, what is not active is resumed.   *)
LiftDenial(c) ==
  /\ Is(c, "lift")
  /\ IF ~doc.denied THEN Done(c)
     ELSE IF doc.status \notin Tradable \/ doc.record = None THEN Load(c, "cleared")
     ELSE IF doc.record = "CLOSED" THEN Done(c)
     ELSE Load(c, IF doc.record = "ACTIVE" THEN "resumed" ELSE "resume")
  /\ UNCHANGED <<doc, remote, local, clash, glitches>>

SaveCleared(c) ==
  /\ Is(c, "cleared")
  /\ Save(c, [Copy(c) EXCEPT !.denied = FALSE, !.enabled = FALSE], c \in behind)
  /\ Done(c)
  /\ UNCHANGED <<remote, local, glitches>>

(* Trader refuses to switch a closed account.                              *)
ResumeAccount(c) ==
  /\ call[c].at \in {"resume", "unlock"}
  /\ IF remote = "CLOSED" THEN Done(c) /\ UNCHANGED <<remote, glitches>>
     ELSE Trader(Switched("ACTIVE"),
                 Step(c, IF Is(c, "resume") THEN "resumed" ELSE "unlocked"), Done(c))
  /\ UNCHANGED <<doc, local, clash>>

SaveResumed(c) ==
  /\ Is(c, "resumed")
  /\ Reopen(c, [Copy(c) EXCEPT !.record = "ACTIVE", !.denied = FALSE, !.enabled = TRUE])
  /\ Done(c)
  /\ UNCHANGED <<remote, local, glitches>>

-----------------------------------------------------------------------------
(* LOCK, UNLOCK and CLOSE of the admins.                                   *)

LockAccount(c) ==
  /\ Is(c, "idle")
  /\ doc.status \in Tradable
  /\ doc.record # None
  /\ Load(c, "lock")
  /\ UNCHANGED <<doc, remote, local, clash, glitches>>

PauseLocked(c) ==
  /\ Is(c, "lock")
  /\ IF remote = "CLOSED" THEN Done(c) /\ UNCHANGED <<remote, glitches>>
     ELSE Trader(Switched("PAUSED"), Step(c, "locked"), Done(c))
  /\ UNCHANGED <<doc, local, clash>>

SaveLocked(c) ==
  /\ Is(c, "locked")
  /\ Save(c, [Copy(c) EXCEPT !.record = "PAUSED", !.status = "LOCKED", !.enabled = FALSE],
          c \in behind)
  /\ Done(c)
  /\ UNCHANGED <<remote, local, glitches>>

UnlockAccount(c) ==
  /\ Is(c, "idle")
  /\ doc.status = "LOCKED"
  /\ customer # "BLOCKED"
  /\ Load(c, "unlock")
  /\ clash' = (clash \/ ~Alone(c))
  /\ UNCHANGED <<doc, remote, local, glitches>>

SaveUnlocked(c) ==
  /\ Is(c, "unlocked")
  /\ Reopen(c, [Copy(c) EXCEPT !.record = "ACTIVE", !.status = Target, !.enabled = TRUE])
  /\ Done(c)
  /\ UNCHANGED <<remote, local, glitches>>

CloseAccount(c) ==
  /\ Is(c, "idle")
  /\ doc.status \notin {None, "CLOSED"}
  /\ Load(c, IF doc.record = None /\ doc.challenge = None THEN "closed" ELSE "close")
  /\ UNCHANGED <<doc, remote, local, clash, glitches>>

(* The current account, which may be that of the completed challenge.      *)
CloseAtTrader(c) ==
  /\ Is(c, "close")
  /\ Trader(IF Copy(c).record = None THEN remote ELSE "CLOSED", Step(c, "closed"), Done(c))
  /\ UNCHANGED <<doc, local, clash>>

SaveClosed(c) ==
  /\ Is(c, "closed")
  /\ Save(c, [Copy(c) EXCEPT
                 !.record = IF @ = None THEN @ ELSE "CLOSED",
                 !.challenge = IF @ # None /\ Copy(c).record = None THEN "CLOSED" ELSE @,
                 !.status = "CLOSED", !.enabled = FALSE, !.key = FALSE], c \in behind)
  /\ Done(c)
  /\ UNCHANGED <<remote, local, glitches>>

-----------------------------------------------------------------------------
(* The end of a demo, and the reconciliation worker.                       *)

(* The conditional update of cancelDemoAccount and expireDueTrials.        *)
EndDemo(a, status) ==
  /\ Is(a, "idle")
  /\ kind = "DEMO"
  /\ doc.status \in {"NEW", "ACTIVE"}
  /\ doc' = [doc EXCEPT !.status = status, !.enabled = FALSE, !.key = FALSE]
  /\ Hold(a, "reap", doc')
  /\ UNCHANGED <<remote, local, clash, glitches>>

CancelDemo(c) == customer # "BLOCKED" /\ EndDemo(c, "CLOSED")
ExpireTrial == EndDemo(Reconciler, "EXPIRED")

Open == {"ACTIVE", "PAUSED"}

(* Faulty: expired accounts are taken to be closed already.                *)
OrphansOfClosed ==
  /\ Is(Reconciler, "idle")
  /\ doc.status = "CLOSED"
  /\ doc.record \in Open
  /\ Load(Reconciler, "reap")
  /\ UNCHANGED <<doc, remote, local, clash, glitches>>

FindOrphan ==
  /\ Is(Reconciler, "idle")
  /\ doc.status \in Terminal
  /\ doc.record \in Open
  /\ Load(Reconciler, "reap")
  /\ UNCHANGED <<doc, remote, local, clash, glitches>>

ReapAtTrader(a) ==
  /\ Is(a, "reap")
  /\ IF Copy(a).record \in Open
     THEN Trader("CLOSED", Step(a, "reaped"), Done(a))
     ELSE Done(a) /\ UNCHANGED <<remote, glitches>>
  /\ UNCHANGED <<doc, local, clash>>

SaveReaped(a) ==
  /\ Is(a, "reaped")
  /\ doc' = Saved(a, [Copy(a) EXCEPT !.record = "CLOSED"])
  /\ Done(a)
  /\ UNCHANGED <<remote, local, clash, glitches>>

(* The same pass closes the record of a completed challenge that was       *)
(* paused; its account at Trader is not modelled.                          *)
CloseChallenge ==
  /\ Is(Reconciler, "idle")
  /\ doc.status \in Terminal
  /\ doc.challenge \in Open
  /\ doc' = [doc EXCEPT !.challenge = "CLOSED"]
  /\ UNCHANGED <<remote, local, call, clash, glitches>>

(* The command worker clears the command that led to the review.           *)
FinishReview ==
  /\ doc.pending
  /\ doc' = [doc EXCEPT !.pending = FALSE]
  /\ UNCHANGED <<remote, local, call, clash, glitches>>

(* Five minutes after the claim of an approval.                            *)
ApprovalStale ==
  /\ doc.op # None
  /\ ~stale
  /\ stale' = TRUE
  /\ UNCHANGED <<kind, customer, done, doc, remote, call, clash, glitches>>

(* Faulty: only approvals that committed nothing are looked for.           *)
FindStaleReview ==
  /\ Is(Reconciler, "idle")
  /\ doc.op # None
  /\ stale
  /\ doc.status = "FUNDED_REVIEW"
  /\ Load(Reconciler, "stage")
  /\ UNCHANGED <<doc, remote, local, clash, glitches>>

FindStaleApproval ==
  /\ Is(Reconciler, "idle")
  /\ doc.op # None
  /\ stale
  /\ Load(Reconciler, "stage")
  /\ UNCHANGED <<doc, remote, local, clash, glitches>>

(* Without a funded account it is the challenge's that is staged.          *)
StageStale ==
  /\ Is(Reconciler, "stage")
  /\ LET next == Step(Reconciler, "recover")
     IN IF Copy(Reconciler).record = None THEN next /\ UNCHANGED <<remote, glitches>>
        ELSE Trader(Switched("PAUSED"), next, next)
  /\ UNCHANGED <<doc, local, clash>>

RecoverStale ==
  /\ Is(Reconciler, "recover")
  /\ IF doc.op = Copy(Reconciler).op THEN Load(Reconciler, "recovered")
     ELSE Done(Reconciler)
  /\ UNCHANGED <<doc, remote, local, clash, glitches>>

AgentCrashes(a) ==
  /\ InFlight(a)
  /\ Glitch
  /\ Done(a)
  /\ UNCHANGED <<doc, remote, local, clash>>

-----------------------------------------------------------------------------
(* Calls are numbered in the order in which they begin.                    *)
Begin(c) ==
  /\ c > 1 => ~Is(c - 1, "idle")
  /\ c + glitches <= MaxCalls
  /\ Cardinality({b \in Calls : InFlight(b)}) < MaxAtOnce
  /\ \/ StartAccount(c) \/ ApproveFunded(c) \/ BlockCustomer(c)
     \/ ReactivateCustomer(c) \/ LockAccount(c) \/ UnlockAccount(c)
     \/ CloseAccount(c) \/ CancelDemo(c)

Continue(c) ==
  \/ CreateAccount(c) \/ ClaimApproval(c) \/ ProvisionTradingAccount(c)
  \/ CommitLifecycle(c) \/ AssertAccess(c) \/ ActivateTradingAccount(c)
  \/ EnableAccount(c) \/ RecordActivation(c) \/ StageTradingAccount(c) \/ SettleFailure(c)
  \/ RollbackApproval(c)
  \/ DenyAccess(c) \/ FindDenied(c) \/ PauseDenied(c) \/ SavePaused(c)
  \/ LiftDenial(c) \/ SaveCleared(c) \/ ResumeAccount(c) \/ SaveResumed(c)
  \/ PauseLocked(c) \/ SaveLocked(c) \/ SaveUnlocked(c)
  \/ CloseAtTrader(c) \/ SaveClosed(c)

Finish(a) == SaveReviewed(a) \/ ReapAtTrader(a) \/ SaveReaped(a)

Reconcile ==
  \/ FindOrphan \/ CloseChallenge \/ FindStaleApproval \/ StageStale \/ RecoverStale
  \/ Finish(Reconciler)

AccessStep ==
  \/ \E c \in Calls : Begin(c) \/ Continue(c) \/ Finish(c)
  \/ Reconcile \/ ExpireTrial
  \/ ApprovalStale \/ FinishReview
  \/ \E a \in Agents : AgentCrashes(a)

AccessNext == AccessStep /\ Noticed

(* A call once begun goes on, the reconciliation worker passes every       *)
(* minute, and an approval grows old.                                      *)
AccessFairness ==
  /\ \A c \in Calls : WF_accessVars((Continue(c) \/ Finish(c)) /\ Noticed)
  /\ WF_accessVars(Reconcile /\ Noticed)
  /\ WF_accessVars(ApprovalStale /\ Noticed)

AccessSafetySpec == AccessInit /\ [][AccessNext]_accessVars
AccessSpec == AccessSafetySpec /\ AccessFairness

-----------------------------------------------------------------------------
(* Properties.                                                             *)

Undisturbed == Quiet /\ glitches = 0 /\ ~clash

(* A blocked customer cannot trade: whatever order the block and the steps *)
(* of an activation, an approval, a lock or a cancellation took, when all  *)
(* have returned the account is disabled here and not active at Trader.    *)
(* It needs no call to have crashed or failed at Trader, and no clash: an  *)
(* UNLOCK that read the customer before the block writes enabled=true over *)
(* the denial, a save() may land on a document changed since it was read,  *)
(* and the second of two activations of a challenge may activate during a  *)
(* LOCK what the first had enabled, and change nothing the LOCK would see. *)
BlockedIsShut ==
  Undisturbed /\ customer = "BLOCKED" => ~doc.enabled /\ remote # "ACTIVE"

(* No account trades at Trader while it is disabled here, under the same   *)
(* two conditions: an activation that loses its last update, an approval   *)
(* that was recovered while it ran, a lock and a cancellation undo what    *)
(* they or the others did at Trader.  A LOCK during which an activation    *)
(* ran to its end does not: it writes LOCKED over what is active again.    *)
DisabledIsShut == Undisturbed /\ remote = "ACTIVE" => doc.enabled

(* The claim of an approval ends, by its call or by the recovery of a      *)
(* stale one, whatever crashed: no later approval is refused because an    *)
(* earlier one never came to its end.                                      *)
ApprovalEnds == doc.op # None ~> doc.op = None

(* An approval that is refused by a block, superseded or taken back by the *)
(* recovery leaves an account at its review that can be approved again: no *)
(* claim is left on it and its challenge still counts as completed.  It    *)
(* needs the same two conditions: an approval that fails before the funded *)
(* account is provisioned pauses the challenge's record, and no approval   *)
(* passes the filter after it.                                             *)
ReviewIsApprovable ==
  Undisturbed /\ kind = "MASTER" /\ doc.status = "FUNDED_REVIEW" /\ ~doc.pending
    => MayClaim(doc)

(* A closed or expired account does not stay open at Trader: what its call *)
(* did not close, the reconciliation worker does.                          *)
OrphansClosed ==
  doc.status \in Terminal /\ doc.record \in Open
    ~> remote = "CLOSED" \/ doc.status \notin Terminal
=============================================================================
