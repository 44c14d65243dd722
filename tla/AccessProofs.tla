----------------------------- MODULE AccessProofs -----------------------------
(***************************************************************************)
(* Proofs about Access, for every value of its constants: however many     *)
(* activations, approvals, blocks, locks and ends of demos run at once,    *)
(* when all have returned no account is active at Trader that is disabled  *)
(* here, none of a blocked customer, and an account at its review can be   *)
(* approved.  The types and the copies of calls hold always, the rest of   *)
(* the invariant while no call has failed and nothing has clashed; after   *)
(* either the properties promise nothing.                                  *)
(***************************************************************************)
EXTENDS Access, TLAPS

-----------------------------------------------------------------------------
(* The inductive invariant.                                                *)

Calm == glitches = 0 /\ ~clash

BlockSteps == {"deny", "find", "pause", "paused"}
LiftSteps == {"lift", "cleared", "resume", "resumed"}
UnlockSteps == {"unlock", "unlocked"}
StartSteps ==
  {"provision", "commit", "assert", "activate", "recheck", "enable", "undo", "settle"}
Unstaged == {"provision", "commit"}
ClaimSteps ==
  {"provision", "commit", "assert", "activate", "recheck", "enable", "undo", "rollback",
   "recovered"}

(* A call that will pause or close what is active at Trader, or has the    *)
(* account enabled.                                                        *)
Minds(v) ==
  \/ v.at \in {"assert", "activate", "recheck", "enable", "undo", "pause", "resumed", "unlocked"}
  \/ v.at = "reap" /\ v.copy.record \in Open

Minded == \E a \in Agents : Minds(call[a])

(* An account that trades, and one whose block is about to pause it.       *)
Trading(d) == d.enabled /\ d.record = "ACTIVE"
Refused(d) == d.record = "ACTIVE" /\ d.denied /\ d.status \in Tradable /\ d.op = None
Finding == \E a \in Agents : Is(a, "find")
Accounted == Trading(doc) \/ (Finding /\ Refused(doc))

RemoteSound == remote = "ACTIVE" => Minded \/ Accounted

(* A call of which no save() and no undo may leave Trader behind: it paused*)
(* the account, and who activated it since is still to answer for that.    *)
Leaving(a) == Is(a, "settle") \/ (Is(a, "locked") /\ a \notin behind)
LeavingSound == \A a \in Agents : Leaving(a) => (remote = "ACTIVE" => Minded)

(* Only an account of tradable status is enabled; an approval's claim is   *)
(* held by a call, and keeps the account disabled.                         *)
DocSound ==
  /\ doc.enabled => doc.status \in Tradable
  /\ doc.op # None =>
       kind = "MASTER" /\ ~doc.enabled /\ call[doc.op].at \in ClaimSteps

(* After the denial the account is disabled, and an activation past its    *)
(* checks fails in its last update.                                        *)
Barred(d, c) == d.denied \/ d.status # Target \/ (kind = "MASTER" /\ d.op # c)
Denying == \E a \in Agents : Is(a, "deny")
DenialSound ==
  customer = "BLOCKED" /\ ~Denying =>
    ~doc.enabled /\ \A a \in Agents : Is(a, "enable") => Barred(doc, a)

(* One change of the customer's status at a time, and one activation of a  *)
(* challenge or a demo, once its document exists.                          *)
OneOfEach ==
  /\ \A a, b \in Agents :
       call[a].at \in BlockSteps \cup LiftSteps /\ call[b].at \in BlockSteps \cup LiftSteps
         => a = b
  /\ kind # "MASTER" =>
       \A a, b \in Agents : call[a].at \in StartSteps /\ call[b].at \in StartSteps => a = b

(* An account at its review is claimed by who has not committed yet, and   *)
(* its challenge is completed, unless a claim was taken back before its    *)
(* commit, which will clash.                                               *)
Lost(a) == call[a].at \in Unstaged /\ doc.op # a
ReviewSound ==
  kind = "MASTER" =>
    /\ doc.challenge = "COMPLETED" \/ doc.status = "CLOSED" \/ \E a \in Agents : Lost(a)
    /\ doc.status # "EXPIRED"
    /\ doc.status \notin {"FUNDED_REVIEW", "CLOSED"} => doc.record # None
    /\ doc.status = "FUNDED_REVIEW" /\ doc.op # None => call[doc.op].at \in Unstaged

(* What the call v of the agent a relies on.                               *)
CallSound(a, v, k, d, r, who) ==
  /\ v.at \in BlockSteps => who = "BLOCKED"
  /\ v.at \in LiftSteps \cup UnlockSteps => who = "ACTIVE"
  /\ v.at \in {"provision", "commit"} =>
       IF k = "MASTER" THEN v.copy.op = a ELSE d.enabled => v.copy.enabled
  /\ v.at \in {"assert", "activate", "recheck", "enable"} /\ k # "MASTER" => ~d.enabled
  /\ v.at = "closed" => r = "CLOSED" \/ v.copy.record = None
  /\ v.at = "reaped" => r = "CLOSED"
  /\ v.at \in {"resume", "resumed"} => v.copy.status \in Tradable
  /\ v.at \in {"stage", "recover", "recovered"} => v.copy.op # None
  /\ v.at \in {"create", "settle"} => k # "MASTER"
  /\ v.at \in StartSteps => d.status # None
  /\ v.at \in Unstaged /\ k = "MASTER" => v.copy.status = "FUNDED_REVIEW"
  /\ v.at = "commit" \/ (v.at = "provision" /\ v.copy.record # None) => d.record # None
  /\ v.at = "recovered" =>
       v.copy.status \in {"FUNDED_REVIEW", "CLOSED"} \/ v.copy.record # None
  /\ v.at = "claim" => k = "MASTER"
  /\ v.at = "cleared" => v.copy.status \notin Tradable \/ v.copy.record = None
  /\ v.at \in {"lock", "locked", "unlock", "unlocked", "close", "closed"} =>
       v.copy.status # None
  /\ v.at \in {"lock", "locked", "unlock", "unlocked"} => v.copy.status # "CLOSED"

CallsSound == \A a \in Agents : CallSound(a, call[a], kind, doc, remote, customer)

Sound ==
  /\ RemoteSound
  /\ LeavingSound
  /\ DocSound
  /\ DenialSound
  /\ OneOfEach
  /\ ReviewSound
  /\ CallsSound

(* The copy of a call about to save() it, while it is the document.        *)
Copied == \A a \in Agents : call[a].at \in Saving /\ a \notin behind => doc = Copy(a)

AccessInv ==
  /\ AccessTypeOK
  /\ Copied
  /\ Calm => Sound

USE DEF StartSteps, Unstaged

-----------------------------------------------------------------------------
(* Types and the helpers of the model.                                     *)

(* None is no call, no status and no agent.                              *)
LEMMA Distinct ==
  /\ None \notin Agents /\ None \notin TraderStatus /\ None \notin AccountStatus
  /\ None \notin ChallengeStatus
  /\ Calls \subseteq Agents /\ Reconciler \in Agents /\ Reconciler \notin Calls
BY AccessAssumption, NoneIsNoAccessData DEF Agents, Calls, Reconciler

LEMMA NoAccountTyped == NoAccount \in AccountDoc /\ NoAccess \in AccessCall
<1>1. NoAccount \in AccountDoc
  BY DEF NoAccount, AccountDoc
<1> QED
  BY <1>1 DEF NoAccess, AccessCall, AccessSteps

(* The types of the document, of the calls and of their copies.          *)
LEMMA Typed ==
  ASSUME AccessTypeOK
  PROVE  /\ doc \in AccountDoc /\ call \in [Agents -> AccessCall]
         /\ \A a \in Agents :
              call[a] \in AccessCall /\ call[a].at \in AccessSteps /\ call[a].copy \in AccountDoc
BY DEF AccessTypeOK, AccessCall

(* The agent a now stands at v.                                            *)
Acts(a, v) == v \in AccessCall /\ call' = [call EXCEPT ![a] = v] /\ kind' = kind

LEMMA ActsAt ==
  ASSUME AccessTypeOK, NEW a \in Agents, NEW v, Acts(a, v)
  PROVE  /\ call'[a] = v
         /\ \A b \in Agents \ {a} : call'[b] = call[b]
BY Typed DEF Acts

(* How a call moves on: to a next step, with a copy, or to its return.   *)
LEMMA Stepped ==
  ASSUME AccessTypeOK, NEW a \in Agents, NEW s \in AccessSteps, Step(a, s), kind' = kind
  PROVE  \E v : Acts(a, v) /\ v.at = s /\ v.copy = call[a].copy /\ v.blocked = call[a].blocked
<1>1. PICK v : v = [call[a] EXCEPT !.at = s]
  OBVIOUS
<1>2. v \in AccessCall /\ v.at = s /\ v.copy = call[a].copy /\ v.blocked = call[a].blocked
  BY <1>1, Typed DEF AccessCall
<1> QED
  BY <1>1, <1>2 DEF Step, Acts

LEMMA Holds ==
  ASSUME AccessTypeOK, NEW a \in Agents, NEW s \in AccessSteps, NEW d \in AccountDoc,
         Hold(a, s, d), kind' = kind
  PROVE  \E v : Acts(a, v) /\ v.at = s /\ v.copy = d
<1>1. PICK v : v = [call[a] EXCEPT !.at = s, !.copy = d]
  OBVIOUS
<1>2. v \in AccessCall /\ v.at = s /\ v.copy = d
  BY <1>1, Typed DEF AccessCall
<1> QED
  BY <1>1, <1>2 DEF Hold, Acts

LEMMA Loads ==
  ASSUME AccessTypeOK, NEW a \in Agents, NEW s \in AccessSteps, Load(a, s), kind' = kind
  PROVE  \E v : Acts(a, v) /\ v.at = s /\ v.copy = doc
BY Holds, Typed DEF Load

LEMMA Returns ==
  ASSUME AccessTypeOK, NEW a \in Agents, Done(a), kind' = kind
  PROVE  \E v : Acts(a, v) /\ v.at \in {"idle", "returned"}
<1>1. PICK v : v = IF a = Reconciler THEN NoAccess ELSE [NoAccess EXCEPT !.at = "returned"]
  OBVIOUS
<1>2. v \in AccessCall /\ v.at \in {"idle", "returned"}
  BY <1>1, NoAccountTyped DEF AccessCall, AccessSteps, NoAccess
<1> QED
  BY <1>1, <1>2 DEF Done, Acts

(* What a save() makes of the document, field by field.                    *)
LEMMA SavedFields ==
  ASSUME AccessTypeOK, NEW a \in Agents, NEW new \in AccountDoc
  PROVE  /\ Saved(a, new) \in AccountDoc
         /\ Saved(a, new).status =
              IF new.status # Copy(a).status THEN new.status ELSE doc.status
         /\ Saved(a, new).enabled =
              IF new.enabled # Copy(a).enabled THEN new.enabled ELSE doc.enabled
         /\ Saved(a, new).denied =
              IF new.denied # Copy(a).denied THEN new.denied ELSE doc.denied
         /\ Saved(a, new).record =
              IF new.record # Copy(a).record THEN new.record ELSE doc.record
         /\ Saved(a, new).challenge =
              IF new.challenge # Copy(a).challenge THEN new.challenge ELSE doc.challenge
         /\ Saved(a, new).op = IF new.op # Copy(a).op THEN new.op ELSE doc.op
<1>1. PICK copy : copy = Copy(a)
  OBVIOUS
<1>2. copy \in AccountDoc /\ doc \in AccountDoc
  BY <1>1, Typed DEF Copy
<1>3. PICK saved : saved =
        [status    |-> IF new.status # copy.status THEN new.status ELSE doc.status,
         enabled   |-> IF new.enabled # copy.enabled THEN new.enabled ELSE doc.enabled,
         denied    |-> IF new.denied # copy.denied THEN new.denied ELSE doc.denied,
         record    |-> IF new.record # copy.record THEN new.record ELSE doc.record,
         challenge |->
           IF new.challenge # copy.challenge THEN new.challenge ELSE doc.challenge,
         pending   |-> IF new.pending # copy.pending THEN new.pending ELSE doc.pending,
         op        |-> IF new.op # copy.op THEN new.op ELSE doc.op,
         key       |-> IF new.key # copy.key THEN new.key ELSE doc.key]
  BY Zenon
<1>4. saved \in AccountDoc
  BY <1>2, <1>3 DEF AccountDoc
<1>5. DOMAIN doc = DOMAIN NoAccount
  BY <1>2, NoAccountTyped DEF AccountDoc
<1>6. DOMAIN NoAccount = DOMAIN saved
  BY <1>4, NoAccountTyped DEF AccountDoc
<1>7. Saved(a, new) = saved
  BY <1>1, <1>3, <1>5, <1>6 DEF Saved
<1> QED
  BY <1>1, <1>3, <1>4, <1>7

(* A save() of what is a copy of the document itself writes all of it.     *)
LEMMA SavedWhole ==
  ASSUME AccessTypeOK, NEW a \in Agents, NEW new \in AccountDoc, doc = Copy(a)
  PROVE  Saved(a, new) = new
<1>1. doc \in AccountDoc
  BY Typed
<1>2. DOMAIN new = DOMAIN doc
  BY <1>1 DEF AccountDoc
<1>3. new = [f \in DOMAIN new |-> new[f]]
  BY DEF AccountDoc
<1>4. Saved(a, new) = [f \in DOMAIN doc |-> new[f]]
  BY DEF Saved
<1>5. PICK domain : domain = DOMAIN new
  OBVIOUS
<1>6. Saved(a, new) = [f \in domain |-> new[f]] /\ new = [f \in domain |-> new[f]]
  BY <1>2, <1>3, <1>4, <1>5
<1> QED
  BY <1>6

(* A save() that disables a copy enabled as the document is disables it. *)
LEMMA SavedShut ==
  ASSUME AccessTypeOK, NEW a \in Agents, NEW new \in AccountDoc, ~new.enabled,
         doc.enabled => Copy(a).enabled
  PROVE  ~Saved(a, new).enabled
<1>1. {doc.enabled, new.enabled, Copy(a).enabled} \subseteq BOOLEAN
  BY Typed DEF AccountDoc, Copy
<1> QED
  BY <1>1, SavedFields

-----------------------------------------------------------------------------
(* What a step leaves as it was.                                           *)

(* The types, and the copies of the calls about to save() them.            *)
Keeps(a, v) ==
  /\ doc' \in AccountDoc
  /\ remote' \in TraderStatus \cup {None}
  /\ customer' \in {"ACTIVE", "BLOCKED"}
  /\ {stale', done', clash'} \subseteq BOOLEAN
  /\ glitches' \in 0..MaxFaults
  /\ v.at \in Saving =>
       v.copy = doc' \/ (doc' = doc /\ call[a].at \in Saving /\ v.copy = call[a].copy)

(* Types and copies of a step of one agent; the rest is to be shown.     *)
LEMMA InvStep ==
  ASSUME AccessInv, Noticed, NEW a \in Agents, NEW v, Acts(a, v), Keeps(a, v),
         Calm' => Sound'
  PROVE  AccessInv'
<1>1. AccessTypeOK /\ Copied
  BY DEF AccessInv
<1>2. call' \in [Agents -> AccessCall]
  BY <1>1, Typed DEF Acts
<1>3. behind' \subseteq Agents
  BY DEF Noticed
<1>4. AccessTypeOK'
  BY <1>1, <1>2, <1>3 DEF AccessTypeOK, Keeps, Acts
<1>5. Copied'
  <2> SUFFICES ASSUME NEW b \in Agents, call'[b].at \in Saving, b \notin behind'
               PROVE  doc' = call'[b].copy
    BY DEF Copied, Copy
  <2>1. b \notin behind /\ (doc' = doc \/ call'[b] # call[b])
    BY DEF Noticed
  <2>2. CASE b = a
    <3>1. call'[b] = v
      BY <1>1, <2>2, ActsAt
    <3> QED
      BY <1>1, <2>1, <2>2, <3>1 DEF Keeps, Copied, Copy
  <2>3. CASE b # a
    <3>1. call'[b] = call[b]
      BY <1>1, <2>3, ActsAt
    <3> QED
      BY <1>1, <2>1, <3>1 DEF Copied, Copy
  <2> QED
    BY <2>2, <2>3
<1> QED
  BY <1>4, <1>5 DEF AccessInv

(* What calls rely on, with the account no more enabled than before.     *)
LEMMA CallsStep ==
  ASSUME AccessTypeOK, CallsSound, NEW a \in Agents, NEW v, Acts(a, v), customer' = customer,
         remote = "CLOSED" => remote' = "CLOSED", doc'.enabled => doc.enabled,
         doc'.status = None => doc.status = None,
         doc'.record = None => doc.record = None \/ doc.status = None,
         CallSound(a, v, kind, doc', remote', customer)
  PROVE  CallsSound'
<1> SUFFICES ASSUME NEW b \in Agents
             PROVE  CallSound(b, call'[b], kind, doc', remote', customer)
  BY DEF CallsSound, Acts
<1>1. CASE b = a
  BY <1>1, ActsAt
<1>2. CASE b # a
  <2>1. call'[b] = call[b] /\ CallSound(b, call[b], kind, doc, remote, customer)
    BY <1>2, ActsAt DEF CallsSound
  <2> QED
    BY <2>1 DEF CallSound
<1> QED
  BY <1>1, <1>2

(* Nobody enters an activation or a customer change beside another.        *)
LEMMA OneStep ==
  ASSUME AccessTypeOK, OneOfEach, NEW a \in Agents, NEW v, Acts(a, v),
         v.at \in BlockSteps \cup LiftSteps =>
           \/ call[a].at \in BlockSteps \cup LiftSteps
           \/ \A b \in Agents : call[b].at \notin BlockSteps \cup LiftSteps,
         v.at \in StartSteps /\ kind # "MASTER" =>
           \/ call[a].at \in StartSteps
           \/ \A b \in Agents : call[b].at \notin StartSteps
  PROVE  OneOfEach'
<1> DEFINE Ch == BlockSteps \cup LiftSteps
<1>1. ASSUME NEW b \in Agents, NEW c \in Agents, call'[b].at \in Ch, call'[c].at \in Ch
      PROVE  b = c
  BY <1>1, ActsAt DEF OneOfEach
<1>2. ASSUME kind # "MASTER", NEW b \in Agents, NEW c \in Agents,
             call'[b].at \in StartSteps, call'[c].at \in StartSteps
      PROVE  b = c
  BY <1>2, ActsAt DEF OneOfEach
<1> QED
  BY <1>1, <1>2 DEF OneOfEach, Acts

(* Claims are held by a call, and only tradable accounts are enabled.    *)
LEMMA DocStep ==
  ASSUME AccessTypeOK, DocSound, NEW a \in Agents, NEW v, Acts(a, v), doc' \in AccountDoc,
         doc'.enabled => doc.enabled /\ doc'.status \in Tradable,
         doc'.op # None =>
           \/ doc'.op = doc.op /\ (doc.op = a => v.at \in ClaimSteps)
           \/ doc'.op = a /\ v.at \in ClaimSteps /\ kind = "MASTER" /\ ~doc'.enabled
  PROVE  DocSound'
<1>1. doc'.op # None => doc'.op \in Agents
  BY Distinct DEF AccountDoc
<1>2. doc'.enabled => doc'.status \in Tradable
  OBVIOUS
<1>3. ASSUME doc'.op # None
      PROVE  kind' = "MASTER" /\ ~doc'.enabled /\ call'[doc'.op].at \in ClaimSteps
  <2>1. PICK b \in Agents : b = doc'.op
    BY <1>1, <1>3
  <2>2. kind = "MASTER" /\ ~doc'.enabled
    BY <1>3 DEF DocSound
  <2>3. call'[a] = v /\ (b # a => call'[b] = call[b])
    BY ActsAt
  <2>4. call'[b].at \in ClaimSteps
    <3>1. CASE b = a
      BY <1>3, <2>1, <2>3, <3>1
    <3>2. CASE b # a
      BY <1>3, <2>1, <2>3, <3>2 DEF DocSound
    <3> QED
      BY <3>1, <3>2
  <2> QED
    BY <2>1, <2>2, <2>4 DEF Acts
<1> QED
  BY <1>2, <1>3 DEF DocSound

(* The denial stays; who stands before the last update stays barred.     *)
LEMMA DenialStep ==
  ASSUME AccessTypeOK, DenialSound, NEW a \in Agents, NEW v, Acts(a, v), customer' = customer,
         ~Is(a, "deny"), v.at = "enable" => customer = "ACTIVE",
         doc'.enabled => doc.enabled, doc.denied => doc'.denied,
         doc'.status = Target => doc.status = Target, doc'.op \in {doc.op, None, a}
  PROVE  DenialSound'
<1> SUFFICES ASSUME customer = "BLOCKED", ~Denying'
             PROVE  ~doc'.enabled /\ \A b \in Agents : call'[b].at = "enable" => Barred(doc, b)'
  BY DEF DenialSound, Is
<1>1. ~Denying
  BY ActsAt DEF Denying, Is
<1>2. ~doc.enabled /\ \A b \in Agents : Is(b, "enable") => Barred(doc, b)
  BY <1>1 DEF DenialSound
<1>3. ASSUME NEW b \in Agents, call'[b].at = "enable" PROVE Barred(doc, b)'
  <2>1. b # a /\ call'[b] = call[b]
    BY <1>3, ActsAt
  <2>2. Barred(doc, b)
    BY <1>2, <1>3, <2>1 DEF Is
  <2>3. b # None
    BY Distinct
  <2>4. Target' = Target
    BY DEF Target, Acts
  <2> QED
    BY <2>1, <2>2, <2>3, <2>4 DEF Barred, Acts
<1> QED
  BY <1>2, <1>3

(* The review stays approvable, or a claim lost before its commit stays.   *)
Reviews(a, v) ==
  kind = "MASTER" =>
    /\ doc'.challenge = doc.challenge \/ doc'.status = "CLOSED"
    /\ doc.status = "CLOSED" => doc'.status = "CLOSED"
    /\ doc'.status = "FUNDED_REVIEW" => doc.status = "FUNDED_REVIEW"
    /\ \/ doc'.status \in {doc.status, "CLOSED"}
       \/ doc'.record # None /\ doc'.status # "EXPIRED"
    /\ doc'.record = None => doc.record = None
    /\ doc'.op \in {doc.op, None}
    /\ call[a].at \in Unstaged => v.at \in Unstaged

LEMMA ReviewStep ==
  ASSUME AccessTypeOK, ReviewSound, NEW a \in Agents, NEW v, Acts(a, v), Reviews(a, v)
  PROVE  ReviewSound'
<1> SUFFICES ASSUME kind = "MASTER" PROVE ReviewSound'
  BY DEF ReviewSound, Acts
<1>1. \A b \in Agents : b # None /\ (call[b].at \in Unstaged => call'[b].at \in Unstaged)
  BY ActsAt, Distinct DEF Reviews
<1>2. ASSUME NEW b \in Agents, Lost(b) PROVE Lost(b)'
  BY <1>1, <1>2 DEF Lost, Reviews
<1>3. doc.op # None => doc.op \in Agents
  BY Typed, Distinct DEF AccountDoc
<1>4. \/ doc'.challenge = "COMPLETED" \/ doc'.status = "CLOSED"
      \/ \E b \in Agents : Lost(b)'
  BY <1>2 DEF ReviewSound, Reviews
<1>5. /\ doc'.status # "EXPIRED"
      /\ doc'.status \notin {"FUNDED_REVIEW", "CLOSED"} => doc'.record # None
  BY DEF ReviewSound, Reviews
<1>6. doc'.status = "FUNDED_REVIEW" /\ doc'.op # None => call'[doc'.op].at \in Unstaged
  BY <1>1, <1>3 DEF ReviewSound, Reviews
<1> QED
  BY <1>4, <1>5, <1>6 DEF ReviewSound, Acts

(* Who minds Trader's account goes on doing so until it is shut.           *)
Minding(a, v) ==
  /\ remote' = "ACTIVE" => remote = "ACTIVE" \/ Minds(v)
  /\ Minds(call[a]) /\ remote' = "ACTIVE" => Minds(v)

LEMMA MindedStep ==
  ASSUME AccessTypeOK, NEW a \in Agents, NEW v, Acts(a, v), Minding(a, v),
         remote' = "ACTIVE", Minded \/ Minds(v)
  PROVE  Minded'
BY ActsAt DEF Minded, Minding

(* Who was going to leave Trader shut finds it shut or minded.           *)
LEMMA LeavingStep ==
  ASSUME AccessTypeOK, LeavingSound, Noticed, NEW a \in Agents, NEW v, Acts(a, v),
         Minding(a, v), v.at \in {"settle", "locked"} => remote' # "ACTIVE"
  PROVE  LeavingSound'
<1> SUFFICES ASSUME NEW b \in Agents, Leaving(b)', remote' = "ACTIVE"
             PROVE  Minded'
  BY DEF LeavingSound
<1>1. b # a
  BY ActsAt DEF Leaving, Is
<1>2. call'[b] = call[b]
  BY <1>1, ActsAt
<1>3. Leaving(b)
  BY <1>2 DEF Leaving, Is, Noticed, Saving
<1> QED
  BY <1>3, MindedStep DEF LeavingSound, Minding

LEMMA RemoteStep ==
  ASSUME AccessTypeOK, RemoteSound, NEW a \in Agents, NEW v, Acts(a, v), Minding(a, v),
         Accounted /\ remote' = "ACTIVE" => Minds(v) \/ Accounted'
  PROVE  RemoteSound'
<1> SUFFICES ASSUME remote' = "ACTIVE" PROVE Minded' \/ Accounted'
  BY DEF RemoteSound
<1> QED
  BY MindedStep DEF RemoteSound, Minding

-----------------------------------------------------------------------------
(* Steps that read the document or talk to Trader.                         *)

(* What such a step of the agent a, that now stands at v, has to respect.  *)
Respects(a, v) ==
  /\ CallSound(a, v, kind, doc, remote', customer)
  /\ Minding(a, v)
  /\ remote = "CLOSED" => remote' = "CLOSED"
  /\ v.at \in BlockSteps \cup LiftSteps => call[a].at \in BlockSteps \cup LiftSteps
  /\ v.at \in StartSteps /\ kind # "MASTER" =>
       call[a].at \in StartSteps \/ \A b \in Agents : call[b].at \notin StartSteps
  /\ doc.op = a => v.at \in ClaimSteps
  /\ ~Is(a, "deny")
  /\ v.at = "enable" => customer = "ACTIVE"
  /\ v.at \in {"settle", "locked"} => remote' # "ACTIVE"
  /\ Is(a, "find") /\ Refused(doc) => Minds(v)
  /\ call[a].at \notin Unstaged

(* Such a step, while all is calm.                                       *)
LEMMA ReadStep ==
  ASSUME AccessInv, Calm, Noticed, NEW a \in Agents, NEW v, Acts(a, v),
         doc' = doc, customer' = customer, Respects(a, v)
  PROVE  Sound'
<1>1. AccessTypeOK /\ Sound
  BY DEF AccessInv
<1>2. doc \in AccountDoc
  BY <1>1, Typed
<1>3. Minding(a, v)
  BY DEF Respects
<1>4. RemoteSound'
  <2>1. Accounted => Minds(v) \/ Accounted'
    <3>1. CASE Trading(doc)
      BY <3>1 DEF Accounted
    <3>2. ASSUME NEW b \in Agents, Is(b, "find"), Refused(doc)
          PROVE  Minds(v) \/ Accounted'
      <4>1. CASE b = a
        BY <3>2, <4>1 DEF Respects
      <4>2. CASE b # a
        BY <1>1, <3>2, <4>2, ActsAt DEF Accounted, Finding, Is
      <4> QED
        BY <4>1, <4>2
    <3> QED
      BY <3>1, <3>2 DEF Accounted, Finding
  <2> QED
    BY <1>1, <1>3, <2>1, RemoteStep DEF Sound
<1>5. LeavingSound'
  BY <1>1, <1>3, LeavingStep DEF Sound, Respects
<1>6. DocSound'
  BY <1>1, <1>2, DocStep DEF Sound, Respects, DocSound
<1>7. DenialSound'
  BY <1>1, DenialStep DEF Sound, Respects
<1>8. OneOfEach'
  BY <1>1, OneStep DEF Sound, Respects
<1>9. ReviewSound'
  BY <1>1, ReviewStep DEF Sound, Respects, Reviews
<1>10. CallsSound'
  BY <1>1, CallsStep DEF Sound, Respects
<1> QED
  BY <1>4, <1>5, <1>6, <1>7, <1>8, <1>9, <1>10 DEF Sound

(* What the calm of the next state says of this one.                       *)
LEMMA CalmBefore ==
  ASSUME AccessTypeOK, Calm', clash => clash', glitches' >= glitches
  PROVE  Calm
BY DEF Calm, AccessTypeOK

(* Such a step, with types and copies.                                   *)
LEMMA ReadInv ==
  ASSUME AccessInv, Noticed, NEW a \in Agents, NEW v, Acts(a, v),
         UNCHANGED <<doc, customer, done, glitches>>,
         remote' \in TraderStatus \cup {None}, {stale', clash'} \subseteq BOOLEAN,
         clash => clash',
         v.at \in Saving => v.copy = doc \/ (call[a].at \in Saving /\ v.copy = call[a].copy),
         Calm /\ ~clash' => Respects(a, v)
  PROVE  AccessInv'
<1>1. AccessTypeOK
  BY DEF AccessInv
<1>2. Keeps(a, v)
  BY <1>1, Typed DEF Keeps, AccessTypeOK
<1>3. ASSUME Calm' PROVE Sound'
  <2>1. Calm /\ ~clash'
    BY <1>1, <1>3, CalmBefore DEF Calm, AccessTypeOK
  <2> QED
    BY <2>1, ReadStep
<1> QED
  BY <1>2, <1>3, InvStep

(* A fault, after which the properties promise nothing.                    *)
LEMMA FaultInv ==
  ASSUME AccessInv, Noticed, NEW a \in Agents, NEW v, Acts(a, v), v.at \notin Saving, Glitch,
         UNCHANGED <<doc, customer, stale, done, clash>>, remote' \in TraderStatus \cup {None}
  PROVE  AccessInv'
<1>1. AccessTypeOK
  BY DEF AccessInv
<1>2. glitches' \in 0..MaxFaults /\ glitches' # 0
  BY <1>1, AccessAssumption DEF Glitch, AccessTypeOK
<1>3. Keeps(a, v)
  BY <1>1, <1>2, Typed DEF Keeps, AccessTypeOK
<1>4. ~Calm'
  BY <1>2 DEF Calm
<1> QED
  BY <1>3, <1>4, InvStep

(* What holds of the agent a while all is calm.                            *)
LEMMA CallFacts ==
  ASSUME AccessInv, Calm, NEW a \in Agents
  PROVE  /\ CallSound(a, call[a], kind, doc, remote, customer)
         /\ doc.enabled => doc.status \in Tradable
         /\ doc.op # None =>
              kind = "MASTER" /\ ~doc.enabled /\ call[doc.op].at \in ClaimSteps
         /\ Leaving(a) => (remote = "ACTIVE" => Minded)
         /\ ReviewSound
BY DEF AccessInv, Sound, CallsSound, DocSound, LeavingSound

(* An activation begins: no other is under way.                          *)
LEMMA StartAccountStep ==
  ASSUME AccessInv, Noticed, NEW c \in Calls, StartAccount(c)
  PROVE  AccessInv'
<1>1. AccessTypeOK /\ c \in Agents
  BY Distinct DEF AccessInv
<1>2. PICK v : /\ Acts(c, v) /\ v.copy = doc
               /\ v.at \in {"create", "provision", "commit"}
               /\ v.at # "create" => doc.status # None
               /\ v.at = "commit" => doc.record # None
  BY <1>1, Loads DEF StartAccount, local, AccessSteps
<1>3. ASSUME Calm, ~clash' PROVE Respects(c, v)
  <2>1. CallSound(c, v, kind, doc, remote', customer)
    BY <1>2 DEF CallSound, StartAccount, BlockSteps, LiftSteps, UnlockSteps
  <2>2. doc.op # c
    BY <1>1, <1>3, CallFacts, Distinct DEF StartAccount, Is, ClaimSteps
  <2>3. v.at # "create" => \A b \in Agents : call[b].at \notin StartSteps
    BY <1>2, <1>3 DEF StartAccount, Starting
  <2> QED
    BY <1>2, <2>1, <2>2, <2>3
       DEF Respects, StartAccount, Is, Minding, Minds, BlockSteps, LiftSteps
<1> QED
  BY <1>1, <1>2, <1>3, ReadInv DEF StartAccount, local, Saving, AccessTypeOK

LEMMA ApproveFundedStep ==
  ASSUME AccessInv, Noticed, NEW c \in Calls, ApproveFunded(c)
  PROVE  AccessInv'
<1>1. AccessTypeOK /\ c \in Agents
  BY Distinct DEF AccessInv
<1>2. PICK v : Acts(c, v) /\ v.at = "claim"
  BY <1>1, Stepped DEF ApproveFunded, local, AccessSteps
<1>3. ASSUME Calm PROVE Respects(c, v)
  <2>1. doc.op # c
    BY <1>1, <1>3, CallFacts, Distinct DEF ApproveFunded, Is, ClaimSteps
  <2> QED
    BY <1>2, <2>1
       DEF Respects, ApproveFunded, Is, Minding, Minds, BlockSteps, LiftSteps, UnlockSteps,
           CallSound
<1> QED
  BY <1>1, <1>2, <1>3, ReadInv DEF ApproveFunded, local, Saving, AccessTypeOK

(* assertCustomerTradingAccessAllowed keeps an activation on its way, or   *)
(* has it undone.                                                          *)
LEMMA AssertAccessStep ==
  ASSUME AccessInv, Noticed, NEW c \in Calls, AssertAccess(c)
  PROVE  AccessInv'
<1>1. AccessTypeOK /\ c \in Agents
  BY Distinct DEF AccessInv
<1>2. PICK v : /\ v = IF Copy(c).denied \/ customer = "BLOCKED"
                      THEN [NoAccess EXCEPT !.at = "undo", !.blocked = TRUE]
                      ELSE IF Is(c, "assert") THEN [call[c] EXCEPT !.at = "activate"]
                      ELSE [NoAccess EXCEPT !.at = "enable"]
               /\ call' = [call EXCEPT ![c] = v]
  BY DEF AssertAccess
<1>3. v \in AccessCall /\ v.at \in {"undo", "activate", "enable"}
  BY <1>1, <1>2, NoAccountTyped, Typed DEF NoAccess, AccessCall, AccessSteps
<1>4. v.at = "enable" => customer = "ACTIVE"
  BY <1>1, <1>2, Typed DEF NoAccess, AccessCall, AccessTypeOK
<1>5. Acts(c, v)
  BY <1>2, <1>3 DEF Acts, AssertAccess, local
<1>6. ASSUME Calm PROVE Respects(c, v)
  <2>1. CallSound(c, v, kind, doc, remote', customer)
    BY <1>1, <1>3, <1>6, CallFacts
       DEF CallSound, AssertAccess, BlockSteps, LiftSteps, UnlockSteps
  <2> QED
    BY <1>3, <1>4, <2>1
       DEF Respects, AssertAccess, Is, Minding, Minds, BlockSteps, LiftSteps, StartSteps, ClaimSteps
<1> QED
  BY <1>1, <1>3, <1>5, <1>6, ReadInv DEF AssertAccess, local, Saving, AccessTypeOK

(* The activation at Trader is minded until the last update or the undo. *)
LEMMA ActivateStep ==
  ASSUME AccessInv, Noticed, NEW c \in Calls, ActivateTradingAccount(c)
  PROVE  AccessInv'
<1>1. AccessTypeOK /\ c \in Agents
  BY Distinct DEF AccessInv
<1>2. CASE Step(c, "undo") /\ UNCHANGED glitches /\ remote' = remote /\ remote = "CLOSED"
  <2>1. PICK v : Acts(c, v) /\ v.at = "undo"
    BY <1>1, <1>2, Stepped DEF ActivateTradingAccount, local, AccessSteps
  <2>2. ASSUME Calm PROVE Respects(c, v)
    <3>1. CallSound(c, v, kind, doc, remote', customer)
      BY <1>1, <2>1, <2>2, CallFacts
         DEF CallSound, ActivateTradingAccount, Is, BlockSteps, LiftSteps, UnlockSteps
    <3> QED
      BY <1>2, <2>1, <3>1
         DEF Respects, ActivateTradingAccount, Is, Minding, Minds, BlockSteps, LiftSteps,
             StartSteps, ClaimSteps
  <2> QED
    BY <1>1, <1>2, <2>1, <2>2, ReadInv
       DEF ActivateTradingAccount, local, Saving, AccessTypeOK
<1>3. CASE remote # "CLOSED" /\ remote' = "ACTIVE" /\ Step(c, "recheck") /\ UNCHANGED glitches
  <2>1. PICK v : Acts(c, v) /\ v.at = "recheck"
    BY <1>1, <1>3, Stepped DEF ActivateTradingAccount, local, AccessSteps
  <2>2. ASSUME Calm PROVE Respects(c, v)
    <3>1. CallSound(c, v, kind, doc, remote', customer)
      BY <1>1, <2>1, <2>2, CallFacts
         DEF CallSound, ActivateTradingAccount, Is, BlockSteps, LiftSteps, UnlockSteps
    <3> QED
      BY <1>3, <2>1, <3>1
         DEF Respects, ActivateTradingAccount, Is, Minding, Minds, BlockSteps, LiftSteps,
             StartSteps, ClaimSteps
  <2> QED
    BY <1>1, <1>3, <2>1, <2>2, ReadInv
       DEF ActivateTradingAccount, local, Saving, AccessTypeOK, TraderStatus
<1>4. CASE remote' \in {remote, "ACTIVE"} /\ Step(c, "undo") /\ Glitch
  <2>1. PICK v : Acts(c, v) /\ v.at = "undo"
    BY <1>1, <1>4, Stepped DEF ActivateTradingAccount, local, AccessSteps
  <2> QED
    BY <1>1, <1>4, <2>1, FaultInv
       DEF ActivateTradingAccount, local, Saving, AccessTypeOK, TraderStatus
<1> QED
  BY <1>2, <1>3, <1>4 DEF ActivateTradingAccount, Trader

(* stageTradingAccount pauses what may be active, also when its answer     *)
(* is lost.                                                                *)
LEMMA SwitchedTo ==
  ASSUME AccessTypeOK, NEW to \in TraderStatus
  PROVE  /\ Switched(to) \in TraderStatus \cup {None}
         /\ remote = "CLOSED" => Switched(to) = "CLOSED"
         /\ to # "ACTIVE" => Switched(to) # "ACTIVE"
BY Distinct DEF Switched, AccessTypeOK, TraderStatus

LEMMA StageStep ==
  ASSUME AccessInv, Noticed, NEW c \in Calls, StageTradingAccount(c)
  PROVE  AccessInv'
<1>1. AccessTypeOK /\ c \in Agents
  BY Distinct DEF AccessInv
<1> DEFINE next == IF kind = "MASTER" THEN "rollback" ELSE "settle"
<1>2. PICK v : Acts(c, v) /\ v.at = next
  BY <1>1, Stepped DEF StageTradingAccount, Trader, local, AccessSteps
<1>3. Switched("PAUSED") \in TraderStatus \cup {None}
  BY <1>1, SwitchedTo DEF TraderStatus
<1>4. CASE remote' = Switched("PAUSED") /\ UNCHANGED glitches
  <2>1. ASSUME Calm PROVE Respects(c, v)
    <3>1. remote' # "ACTIVE" /\ (remote = "CLOSED" => remote' = "CLOSED")
      BY <1>1, <1>4, SwitchedTo DEF TraderStatus
    <3>2. CallSound(c, v, kind, doc, remote', customer)
      BY <1>1, <1>2, <2>1, CallFacts
         DEF CallSound, StageTradingAccount, Is, BlockSteps, LiftSteps, UnlockSteps
    <3>3. doc.op = c => kind = "MASTER"
      BY <1>1, <2>1, CallFacts, Distinct
    <3> QED
      BY <1>2, <3>1, <3>2, <3>3
         DEF Respects, StageTradingAccount, Is, Minding, BlockSteps, LiftSteps, StartSteps,
             ClaimSteps
  <2> QED
    BY <1>1, <1>2, <1>3, <1>4, <2>1, ReadInv
       DEF StageTradingAccount, local, Saving, AccessTypeOK
<1>5. CASE remote' \in {remote, Switched("PAUSED")} /\ Glitch
  BY <1>1, <1>2, <1>3, <1>5, FaultInv DEF StageTradingAccount, local, Saving, AccessTypeOK
<1> QED
  BY <1>4, <1>5 DEF StageTradingAccount, Trader

(* The rollback of an approval takes the claim that is its own.          *)
LEMMA RollbackApprovalStep ==
  ASSUME AccessInv, Noticed, NEW c \in Calls, RollbackApproval(c)
  PROVE  AccessInv'
<1>1. AccessTypeOK /\ c \in Agents /\ c # None
  BY Distinct DEF AccessInv
<1>2. CASE doc.op = c /\ Load(c, "recovered")
  <2>1. PICK v : Acts(c, v) /\ v.at = "recovered" /\ v.copy = doc
    BY <1>1, <1>2, Loads DEF RollbackApproval, local, AccessSteps
  <2>2. ASSUME Calm PROVE Respects(c, v)
    <3>1. doc.status \in {"FUNDED_REVIEW", "CLOSED"} \/ doc.record # None
      BY <1>1, <1>2, <2>2, CallFacts DEF ReviewSound
    <3>2. CallSound(c, v, kind, doc, remote', customer)
      BY <1>1, <1>2, <2>1, <3>1 DEF CallSound, BlockSteps, LiftSteps, UnlockSteps
    <3> QED
      BY <2>1, <3>2
         DEF Respects, RollbackApproval, Is, Minding, Minds, BlockSteps, LiftSteps, StartSteps,
             ClaimSteps
  <2> QED
    BY <1>1, <2>1, <2>2, ReadInv DEF RollbackApproval, local, Saving, AccessTypeOK
<1>3. CASE doc.op # c /\ Done(c)
  <2>1. PICK v : Acts(c, v) /\ v.at \in {"idle", "returned"}
    BY <1>1, <1>3, Returns DEF RollbackApproval, local
  <2>2. ASSUME Calm PROVE Respects(c, v)
    BY <1>3, <2>1
       DEF Respects, RollbackApproval, Is, Minding, Minds, BlockSteps, LiftSteps, UnlockSteps,
           StartSteps, CallSound
  <2> QED
    BY <1>1, <2>1, <2>2, ReadInv DEF RollbackApproval, local, Saving, AccessTypeOK
<1> QED
  BY <1>2, <1>3 DEF RollbackApproval

-----------------------------------------------------------------------------
(* A call that only returns: nobody may have relied on it.                 *)
LEMMA ReturnInv ==
  ASSUME AccessInv, Noticed, NEW a \in Agents, Done(a),
         UNCHANGED <<kind, doc, customer, remote, done, stale, clash, glitches>>,
         call[a].at \notin ClaimSteps \ {"recovered"}, a \in Calls => ~Is(a, "recovered"),
         ~Is(a, "deny"), Is(a, "find") => ~Refused(doc),
         Calm /\ Minds(call[a]) => remote # "ACTIVE"
  PROVE  AccessInv'
<1>1. AccessTypeOK
  BY DEF AccessInv
<1>2. PICK v : Acts(a, v) /\ v.at \in {"idle", "returned"}
  BY <1>1, Returns
<1>3. ASSUME Calm PROVE Respects(a, v)
  <2>1. doc.op # a
    <3>1. doc.op \in Calls \cup {None}
      BY <1>1, Typed DEF AccountDoc
    <3> QED
      BY <1>3, <3>1, CallFacts, Distinct DEF Is, ClaimSteps
  <2> QED
    BY <1>2, <1>3, <2>1
       DEF Respects, Is, Minding, Minds, BlockSteps, LiftSteps, UnlockSteps, ClaimSteps, CallSound
<1> QED
  BY <1>1, <1>2, <1>3, ReadInv DEF Saving, AccessTypeOK

(* A call to Trader that goes on to s, and returns when it failed.         *)
LEMMA SwitchInv ==
  ASSUME AccessInv, Noticed, NEW a \in Agents, NEW s \in AccessSteps,
         NEW to \in TraderStatus \cup {None}, Trader(to, Step(a, s), Done(a)),
         UNCHANGED <<kind, doc, customer, stale, done, clash>>,
         s \in Saving => call[a].at \in Saving,
         ASSUME NEW v, Calm, remote' = to, v.at = s, v.copy = call[a].copy PROVE Respects(a, v)
  PROVE  AccessInv'
<1>1. AccessTypeOK
  BY DEF AccessInv
<1>2. CASE remote' = to /\ Step(a, s) /\ UNCHANGED glitches
  <2>1. PICK v : Acts(a, v) /\ v.at = s /\ v.copy = call[a].copy
    BY <1>1, <1>2, Stepped
  <2>2. ASSUME Calm PROVE Respects(a, v)
    BY <1>2, <2>1, <2>2
  <2> QED
    BY <1>1, <1>2, <2>1, <2>2, ReadInv DEF AccessTypeOK
<1>3. CASE remote' \in {remote, to} /\ Done(a) /\ Glitch
  <2>1. PICK v : Acts(a, v) /\ v.at \in {"idle", "returned"}
    BY <1>1, Returns, <1>3
  <2> QED
    BY <1>1, <1>3, <2>1, FaultInv DEF Saving, AccessTypeOK
<1> QED
  BY <1>2, <1>3 DEF Trader

(* The block goes on to what is active at Trader and denied.               *)
LEMMA FindDeniedStep ==
  ASSUME AccessInv, Noticed, NEW c \in Calls, FindDenied(c)
  PROVE  AccessInv'
<1>1. AccessTypeOK /\ c \in Agents
  BY Distinct DEF AccessInv
<1>2. CASE Load(c, "pause")
  <2>1. PICK v : Acts(c, v) /\ v.at = "pause" /\ v.copy = doc
    BY <1>1, <1>2, Loads DEF FindDenied, local, AccessSteps
  <2>2. ASSUME Calm PROVE Respects(c, v)
    <3>1. customer = "BLOCKED" /\ doc.op # c
      BY <1>1, <2>2, CallFacts, Distinct
         DEF FindDenied, Is, CallSound, BlockSteps, ClaimSteps
    <3> QED
      BY <2>1, <3>1
         DEF Respects, FindDenied, Is, Minding, Minds, BlockSteps, LiftSteps, UnlockSteps,
             StartSteps, CallSound
  <2> QED
    BY <1>1, <2>1, <2>2, ReadInv DEF FindDenied, local, Saving, AccessTypeOK
<1>3. CASE Done(c) /\ ~( /\ doc.status \notin Terminal
                         /\ doc.denied
                         /\ doc.record \notin {None, "PAUSED", "CLOSED"})
  <2>1. ~Refused(doc)
    BY <1>3, Distinct DEF Refused, Tradable, Terminal, TraderStatus
  <2> QED
    BY <1>1, <1>3, <2>1, ReturnInv DEF FindDenied, Is, local, ClaimSteps, Minds
<1> QED
  BY <1>2, <1>3 DEF FindDenied

(* The pause of a block leaves nothing active.                           *)
LEMMA PauseDeniedStep ==
  ASSUME AccessInv, Noticed, NEW c \in Calls, PauseDenied(c)
  PROVE  AccessInv'
<1>1. AccessTypeOK /\ c \in Agents
  BY Distinct DEF AccessInv
<1>2. PICK to : to = Switched("PAUSED")
  OBVIOUS
<1>3. /\ to \in TraderStatus \cup {None} /\ to # "ACTIVE" /\ "paused" \in AccessSteps
      /\ remote = "CLOSED" => to = "CLOSED"
  BY <1>1, <1>2, SwitchedTo DEF TraderStatus, AccessSteps
<1>4. ASSUME NEW v, Calm, remote' = to, v.at = "paused", v.copy = call[c].copy
      PROVE  Respects(c, v)
  <2>1. customer = "BLOCKED" /\ doc.op # c
    BY <1>1, <1>4, CallFacts, Distinct DEF PauseDenied, Is, CallSound, BlockSteps, ClaimSteps
  <2> QED
    BY <1>3, <1>4, <2>1
       DEF Respects, PauseDenied, Is, Minding, Minds, BlockSteps, LiftSteps, UnlockSteps,
           StartSteps, CallSound
<1>5. Trader(to, Step(c, "paused"), Done(c))
  BY <1>2 DEF PauseDenied, Trader
<1> QED
  BY <1>1, <1>3, <1>4, <1>5, SwitchInv DEF PauseDenied, local, Saving

(* A call that reads the document and goes on to s.                        *)
LEMMA LoadInv ==
  ASSUME AccessInv, Noticed, NEW a \in Agents, NEW s \in AccessSteps, Load(a, s),
         UNCHANGED <<kind, doc, customer, remote, done, stale, glitches>>,
         clash' \in BOOLEAN, clash => clash',
         ASSUME NEW v, Calm, ~clash', v.at = s, v.copy = doc PROVE Respects(a, v)
  PROVE  AccessInv'
<1>1. AccessTypeOK
  BY DEF AccessInv
<1>2. PICK v : Acts(a, v) /\ v.at = s /\ v.copy = doc
  BY <1>1, Loads
<1>3. ASSUME Calm, ~clash' PROVE Respects(a, v)
  BY <1>2, <1>3
<1> QED
  BY <1>1, <1>2, <1>3, ReadInv DEF AccessTypeOK

(* A reactivation reads what to release and what to resume.              *)
LEMMA LiftDenialStep ==
  ASSUME AccessInv, Noticed, NEW c \in Calls, LiftDenial(c)
  PROVE  AccessInv'
<1>1. AccessTypeOK /\ c \in Agents
  BY Distinct DEF AccessInv
<1>2. CASE Done(c)
  BY <1>1, <1>2, ReturnInv DEF LiftDenial, Is, local, ClaimSteps, Minds
<1>3. ASSUME NEW s \in {"cleared", "resume", "resumed"}, Load(c, s),
             s \in {"resume", "resumed"} => doc.status \in Tradable,
             s = "cleared" => doc.status \notin Tradable \/ doc.record = None
      PROVE  AccessInv'
  <2>1. ASSUME NEW v, Calm, ~clash', v.at = s, v.copy = doc PROVE Respects(c, v)
    <3>1. customer = "ACTIVE" /\ doc.op # c
      BY <1>1, <2>1, CallFacts, Distinct DEF LiftDenial, Is, CallSound, LiftSteps, ClaimSteps
    <3> QED
      BY <1>3, <2>1, <3>1
         DEF Respects, LiftDenial, Is, Minding, Minds, BlockSteps, LiftSteps, UnlockSteps,
             StartSteps, CallSound, local
  <2> QED
    BY <1>1, <1>3, <2>1, LoadInv DEF LiftDenial, local, AccessSteps, AccessTypeOK
<1> QED
  BY <1>2, <1>3 DEF LiftDenial

(* A reactivation or an UNLOCK has the account switched on at Trader, and  *)
(* minds it from there.                                                    *)
LEMMA ResumeAccountStep ==
  ASSUME AccessInv, Noticed, NEW c \in Calls, ResumeAccount(c)
  PROVE  AccessInv'
<1>1. AccessTypeOK /\ c \in Agents
  BY Distinct DEF AccessInv
<1>2. CASE Done(c) /\ UNCHANGED <<remote, glitches>>
  BY <1>1, <1>2, ReturnInv DEF ResumeAccount, Is, local, ClaimSteps, Minds
<1>3. PICK to : to = Switched("ACTIVE")
  OBVIOUS
<1>4. to \in TraderStatus \cup {None} /\ (remote = "CLOSED" => to = "CLOSED")
  BY <1>1, <1>3, SwitchedTo DEF TraderStatus, Switched
<1>5. PICK s \in {"resumed", "unlocked"} : s = IF Is(c, "resume") THEN "resumed" ELSE "unlocked"
  OBVIOUS
<1>6. ASSUME NEW v, Calm, remote' = to, v.at = s, v.copy = call[c].copy
      PROVE  Respects(c, v)
  <2>1. /\ CallSound(c, call[c], kind, doc, remote, customer)
        /\ doc.op # c
    BY <1>1, <1>6, CallFacts, Distinct DEF ResumeAccount, ClaimSteps
  <2>2. customer = "ACTIVE" /\ (s = "resumed" => call[c].copy.status \in Tradable)
    BY <2>1, <1>5 DEF ResumeAccount, Is, CallSound, LiftSteps, UnlockSteps
  <2> QED
    BY <1>4, <1>5, <1>6, <2>1, <2>2
       DEF Respects, ResumeAccount, Is, Minding, Minds, BlockSteps, LiftSteps, UnlockSteps,
           StartSteps, CallSound
<1>7. CASE Trader(to, Step(c, s), Done(c))
  BY <1>1, <1>4, <1>5, <1>6, <1>7, SwitchInv DEF ResumeAccount, local, Saving, AccessSteps
<1> QED
  BY <1>2, <1>3, <1>5, <1>7 DEF ResumeAccount, Trader

LEMMA LockAccountStep ==
  ASSUME AccessInv, Noticed, NEW c \in Calls, LockAccount(c)
  PROVE  AccessInv'
<1>1. AccessTypeOK /\ c \in Agents
  BY Distinct DEF AccessInv
<1>2. ASSUME NEW v, Calm, ~clash', v.at = "lock", v.copy = doc PROVE Respects(c, v)
  <2>1. doc.op # c /\ doc.status \notin {None, "CLOSED"}
    BY <1>1, <1>2, CallFacts, Distinct
       DEF LockAccount, Is, ClaimSteps, Tradable, AccountStatus
  <2> QED
    BY <1>2, <2>1
       DEF Respects, LockAccount, Is, Minding, Minds, BlockSteps, LiftSteps, UnlockSteps,
           StartSteps, CallSound
<1> QED
  BY <1>1, <1>2, LoadInv DEF LockAccount, local, AccessSteps, AccessTypeOK

(* LOCK has paused the account when it is about to save.                 *)
LEMMA PauseLockedStep ==
  ASSUME AccessInv, Noticed, NEW c \in Calls, PauseLocked(c)
  PROVE  AccessInv'
<1>1. AccessTypeOK /\ c \in Agents
  BY Distinct DEF AccessInv
<1>2. CASE Done(c) /\ UNCHANGED <<remote, glitches>>
  BY <1>1, <1>2, ReturnInv DEF PauseLocked, Is, local, ClaimSteps, Minds
<1>3. PICK to : to = Switched("PAUSED")
  OBVIOUS
<1>4. /\ to \in TraderStatus \cup {None} /\ to # "ACTIVE" /\ "locked" \in AccessSteps
      /\ remote = "CLOSED" => to = "CLOSED"
  BY <1>1, <1>3, SwitchedTo DEF TraderStatus, AccessSteps
<1>5. ASSUME NEW v, Calm, remote' = to, v.at = "locked", v.copy = call[c].copy
      PROVE  Respects(c, v)
  <2>1. doc.op # c /\ call[c].copy.status \notin {None, "CLOSED"}
    BY <1>1, <1>5, CallFacts, Distinct DEF PauseLocked, Is, ClaimSteps, CallSound
  <2> QED
    BY <1>4, <1>5, <2>1
       DEF Respects, PauseLocked, Is, Minding, Minds, BlockSteps, LiftSteps, UnlockSteps,
           StartSteps, CallSound
<1>6. CASE Trader(to, Step(c, "locked"), Done(c))
  BY <1>1, <1>4, <1>5, <1>6, SwitchInv DEF PauseLocked, Is, local, Saving
<1> QED
  BY <1>2, <1>3, <1>6 DEF PauseLocked, Trader

LEMMA UnlockAccountStep ==
  ASSUME AccessInv, Noticed, NEW c \in Calls, UnlockAccount(c)
  PROVE  AccessInv'
<1>1. AccessTypeOK /\ c \in Agents
  BY Distinct DEF AccessInv
<1>2. ASSUME NEW v, Calm, ~clash', v.at = "unlock", v.copy = doc PROVE Respects(c, v)
  <2>1. doc.op # c /\ customer = "ACTIVE" /\ doc.status \notin {None, "CLOSED"}
    BY <1>1, <1>2, CallFacts, Distinct
       DEF UnlockAccount, Is, ClaimSteps, AccessTypeOK, AccountStatus
  <2> QED
    BY <1>2, <2>1
       DEF Respects, UnlockAccount, Is, Minding, Minds, BlockSteps, LiftSteps, UnlockSteps,
           StartSteps, CallSound
<1> QED
  BY <1>1, <1>2, LoadInv DEF UnlockAccount, local, AccessSteps, AccessTypeOK

LEMMA CloseAccountStep ==
  ASSUME AccessInv, Noticed, NEW c \in Calls, CloseAccount(c)
  PROVE  AccessInv'
<1>1. AccessTypeOK /\ c \in Agents
  BY Distinct DEF AccessInv
<1>2. PICK s \in {"closed", "close"} :
        s = IF doc.record = None /\ doc.challenge = None THEN "closed" ELSE "close"
  OBVIOUS
<1>3. ASSUME NEW v, Calm, ~clash', v.at = s, v.copy = doc PROVE Respects(c, v)
  <2>1. doc.op # c
    BY <1>1, <1>3, CallFacts, Distinct DEF CloseAccount, Is, ClaimSteps
  <2> QED
    BY <1>2, <1>3, <2>1
       DEF Respects, CloseAccount, Is, Minding, Minds, BlockSteps, LiftSteps, UnlockSteps,
           StartSteps, CallSound
<1> QED
  BY <1>1, <1>2, <1>3, LoadInv DEF CloseAccount, local, AccessSteps, AccessTypeOK

(* CLOSE saves when the account is closed at Trader, or has none.        *)
LEMMA CloseAtTraderStep ==
  ASSUME AccessInv, Noticed, NEW c \in Calls, CloseAtTrader(c)
  PROVE  AccessInv'
<1>1. AccessTypeOK /\ c \in Agents
  BY Distinct DEF AccessInv
<1>2. PICK to : to = IF Copy(c).record = None THEN remote ELSE "CLOSED"
  OBVIOUS
<1>3. /\ to \in TraderStatus \cup {None} /\ (remote = "CLOSED" => to = "CLOSED")
      /\ to = remote \/ to = "CLOSED"
      /\ to = "CLOSED" \/ call[c].copy.record = None
  BY <1>1, <1>2 DEF AccessTypeOK, TraderStatus, Copy
<1>4. ASSUME NEW v, Calm, remote' = to, v.at = "closed", v.copy = call[c].copy
      PROVE  Respects(c, v)
  <2>1. doc.op # c /\ call[c].copy.status # None
    BY <1>1, <1>4, CallFacts, Distinct DEF CloseAtTrader, Is, ClaimSteps, CallSound
  <2> QED
    BY <1>3, <1>4, <2>1
       DEF Respects, CloseAtTrader, Is, Minding, Minds, BlockSteps, LiftSteps, UnlockSteps,
           StartSteps, CallSound
<1>5. Trader(to, Step(c, "closed"), Done(c))
  BY <1>2 DEF CloseAtTrader, Trader
<1>6. "closed" \in AccessSteps
  BY DEF AccessSteps
<1> QED
  BY <1>1, <1>3, <1>4, <1>5, <1>6, SwitchInv DEF CloseAtTrader, Is, local, Saving

(* The reconciliation worker takes over what is open at Trader, and a      *)
(* stale approval.                                                         *)
LEMMA FindOrphanStep ==
  ASSUME AccessInv, Noticed, FindOrphan
  PROVE  AccessInv'
<1>1. AccessTypeOK /\ Reconciler \in Agents
  BY Distinct DEF AccessInv
<1>2. ASSUME NEW v, Calm, ~clash', v.at = "reap", v.copy = doc PROVE Respects(Reconciler, v)
  <2>1. doc.op # Reconciler
    BY <1>1, <1>2, CallFacts, Distinct DEF FindOrphan, Is, ClaimSteps
  <2> QED
    BY <1>2, <2>1
       DEF Respects, FindOrphan, Is, Minding, Minds, BlockSteps, LiftSteps, UnlockSteps,
           StartSteps, CallSound
<1> QED
  BY <1>1, <1>2, LoadInv DEF FindOrphan, local, AccessSteps, AccessTypeOK

(* Who ended a demo saves when the account is closed at Trader.          *)
LEMMA ReapAtTraderStep ==
  ASSUME AccessInv, Noticed, NEW a \in Agents, ReapAtTrader(a)
  PROVE  AccessInv'
<1>1. AccessTypeOK
  BY DEF AccessInv
<1>2. CASE Done(a) /\ UNCHANGED <<remote, glitches>> /\ Copy(a).record \notin Open
  BY <1>1, <1>2, ReturnInv DEF ReapAtTrader, Is, local, ClaimSteps, Minds, Copy
<1>3. ASSUME NEW v, Calm, remote' = "CLOSED", v.at = "reaped", v.copy = call[a].copy
      PROVE  Respects(a, v)
  <2>1. doc.op # a
    <3>1. doc.op \in Calls \cup {None}
      BY <1>1, Typed DEF AccountDoc
    <3> QED
      BY <1>1, <1>3, <3>1, CallFacts, Distinct DEF ReapAtTrader, Is, ClaimSteps
  <2> QED
    BY <1>3, <2>1
       DEF Respects, ReapAtTrader, Is, Minding, Minds, BlockSteps, LiftSteps, UnlockSteps,
           StartSteps, CallSound
<1>4. /\ "reaped" \in AccessSteps /\ "reaped" \notin Saving /\ "CLOSED" \in TraderStatus
      /\ UNCHANGED <<kind, doc, customer, stale, done, clash>>
  BY DEF ReapAtTrader, local, Saving, TraderStatus, AccessSteps
<1>5. CASE Trader("CLOSED", Step(a, "reaped"), Done(a))
  BY <1>3, <1>4, <1>5, SwitchInv
<1> QED
  BY <1>2, <1>5 DEF ReapAtTrader

LEMMA FindStaleApprovalStep ==
  ASSUME AccessInv, Noticed, FindStaleApproval
  PROVE  AccessInv'
<1>1. AccessTypeOK /\ Reconciler \in Agents
  BY Distinct DEF AccessInv
<1>2. ASSUME NEW v, Calm, ~clash', v.at = "stage", v.copy = doc PROVE Respects(Reconciler, v)
  <2>1. doc.op # Reconciler
    BY <1>1, <1>2, CallFacts, Distinct DEF FindStaleApproval, Is, ClaimSteps
  <2> QED
    BY <1>2, <2>1
       DEF Respects, FindStaleApproval, Is, Minding, Minds, BlockSteps, LiftSteps, UnlockSteps,
           StartSteps, CallSound
<1> QED
  BY <1>1, <1>2, LoadInv DEF FindStaleApproval, local, AccessSteps, AccessTypeOK

(* The recovery of a stale approval stages the account first.            *)
LEMMA StageStaleStep ==
  ASSUME AccessInv, Noticed, StageStale
  PROVE  AccessInv'
<1>1. AccessTypeOK /\ Reconciler \in Agents
  BY Distinct DEF AccessInv
<1>2. PICK v : Acts(Reconciler, v) /\ v.at = "recover" /\ v.copy = call[Reconciler].copy
  BY <1>1, Stepped DEF StageStale, Trader, local, AccessSteps
<1>3. PICK to : to = Switched("PAUSED")
  OBVIOUS
<1>4. /\ to \in TraderStatus \cup {None} /\ to # "ACTIVE" /\ (remote = "CLOSED" => to = "CLOSED")
  BY <1>1, <1>3, SwitchedTo DEF TraderStatus
<1>5. CASE remote' \in {remote, to} /\ UNCHANGED glitches
  <2>1. ASSUME Calm PROVE Respects(Reconciler, v)
    <3>1. doc.op # Reconciler /\ call[Reconciler].copy.op # None
      BY <1>1, <2>1, CallFacts, Distinct DEF StageStale, Is, CallSound, ClaimSteps
    <3> QED
      BY <1>2, <1>4, <1>5, <3>1
         DEF Respects, StageStale, Is, Minding, Minds, BlockSteps, LiftSteps, UnlockSteps,
             StartSteps, CallSound
  <2> QED
    BY <1>1, <1>2, <1>4, <1>5, <2>1, ReadInv DEF StageStale, local, Saving, AccessTypeOK
<1>6. CASE remote' \in {remote, to} /\ Glitch
  BY <1>1, <1>2, <1>4, <1>6, FaultInv DEF StageStale, local, Saving, AccessTypeOK
<1> QED
  BY <1>3, <1>5, <1>6 DEF StageStale, Trader

LEMMA RecoverStaleStep ==
  ASSUME AccessInv, Noticed, RecoverStale
  PROVE  AccessInv'
<1>1. AccessTypeOK /\ Reconciler \in Agents
  BY Distinct DEF AccessInv
<1>2. CASE Done(Reconciler)
  BY <1>1, <1>2, ReturnInv, Distinct DEF RecoverStale, Is, local, ClaimSteps, Minds
<1>3. CASE Load(Reconciler, "recovered") /\ doc.op = call[Reconciler].copy.op
  <2>1. ASSUME NEW v, Calm, ~clash', v.at = "recovered", v.copy = doc
        PROVE  Respects(Reconciler, v)
    <3>1. doc.op # Reconciler /\ doc.op # None
      BY <1>1, <1>3, <2>1, CallFacts, Distinct DEF RecoverStale, Is, CallSound, ClaimSteps
    <3>2. doc.status \in {"FUNDED_REVIEW", "CLOSED"} \/ doc.record # None
      BY <1>1, <2>1, <3>1, CallFacts DEF ReviewSound
    <3> QED
      BY <2>1, <3>1, <3>2
         DEF Respects, RecoverStale, Is, Minding, Minds, BlockSteps, LiftSteps, UnlockSteps,
             StartSteps, CallSound
  <2> QED
    BY <1>1, <1>3, <2>1, LoadInv DEF RecoverStale, local, AccessSteps, AccessTypeOK
<1> QED
  BY <1>2, <1>3 DEF RecoverStale, Copy

(* After a crash nothing is promised but the types.                      *)
LEMMA AgentCrashesStep ==
  ASSUME AccessInv, Noticed, NEW a \in Agents, AgentCrashes(a)
  PROVE  AccessInv'
<1>1. AccessTypeOK
  BY DEF AccessInv
<1>2. PICK v : Acts(a, v) /\ v.at \in {"idle", "returned"}
  BY <1>1, Returns DEF AgentCrashes, local
<1> QED
  BY <1>1, <1>2, FaultInv DEF AgentCrashes, local, Saving, AccessTypeOK

LEMMA ApprovalStaleStep ==
  ASSUME AccessInv, Noticed, ApprovalStale
  PROVE  AccessInv'
<1>1. AccessTypeOK /\ Reconciler \in Agents
  BY Distinct DEF AccessInv
<1>2. PICK v : v = call[Reconciler]
  OBVIOUS
<1>3. Acts(Reconciler, v)
  BY <1>1, <1>2, Typed DEF Acts, ApprovalStale
<1>4. doc' = doc /\ remote' = remote /\ customer' = customer /\ call' = call /\ kind' = kind
       /\ clash' = clash /\ glitches' = glitches /\ done' = done /\ stale' = TRUE
  BY DEF ApprovalStale
<1>5. Keeps(Reconciler, v)
  BY <1>1, <1>2, <1>4 DEF Keeps, AccessTypeOK
<1>6. ASSUME Calm' PROVE Sound'
  <2>1. Sound
    BY <1>4, <1>6 DEF AccessInv, Calm
  <2>2. ASSUME NEW a \in Agents, Leaving(a)' PROVE Leaving(a)
    BY <1>4, <2>2 DEF Leaving, Is, Noticed, Saving
  <2>3. LeavingSound' /\ RemoteSound'
    BY <1>4, <2>1, <2>2
       DEF Sound, LeavingSound, RemoteSound, Minded, Accounted, Finding, Is
  <2>4. DocSound' /\ OneOfEach' /\ CallsSound'
    BY <1>4, <2>1 DEF Sound, DocSound, OneOfEach, CallsSound
  <2>5. DenialSound' /\ ReviewSound'
    BY <1>4, <2>1 DEF Sound, DenialSound, Denying, Is, Barred, Target, ReviewSound, Lost
  <2> QED
    BY <2>3, <2>4, <2>5 DEF Sound
<1> QED
  BY <1>1, <1>3, <1>5, <1>6, InvStep

-----------------------------------------------------------------------------
(* Steps that write the document.                                          *)

(* What a step of the agent a that leaves the account no more enabled than *)
(* it was has to respect.                                                  *)
Shuts(a, v) ==
  /\ customer' = customer
  /\ doc'.enabled => doc.enabled /\ doc'.status \in Tradable
  /\ doc'.op # None =>
       \/ doc'.op = doc.op /\ (doc.op = a => v.at \in ClaimSteps)
       \/ doc'.op = a /\ v.at \in ClaimSteps /\ kind = "MASTER" /\ ~doc'.enabled
  /\ doc'.status = None => doc.status = None
  /\ doc'.record = None => doc.record = None \/ doc.status = None
  /\ remote = "CLOSED" => remote' = "CLOSED"
  /\ Minding(a, v)
  /\ Accounted /\ remote' = "ACTIVE" => Minded \/ Minds(v) \/ Accounted'
  /\ v.at \in {"settle", "locked"} => remote' # "ACTIVE"
  /\ v.at \in BlockSteps \cup LiftSteps => call[a].at \in BlockSteps \cup LiftSteps
  /\ v.at \in StartSteps /\ kind # "MASTER" =>
       call[a].at \in StartSteps \/ \A b \in Agents : call[b].at \notin StartSteps
  /\ CallSound(a, v, kind, doc', remote', customer)
  /\ DenialSound'
  /\ ReviewSound'

(* Such a step, with types and copies.                                   *)
LEMMA ShutStep ==
  ASSUME AccessInv, Noticed, NEW a \in Agents, NEW v, Acts(a, v), Keeps(a, v),
         clash => clash', glitches' = glitches, Calm /\ ~clash' => Shuts(a, v)
  PROVE  AccessInv'
<1>1. AccessTypeOK
  BY DEF AccessInv
<1>2. ASSUME Calm' PROVE Sound'
  <2>1. Sound /\ Shuts(a, v)
    BY <1>1, <1>2, CalmBefore DEF Calm, AccessTypeOK, AccessInv
  <2>2. doc' \in AccountDoc /\ Minding(a, v)
    BY <2>1 DEF Keeps, Shuts
  <2>3. RemoteSound'
    <3>1. SUFFICES ASSUME remote' = "ACTIVE" PROVE Minded' \/ Accounted'
      BY DEF RemoteSound
    <3>2. Minded \/ Accounted \/ Minds(v)
      BY <2>1, <2>2, <3>1 DEF Sound, RemoteSound, Minding
    <3> QED
      BY <1>1, <2>1, <2>2, <3>1, <3>2, MindedStep DEF Shuts
  <2>4. LeavingSound'
    BY <1>1, <2>1, <2>2, LeavingStep DEF Sound, Shuts
  <2>5. DocSound'
    BY <1>1, <2>1, <2>2, DocStep DEF Sound, Shuts
  <2>6. OneOfEach'
    BY <1>1, <2>1, OneStep DEF Sound, Shuts
  <2>7. CallsSound'
    BY <1>1, <2>1, CallsStep DEF Sound, Shuts
  <2> QED
    BY <2>1, <2>3, <2>4, <2>5, <2>6, <2>7 DEF Sound, Shuts
<1> QED
  BY <1>2, InvStep

(* One activation of a challenge or a demo, one change of the customer's   *)
(* status.                                                                 *)
LEMMA OnlyOne ==
  ASSUME AccessInv, Calm, NEW a \in Agents, NEW b \in Agents \ {a}
  PROVE  /\ call[a].at \in StartSteps /\ kind # "MASTER" => call[b].at \notin StartSteps
         /\ call[a].at \in BlockSteps \cup LiftSteps =>
              call[b].at \notin BlockSteps \cup LiftSteps
BY DEF AccessInv, Sound, OneOfEach

(* A new account replaces nothing: no activation is past its creation.   *)
LEMMA CreateAccountStep ==
  ASSUME AccessInv, Noticed, NEW c \in Calls, CreateAccount(c)
  PROVE  AccessInv'
<1>1. AccessTypeOK /\ c \in Agents
  BY Distinct DEF AccessInv
<1>2. CASE doc.status # None
  BY <1>1, <1>2, ReturnInv DEF CreateAccount, Is, local, ClaimSteps, Minds
<1>3. CASE doc.status = None
  <2>1. doc' \in AccountDoc /\ doc'.status = "NEW" /\ ~doc'.enabled /\ doc'.op = None
    <3>1. (kind = "DEMO") \in BOOLEAN
      BY Zenon
    <3>2. PICK k \in BOOLEAN : doc' = [NoAccount EXCEPT !.status = "NEW", !.key = k]
      BY <1>3, <3>1 DEF CreateAccount
    <3>3. ~NoAccount.enabled /\ NoAccount.op = None
      BY DEF NoAccount
    <3> QED
      BY <3>2, <3>3, NoAccountTyped DEF AccountDoc, AccountStatus
  <2>2. PICK d : d = doc'
    OBVIOUS
  <2>3. PICK v : Acts(c, v) /\ v.at = "provision" /\ v.copy = d
    BY <1>1, <1>3, <2>1, <2>2, Holds DEF CreateAccount, local, AccessSteps
  <2>4. Keeps(c, v)
    BY <1>1, <2>1, <2>3 DEF Keeps, CreateAccount, local, Saving, AccessTypeOK
  <2>5. ASSUME Calm PROVE Shuts(c, v)
    <3>1. kind # "MASTER"
      BY <1>1, <2>5, CallFacts DEF CreateAccount, Is, CallSound
    <3>2. ~Accounted
      BY <1>1, <1>3, <2>5, CallFacts, Distinct
         DEF Accounted, Trading, Refused, Tradable, AccountStatus
    <3>3. \A b \in Agents : call[b].at \notin StartSteps
      BY <1>3, <2>5, CallFacts DEF CallSound
    <3>4. DenialSound' /\ ReviewSound'
      BY <1>1, <2>1, <2>3, <3>1, <3>3, ActsAt DEF DenialSound, ReviewSound, Is, Acts
    <3>5. doc'.status # None
      BY <2>1, Distinct DEF AccountStatus
    <3>6. CallSound(c, v, kind, doc', remote', customer)
      BY <2>1, <2>2, <2>3, <3>1, <3>5 DEF CallSound, BlockSteps, LiftSteps, UnlockSteps
    <3> QED
      BY <1>3, <2>1, <2>3, <3>1, <3>2, <3>3, <3>4, <3>6
         DEF Shuts, CreateAccount, local, Is, Minding, Minds, BlockSteps, LiftSteps
  <2> QED
    BY <1>1, <2>3, <2>4, <2>5, ShutStep DEF CreateAccount, local
<1> QED
  BY <1>2, <1>3

(* The claim of an approval finds the account at its review, disabled, and *)
(* its challenge completed.                                                *)
LEMMA ClaimApprovalStep ==
  ASSUME AccessInv, Noticed, NEW c \in Calls, ClaimApproval(c)
  PROVE  AccessInv'
<1>1. AccessTypeOK /\ c \in Agents /\ doc \in AccountDoc
  BY Distinct, Typed DEF AccessInv
<1>2. CASE ~MayClaim(doc)
  <2>1. PICK v : Acts(c, v) /\ v.at \in {"idle", "returned"}
    BY <1>1, <1>2, Returns DEF ClaimApproval
  <2>2. ASSUME Calm PROVE Respects(c, v)
    <3>1. doc.op # c
      BY <1>1, <2>2, CallFacts, Distinct DEF ClaimApproval, Is, ClaimSteps
    <3> QED
      BY <1>2, <2>1, <3>1
         DEF Respects, ClaimApproval, Is, Minding, Minds, BlockSteps, LiftSteps, UnlockSteps,
             StartSteps, CallSound
  <2> QED
    BY <1>1, <1>2, <2>1, <2>2, ReadInv DEF ClaimApproval, Saving, AccessTypeOK
<1>3. CASE MayClaim(doc)
  <2>1. /\ doc' \in AccountDoc /\ doc'.status = "FUNDED_REVIEW" /\ ~doc'.enabled
        /\ doc'.op = c /\ doc'.denied = doc.denied /\ doc'.record = doc.record
        /\ doc'.challenge = "COMPLETED"
    BY <1>1, <1>3 DEF ClaimApproval, AccountDoc, MayClaim
  <2>2. doc.status = "FUNDED_REVIEW" /\ doc.op = None
    BY <1>3 DEF MayClaim
  <2>3. PICK d : d = doc'
    OBVIOUS
  <2>4. PICK v : Acts(c, v) /\ v.at = "provision" /\ v.copy = d
    BY <1>1, <1>3, <2>1, <2>3, Holds DEF ClaimApproval, AccessSteps
  <2>5. Keeps(c, v)
    BY <1>1, <1>3, <2>1, <2>4 DEF Keeps, ClaimApproval, Saving, AccessTypeOK
  <2>6. ASSUME Calm PROVE Shuts(c, v)
    <3>1. kind = "MASTER"
      BY <1>1, <2>6, CallFacts DEF ClaimApproval, Is, CallSound
    <3>2. ~Accounted
      BY <1>1, <2>2, <2>6, CallFacts DEF Accounted, Trading, Refused, Tradable
    <3>3. DenialSound'
      BY <1>1, <2>1, <2>2, <2>4, <2>6, DenialStep
         DEF ClaimApproval, Is, Target, AccessInv, Sound
    <3>4. CallSound(c, v, kind, doc', remote', customer)
      BY <2>1, <2>3, <2>4, <3>1, Distinct
         DEF CallSound, BlockSteps, LiftSteps, UnlockSteps, AccountStatus
    <3>5. ReviewSound'
      BY <1>1, <2>1, <2>4, ActsAt DEF ReviewSound
    <3> QED
      BY <1>3, <2>1, <2>4, <2>2, <3>1, <3>2, <3>3, <3>4, <3>5
         DEF Shuts, ClaimApproval, Is, Minding, Minds, BlockSteps, LiftSteps, StartSteps,
             ClaimSteps
  <2> QED
    BY <1>1, <1>3, <2>4, <2>5, <2>6, ShutStep DEF ClaimApproval
<1> QED
  BY <1>2, <1>3

(* Provisioning records what Trader has, which is not active yet.        *)
LEMMA ProvisionStep ==
  ASSUME AccessInv, Noticed, NEW c \in Calls, ProvisionTradingAccount(c)
  PROVE  AccessInv'
<1>1. AccessTypeOK /\ c \in Agents /\ doc \in AccountDoc /\ call[c].copy \in AccountDoc
  BY Distinct, Typed DEF AccessInv
<1>2. PICK to : to = IF remote = None THEN "PAUSED" ELSE remote
  OBVIOUS
<1>3. to \in TraderStatus
  BY <1>1, <1>2 DEF AccessTypeOK, TraderStatus
<1>4. CASE /\ remote' = to
           /\ doc' = Saved(c, [Copy(c) EXCEPT !.record = remote'])
           /\ Hold(c, "commit", [Copy(c) EXCEPT !.record = remote'])
           /\ UNCHANGED glitches
  <2>1. PICK new : new = [Copy(c) EXCEPT !.record = remote']
    OBVIOUS
  <2>2. /\ new \in AccountDoc /\ new.record = to /\ new.op = Copy(c).op
        /\ new.status = Copy(c).status /\ new.enabled = Copy(c).enabled
        /\ new.denied = Copy(c).denied /\ new.challenge = Copy(c).challenge
    BY <1>1, <1>3, <1>4, <2>1 DEF AccountDoc, Copy
  <2>3. /\ doc' \in AccountDoc /\ doc'.op = doc.op /\ doc'.status = doc.status
        /\ doc'.enabled = doc.enabled /\ doc'.denied = doc.denied
        /\ doc'.challenge = doc.challenge
        /\ doc'.record = IF to # Copy(c).record THEN to ELSE doc.record
    <3>1. doc' = Saved(c, new)
      BY <1>4, <2>1
    <3> QED
      BY <1>1, <2>2, <3>1, SavedFields
  <2>4. PICK v : Acts(c, v) /\ v.at = "commit" /\ v.copy = new
    BY <1>1, <1>4, <2>1, <2>2, Holds DEF ProvisionTradingAccount, local, AccessSteps
  <2>5. Keeps(c, v)
    BY <1>1, <1>3, <1>4, <2>3, <2>4
       DEF Keeps, ProvisionTradingAccount, local, Saving, AccessTypeOK
  <2>6. ASSUME Calm PROVE Shuts(c, v)
    <3>0. doc'.record # None
      BY <1>1, <1>3, <2>3, <2>6, CallFacts, Distinct
         DEF ProvisionTradingAccount, Is, Copy, CallSound
    <3>1. CallSound(c, v, kind, doc', remote', customer)
      BY <1>1, <2>2, <2>3, <2>4, <2>6, <3>0, CallFacts
         DEF ProvisionTradingAccount, Is, Copy, CallSound, BlockSteps, LiftSteps, UnlockSteps
    <3>2. DenialSound'
      BY <1>1, <2>3, <2>4, <2>6, DenialStep
         DEF ProvisionTradingAccount, local, Is, Target, AccessInv, Sound
    <3>3. Accounted /\ remote' = "ACTIVE" => Accounted'
      <4>1. ASSUME Accounted, remote' = "ACTIVE" PROVE doc'.record = "ACTIVE"
        BY <1>4, <2>3, <4>1 DEF Accounted, Trading, Refused
      <4>2. Finding => Finding'
        BY <1>1, <2>4, ActsAt DEF Finding, Is, ProvisionTradingAccount
      <4> QED
        BY <2>3, <4>1, <4>2 DEF Accounted, Trading, Refused
    <3>4. doc.enabled => doc.status \in Tradable
      BY <1>1, <2>6, CallFacts
    <3>5. call[c].at = "provision" /\ customer' = customer /\ v.at \in ClaimSteps
      BY <2>4 DEF ProvisionTradingAccount, local, Is, ClaimSteps
    <3>6. /\ remote' = "ACTIVE" => remote = "ACTIVE"
          /\ remote = "CLOSED" => remote' = "CLOSED"
      BY <1>2, <1>4, Distinct DEF TraderStatus
    <3>7. Minding(c, v)
      BY <3>5, <3>6 DEF Minding, Minds
    <3>8. ReviewSound'
      BY <1>1, <2>3, <2>4, <2>6, <3>0, CallFacts, ReviewStep DEF Reviews
    <3> QED
      BY <2>3, <2>4, <3>0, <3>1, <3>2, <3>3, <3>4, <3>5, <3>6, <3>7, <3>8
         DEF Shuts, BlockSteps, LiftSteps, StartSteps
  <2> QED
    BY <1>1, <1>4, <2>4, <2>5, <2>6, ShutStep DEF ProvisionTradingAccount, local
<1>5. CASE remote' \in {remote, to} /\ AbortProvision(c) /\ UNCHANGED doc /\ Glitch
  <2>1. PICK v : Acts(c, v) /\ v.at \in {"idle", "returned", "settle", "rollback"}
    BY <1>1, <1>5, Returns, Stepped
       DEF AbortProvision, ProvisionTradingAccount, local, AccessSteps
  <2> QED
    BY <1>1, <1>3, <1>5, <2>1, FaultInv
       DEF ProvisionTradingAccount, local, Saving, AccessTypeOK
<1> QED
  BY <1>2, <1>4, <1>5 DEF ProvisionTradingAccount

(* The commit of an activation leaves the account disabled.                *)
LEMMA CommitStep ==
  ASSUME AccessInv, Noticed, NEW c \in Calls, CommitLifecycle(c)
  PROVE  AccessInv'
<1>1. AccessTypeOK /\ c \in Agents /\ doc \in AccountDoc /\ call[c].copy \in AccountDoc
  BY Distinct, Typed DEF AccessInv
<1>2. PICK new : new = [Copy(c) EXCEPT !.status = Target, !.enabled = FALSE]
  OBVIOUS
<1>3. /\ new \in AccountDoc /\ new.status = Target /\ new.enabled = FALSE
      /\ new.op = Copy(c).op /\ new.denied = Copy(c).denied /\ new.record = Copy(c).record
      /\ new.challenge = Copy(c).challenge
  <2>1. Target \in AccountStatus
    BY DEF Target, AccountStatus, Tradable
  <2> QED
    BY <1>1, <1>2, <2>1 DEF AccountDoc, Copy
<1>4. /\ doc' = Saved(c, new) /\ clash' = (clash \/ Moved(c)) /\ Hold(c, "assert", new)
      /\ call[c].at = "commit" /\ UNCHANGED <<remote, local, glitches>>
  BY <1>2 DEF CommitLifecycle, Save, Is
<1>5. /\ doc' \in AccountDoc /\ doc'.op = doc.op /\ doc'.denied = doc.denied
      /\ doc'.record = doc.record /\ doc'.challenge = doc.challenge
      /\ doc'.status = IF Target # Copy(c).status THEN Target ELSE doc.status
  BY <1>1, <1>3, <1>4, SavedFields
<1>6. PICK v : Acts(c, v) /\ v.at = "assert" /\ v.copy = new
  BY <1>1, <1>3, <1>4, Holds DEF local, AccessSteps
<1>7. Keeps(c, v)
  BY <1>1, <1>4, <1>5, <1>6 DEF Keeps, local, Saving, AccessTypeOK
<1>8. ASSUME Calm, ~clash' PROVE Shuts(c, v)
  <2>1. doc.status = Copy(c).status /\ doc.op = Copy(c).op
    BY <1>4, <1>8 DEF Moved
  <2>2. ~doc'.enabled
    <3>1. doc.enabled => Copy(c).enabled
      BY <1>1, <1>4, <1>8, <2>1, CallFacts, Distinct DEF CallSound, Copy
    <3> QED
      BY <1>1, <1>3, <1>4, <3>1, SavedShut
  <2>3. DenialSound'
    <3>1. ASSUME NEW b \in Agents, call'[b].at = "enable" PROVE kind = "MASTER" /\ doc'.op # b
      <4>1. b # c /\ call[b].at = "enable"
        BY <1>1, <1>6, <3>1, ActsAt
      <4>2. kind = "MASTER"
        BY <1>1, <1>4, <1>8, <4>1, OnlyOne DEF StartSteps
      <4>3. Copy(c).op = c
        BY <1>1, <1>4, <1>8, <4>2, CallFacts DEF CallSound, Copy
      <4> QED
        BY <1>5, <2>1, <4>1, <4>2, <4>3
    <3> QED
      BY <1>6, <2>2, <3>1 DEF DenialSound, Is, Barred, Acts
  <2>4. doc'.status # None /\ doc'.record # None
    BY <1>1, <1>4, <1>5, <1>8, CallFacts, Distinct
       DEF CallSound, Target, AccountStatus, Tradable
  <2>5. CallSound(c, v, kind, doc', remote', customer)
    BY <1>6, <2>2, <2>4 DEF CallSound, BlockSteps, LiftSteps, UnlockSteps
  <2>6. ReviewSound'
    <3> SUFFICES ASSUME kind = "MASTER" PROVE ReviewSound'
      BY <1>6 DEF ReviewSound, Acts
    <3>1. /\ Copy(c).status = "FUNDED_REVIEW" /\ Copy(c).op = c
          /\ doc'.status = "FUNDED" /\ doc.status = "FUNDED_REVIEW" /\ doc.op = c
      BY <1>1, <1>4, <1>5, <1>8, <2>1, CallFacts DEF CallSound, Copy, Target
    <3>2. doc.challenge = "COMPLETED" \/ \E b \in Agents : Lost(b)
      BY <1>1, <1>8, <3>1, CallFacts DEF ReviewSound
    <3>3. ASSUME NEW b \in Agents, Lost(b) PROVE Lost(b)'
      BY <1>1, <1>5, <1>6, <3>1, <3>3, ActsAt DEF Lost
    <3> QED
      BY <1>5, <2>4, <3>1, <3>2, <3>3 DEF ReviewSound
  <2> QED
    BY <1>4, <1>5, <1>6, <2>2, <2>3, <2>4, <2>5, <2>6
       DEF Shuts, local, Is, Minding, Minds, BlockSteps, LiftSteps, StartSteps, ClaimSteps
<1> QED
  BY <1>1, <1>4, <1>6, <1>7, <1>8, ShutStep

(* An approval that is taken back disables nothing that was enabled: its   *)
(* claim had kept the account disabled.                                    *)
LEMMA SaveReviewedStep ==
  ASSUME AccessInv, Noticed, NEW a \in Agents, SaveReviewed(a)
  PROVE  AccessInv'
<1>1. AccessTypeOK /\ doc \in AccountDoc /\ call[a].copy \in AccountDoc
  BY Typed DEF AccessInv
<1>2. PICK new : new = Reviewed(Copy(a))
  OBVIOUS
<1>3. /\ new \in AccountDoc /\ new.enabled = FALSE /\ new.op = None
      /\ new.record \in {Copy(a).record, "PAUSED"}
      /\ new.challenge = Copy(a).challenge \/ Copy(a).record = None
      /\ new.status = IF Copy(a).status = "CLOSED" THEN "CLOSED" ELSE "FUNDED_REVIEW"
  <2>1. PICK r, h, t :
          /\ new = [Copy(a) EXCEPT !.record = r, !.challenge = h, !.status = t,
                                   !.enabled = FALSE, !.op = None]
          /\ r \in {Copy(a).record, "PAUSED"}
          /\ h = Copy(a).challenge \/ (h = "PAUSED" /\ Copy(a).record = None)
          /\ t = IF Copy(a).status = "CLOSED" THEN "CLOSED" ELSE "FUNDED_REVIEW"
    BY <1>2 DEF Reviewed
  <2>2. /\ r \in TraderStatus \cup {None} /\ h \in ChallengeStatus \cup {None}
        /\ t \in AccountStatus
    BY <1>1, <2>1 DEF AccountDoc, Copy, AccountStatus, TraderStatus, ChallengeStatus, Terminal
  <2>3. Copy(a) \in AccountDoc
    BY <1>1 DEF Copy
  <2> QED
    BY <2>1, <2>2, <2>3 DEF AccountDoc
<1>4. /\ doc' = Saved(a, new) /\ clash' = (clash \/ Moved(a)) /\ Done(a)
      /\ call[a].at = "recovered" /\ stale' = (stale /\ doc'.op # None)
      /\ UNCHANGED <<kind, customer, done, remote, glitches>>
  BY <1>2 DEF SaveReviewed, Save, Is
<1>5. /\ doc' \in AccountDoc
      /\ doc'.op = IF Copy(a).op # None THEN None ELSE doc.op
      /\ doc'.record \in {doc.record, "PAUSED"}
      /\ doc'.challenge = doc.challenge \/ Copy(a).record = None
      /\ doc'.status = IF new.status # Copy(a).status THEN new.status ELSE doc.status
  BY <1>1, <1>3, <1>4, SavedFields
<1>6. PICK v : Acts(a, v) /\ v.at \in {"idle", "returned"}
  BY <1>1, <1>4, Returns
<1>7. Keeps(a, v)
  BY <1>1, <1>4, <1>5, <1>6 DEF Keeps, Saving, AccessTypeOK
<1>8. ASSUME Calm, ~clash' PROVE Shuts(a, v)
  <2>1. Copy(a).op # None
    BY <1>1, <1>4, <1>8, CallFacts DEF CallSound, Copy
  <2>2. doc.op = Copy(a).op /\ doc.status = Copy(a).status
    BY <1>4, <1>8 DEF Moved
  <2>3. kind = "MASTER" /\ ~doc.enabled
    BY <1>1, <1>8, <2>1, <2>2, CallFacts
  <2>4. ~doc'.enabled /\ doc'.op = None
    BY <1>1, <1>3, <1>4, <1>5, <2>1, <2>3, SavedShut
  <2>5. ~Accounted
    BY <2>1, <2>2, <2>3 DEF Accounted, Trading, Refused
  <2>6. DenialSound'
    BY <1>4, <2>3, <2>4, Distinct DEF DenialSound, Is, Barred
  <2>7. CallSound(a, v, kind, doc', remote', customer)
    BY <1>6 DEF CallSound, BlockSteps, LiftSteps, UnlockSteps
  <2>8. /\ doc'.status = IF doc.status = "CLOSED" THEN "CLOSED" ELSE "FUNDED_REVIEW"
        /\ doc'.status # None
        /\ doc'.record = None => doc.record = None
    BY <1>3, <1>5, <2>2, Distinct DEF AccountStatus, TraderStatus, Terminal
  <2>9. ReviewSound'
    <3> DEFINE Stays(b) == b \in Agents /\ call'[b].at \in Unstaged /\ doc'.op # b
    <3>1. ASSUME NEW b \in Agents, call[b].at \in Unstaged PROVE Stays(b)
      BY <1>1, <1>4, <1>6, <2>4, <3>1, ActsAt, Distinct
    <3>2. ASSUME doc'.status = "FUNDED_REVIEW"
          PROVE  doc'.challenge = "COMPLETED" \/ \E b \in Agents : Stays(b)
      <4>1. doc.status # "CLOSED"
        BY <2>8, <3>2
      <4>2. CASE doc'.challenge = doc.challenge
        <5>1. doc.challenge = "COMPLETED" \/ \E b \in Agents : Lost(b)
          BY <1>8, <2>3, <4>1, CallFacts DEF ReviewSound
        <5> QED
          BY <3>1, <4>2, <5>1 DEF Lost
      <4>3. CASE doc'.challenge # doc.challenge
        <5>1. doc.status = "FUNDED_REVIEW"
          BY <1>4, <1>5, <1>8, <2>2, <4>1, <4>3, CallFacts DEF CallSound, Copy
        <5>2. call[doc.op].at \in Unstaged
          BY <1>8, <2>1, <2>2, <2>3, <5>1, CallFacts DEF ReviewSound
        <5>3. doc.op \in Agents
          BY <1>1, <2>1, <2>2, Distinct DEF AccountDoc
        <5> QED
          BY <3>1, <5>2, <5>3
      <4> QED
        BY <4>2, <4>3
    <3> QED
      BY <2>4, <2>8, <3>2 DEF ReviewSound, Lost
  <2> QED
    BY <1>4, <1>6, <2>3, <2>4, <2>5, <2>6, <2>7, <2>8, <2>9
       DEF Shuts, Minding, Minds, BlockSteps, LiftSteps, StartSteps
<1> QED
  BY <1>4, <1>6, <1>7, <1>8, ShutStep

(* An activation that failed staged the account before it settles.         *)
LEMMA SettleFailureStep ==
  ASSUME AccessInv, Noticed, NEW c \in Calls, SettleFailure(c)
  PROVE  AccessInv'
<1>1. AccessTypeOK /\ c \in Agents /\ doc \in AccountDoc
  BY Distinct, Typed DEF AccessInv
<1>2. /\ call[c].at = "settle" /\ Done(c)
      /\ UNCHANGED <<remote, kind, customer, stale, done, clash, glitches>>
  BY DEF SettleFailure, Is, local
<1>3. PICK v : Acts(c, v) /\ v.at \in {"idle", "returned"}
  BY <1>1, <1>2, Returns
<1>4. /\ doc' \in AccountDoc /\ doc'.op = doc.op /\ doc'.record = doc.record
      /\ \/ doc'.status = doc.status
         \/ doc.status # None /\ doc'.status = "CLOSED" /\ ~doc'.enabled
  <2>1. CASE doc' = doc
    BY <1>1, <2>1
  <2>2. CASE \E x : doc' = [doc EXCEPT !.enabled = FALSE, !.denied = x] /\ x \in BOOLEAN
    BY <1>1, <2>2 DEF AccountDoc
  <2>3. CASE /\ doc' = [doc EXCEPT !.status = "CLOSED", !.enabled = FALSE, !.key = FALSE]
             /\ doc.status \in {"NEW", "ACTIVE"}
    BY <1>1, <2>3, Distinct DEF AccountDoc, AccountStatus, Terminal, Tradable
  <2>4. (doc.denied \/ call[c].blocked) \in BOOLEAN
    OBVIOUS
  <2> QED
    BY <2>1, <2>2, <2>3, <2>4 DEF SettleFailure
<1>5. (doc'.enabled => doc.enabled) /\ (doc.denied => doc'.denied)
  <2>1. CASE doc' = doc
    BY <2>1
  <2>2. CASE doc' = [doc EXCEPT !.enabled = FALSE, !.denied = doc.denied \/ call[c].blocked]
    BY <1>1, <2>2, Zenon DEF AccountDoc
  <2>3. CASE doc' = [doc EXCEPT !.enabled = FALSE, !.denied = TRUE]
    BY <1>1, <2>3 DEF AccountDoc
  <2>4. CASE doc' = [doc EXCEPT !.status = "CLOSED", !.enabled = FALSE, !.key = FALSE]
    BY <1>1, <2>4 DEF AccountDoc
  <2> QED
    BY <2>1, <2>2, <2>3, <2>4 DEF SettleFailure
<1>6. Keeps(c, v)
  BY <1>1, <1>2, <1>3, <1>4 DEF Keeps, Saving, AccessTypeOK
<1>7. ASSUME Calm PROVE Shuts(c, v)
  <2>1. /\ kind # "MASTER" /\ doc.op = None /\ (doc.enabled => doc.status \in Tradable)
        /\ remote = "ACTIVE" => Minded
    BY <1>1, <1>2, <1>7, CallFacts DEF CallSound, Leaving, Is
  <2>2. ReviewSound' /\ (doc'.status = None => doc.status = None)
    BY <1>3, <1>4, <2>1, Distinct DEF ReviewSound, Acts, AccountStatus, Terminal
  <2>3. DenialSound'
    BY <1>1, <1>2, <1>3, <1>4, <1>5, <1>7, DenialStep
       DEF Is, Target, AccessInv, Sound
  <2>4. CallSound(c, v, kind, doc', remote', customer)
    BY <1>3 DEF CallSound, BlockSteps, LiftSteps, UnlockSteps
  <2> QED
    BY <1>2, <1>3, <1>4, <1>5, <2>1, <2>2, <2>3, <2>4
       DEF Shuts, Minding, Minds, BlockSteps, LiftSteps, StartSteps
<1> QED
  BY <1>1, <1>2, <1>3, <1>6, <1>7, ShutStep

(* The durable denial: whoever activates the account now fails in its last *)
(* update, and what is active at Trader the block itself pauses.           *)
LEMMA DenyAccessStep ==
  ASSUME AccessInv, Noticed, NEW c \in Calls, DenyAccess(c)
  PROVE  AccessInv'
<1>1. AccessTypeOK /\ c \in Agents /\ doc \in AccountDoc
  BY Distinct, Typed DEF AccessInv
<1>2. /\ call[c].at = "deny" /\ Step(c, "find")
      /\ UNCHANGED <<remote, kind, customer, stale, done, clash, glitches>>
  BY DEF DenyAccess, Is, local
<1>3. PICK v : Acts(c, v) /\ v.at = "find"
  BY <1>1, <1>2, Stepped DEF AccessSteps
<1>4. /\ doc' \in AccountDoc /\ doc'.op = doc.op /\ doc'.status = doc.status
      /\ doc'.record = doc.record /\ doc'.challenge = doc.challenge
      /\ \/ doc' = doc /\ doc.status \in Terminal \cup {None}
         \/ doc'.denied /\ ~doc'.enabled
  BY <1>1 DEF DenyAccess, AccountDoc
<1>5. Keeps(c, v)
  BY <1>1, <1>2, <1>3, <1>4 DEF Keeps, Saving, AccessTypeOK
<1>6. ASSUME Calm PROVE Shuts(c, v)
  <2>1. /\ customer = "BLOCKED" /\ doc.op # c
        /\ doc.enabled => doc.status \in Tradable
        /\ doc.op # None => ~doc.enabled
    BY <1>1, <1>2, <1>6, CallFacts, Distinct DEF CallSound, BlockSteps, ClaimSteps
  <2>2. doc.status \in Terminal \cup {None} => doc.status \notin Tradable /\ doc.status # Target
    BY <1>1, Distinct DEF Terminal, Tradable, Target, AccountStatus
  <2>3. ~doc'.enabled
    BY <1>4, <2>1, <2>2
  <2>4. DenialSound'
    BY <1>4, <2>2, <2>3, <1>3 DEF DenialSound, Barred, Target, Acts
  <2>5. Finding'
    BY <1>1, <1>3, ActsAt DEF Finding, Is
  <2>6. Accounted => Accounted'
    BY <1>4, <2>1, <2>2, <2>5 DEF Accounted, Trading, Refused
  <2>7. CallSound(c, v, kind, doc', remote', customer)
    BY <1>3, <2>1 DEF CallSound, BlockSteps, LiftSteps, UnlockSteps
  <2>8. ReviewSound'
    BY <1>1, <1>2, <1>3, <1>4, <1>6, CallFacts, ReviewStep DEF Reviews, ReviewSound
  <2> QED
    BY <1>2, <1>3, <1>4, <2>1, <2>3, <2>4, <2>6, <2>7, <2>8
       DEF Shuts, Minding, Minds, BlockSteps, LiftSteps, StartSteps
<1> QED
  BY <1>1, <1>2, <1>3, <1>5, <1>6, ShutStep

(* The pause of a block is recorded on an account that was disabled before.*)
LEMMA SavePausedStep ==
  ASSUME AccessInv, Noticed, NEW c \in Calls, SavePaused(c)
  PROVE  AccessInv'
<1>1. AccessTypeOK /\ c \in Agents /\ doc \in AccountDoc /\ call[c].copy \in AccountDoc
  BY Distinct, Typed DEF AccessInv
<1>2. PICK new : new = [Copy(c) EXCEPT !.record = "PAUSED"]
  OBVIOUS
<1>3. /\ new \in AccountDoc /\ new.op = Copy(c).op /\ new.status = Copy(c).status
      /\ new.enabled = Copy(c).enabled /\ new.denied = Copy(c).denied
      /\ new.challenge = Copy(c).challenge /\ new.record = "PAUSED"
  BY <1>1, <1>2 DEF AccountDoc, Copy, TraderStatus
<1>4. /\ call[c].at = "paused" /\ Done(c) /\ doc' = Saved(c, new)
      /\ UNCHANGED <<remote, kind, customer, stale, done, clash, glitches>>
  BY <1>2 DEF SavePaused, Is, local
<1>5. /\ doc' \in AccountDoc /\ doc'.op = doc.op /\ doc'.status = doc.status
      /\ doc'.enabled = doc.enabled /\ doc'.denied = doc.denied
      /\ doc'.challenge = doc.challenge /\ doc'.record \in {doc.record, "PAUSED"}
  BY <1>1, <1>3, <1>4, SavedFields
<1>6. PICK v : Acts(c, v) /\ v.at \in {"idle", "returned"}
  BY <1>1, <1>4, Returns
<1>7. Keeps(c, v)
  BY <1>1, <1>4, <1>5, <1>6 DEF Keeps, Saving, AccessTypeOK
<1>8. ASSUME Calm PROVE Shuts(c, v)
  <2>1. customer = "BLOCKED" /\ doc.op # c
    BY <1>1, <1>4, <1>8, CallFacts, Distinct DEF CallSound, BlockSteps, ClaimSteps
  <2>2. ~Denying /\ ~Finding
    <3>1. ASSUME NEW b \in Agents, call[b].at \in {"deny", "find"} PROVE FALSE
      BY <1>1, <1>4, <1>8, <3>1, OnlyOne DEF BlockSteps
    <3> QED
      BY <3>1 DEF Denying, Finding, Is
  <2>3. ~doc.enabled
    BY <1>8, <2>1, <2>2 DEF AccessInv, Sound, DenialSound
  <2>4. ~Accounted
    BY <2>2, <2>3 DEF Accounted, Trading
  <2>5. DenialSound'
    BY <1>1, <1>4, <1>5, <1>6, <1>8, DenialStep DEF Is, Target, AccessInv, Sound
  <2>6. CallSound(c, v, kind, doc', remote', customer)
    BY <1>6 DEF CallSound, BlockSteps, LiftSteps, UnlockSteps
  <2>7. doc'.record = None => doc.record = None
    BY <1>5, Distinct DEF TraderStatus
  <2>8. ReviewSound'
    BY <1>1, <1>4, <1>5, <1>6, <1>8, <2>7, CallFacts, ReviewStep DEF Reviews, ReviewSound
  <2> QED
    BY <1>4, <1>5, <1>6, <2>1, <2>3, <2>4, <2>5, <2>6, <2>7, <2>8
       DEF Shuts, Minding, Minds, BlockSteps, LiftSteps, StartSteps
<1> QED
  BY <1>1, <1>4, <1>6, <1>7, <1>8, ShutStep

(* A save() without a clash writes over the document it was read from.     *)
LEMMA SavesWhole ==
  ASSUME AccessInv, NEW a \in Agents, call[a].at \in Saving, a \notin behind,
         NEW new \in AccountDoc
  PROVE  doc = call[a].copy /\ Saved(a, new) = new
<1>1. AccessTypeOK /\ doc = Copy(a)
  BY DEF AccessInv, Copied
<1> QED
  BY <1>1, SavedWhole DEF Copy

(* A reactivation that only releases the account finds it shut.            *)
LEMMA SaveClearedStep ==
  ASSUME AccessInv, Noticed, NEW c \in Calls, SaveCleared(c)
  PROVE  AccessInv'
<1>1. AccessTypeOK /\ c \in Agents /\ doc \in AccountDoc /\ call[c].copy \in AccountDoc
  BY Distinct, Typed DEF AccessInv
<1>2. PICK new : new = [Copy(c) EXCEPT !.denied = FALSE, !.enabled = FALSE]
  OBVIOUS
<1>3. /\ new \in AccountDoc /\ new.op = Copy(c).op /\ new.status = Copy(c).status
      /\ ~new.enabled /\ new.record = Copy(c).record /\ new.challenge = Copy(c).challenge
  BY <1>1, <1>2 DEF AccountDoc, Copy
<1>4. /\ call[c].at = "cleared" /\ Done(c) /\ doc' = Saved(c, new)
      /\ clash' = (clash \/ c \in behind)
      /\ UNCHANGED <<remote, kind, customer, stale, done, glitches>>
  BY <1>2 DEF SaveCleared, Save, Is, local
<1>5. doc' \in AccountDoc
  BY <1>1, <1>3, <1>4, SavedFields
<1>6. PICK v : Acts(c, v) /\ v.at \in {"idle", "returned"}
  BY <1>1, <1>4, Returns
<1>7. Keeps(c, v)
  BY <1>1, <1>4, <1>5, <1>6 DEF Keeps, Saving, AccessTypeOK
<1>8. ASSUME Calm, ~clash' PROVE Shuts(c, v)
  <2>1. doc = Copy(c) /\ doc' = new
    BY <1>1, <1>3, <1>4, <1>8, SavesWhole DEF Saving, Copy
  <2>2. /\ customer = "ACTIVE" /\ doc.op # c
        /\ doc.status \notin Tradable \/ doc.record = None
        /\ doc.enabled => doc.status \in Tradable
    BY <1>1, <1>4, <1>8, <2>1, CallFacts, Distinct DEF CallSound, LiftSteps, ClaimSteps, Copy
  <2>3. ~Accounted
    BY <2>2, Distinct DEF Accounted, Trading, Refused, TraderStatus
  <2>4. DenialSound'
    BY <1>4, <2>2 DEF DenialSound
  <2>5. CallSound(c, v, kind, doc', remote', customer)
    BY <1>6 DEF CallSound, BlockSteps, LiftSteps, UnlockSteps
  <2>6. ReviewSound'
    BY <1>1, <1>3, <1>4, <1>6, <1>8, <2>1, CallFacts, ReviewStep DEF Reviews, ReviewSound
  <2> QED
    BY <1>3, <1>4, <1>6, <2>1, <2>2, <2>3, <2>4, <2>5, <2>6
       DEF Shuts, Minding, Minds, BlockSteps, LiftSteps, StartSteps
<1> QED
  BY <1>1, <1>4, <1>6, <1>7, <1>8, ShutStep

(* A LOCK that lands on what it read: who activated the account since it   *)
(* was paused has written nothing yet, and will fail.                      *)
LEMMA SaveLockedStep ==
  ASSUME AccessInv, Noticed, NEW c \in Calls, SaveLocked(c)
  PROVE  AccessInv'
<1>1. AccessTypeOK /\ c \in Agents /\ doc \in AccountDoc /\ call[c].copy \in AccountDoc
  BY Distinct, Typed DEF AccessInv
<1>2. PICK new :
        new = [Copy(c) EXCEPT !.record = "PAUSED", !.status = "LOCKED", !.enabled = FALSE]
  OBVIOUS
<1>3. /\ new \in AccountDoc /\ new.op = Copy(c).op /\ new.status = "LOCKED"
      /\ ~new.enabled /\ new.denied = Copy(c).denied
      /\ new.record = "PAUSED" /\ new.challenge = Copy(c).challenge
  BY <1>1, <1>2 DEF AccountDoc, Copy, TraderStatus, AccountStatus
<1>4. /\ call[c].at = "locked" /\ Done(c) /\ doc' = Saved(c, new)
      /\ clash' = (clash \/ c \in behind)
      /\ UNCHANGED <<remote, kind, customer, stale, done, glitches>>
  BY <1>2 DEF SaveLocked, Save, Is, local
<1>5. doc' \in AccountDoc
  BY <1>1, <1>3, <1>4, SavedFields
<1>6. PICK v : Acts(c, v) /\ v.at \in {"idle", "returned"}
  BY <1>1, <1>4, Returns
<1>7. Keeps(c, v)
  BY <1>1, <1>4, <1>5, <1>6 DEF Keeps, Saving, AccessTypeOK
<1>8. ASSUME Calm, ~clash' PROVE Shuts(c, v)
  <2>1. doc = Copy(c) /\ doc' = new
    BY <1>1, <1>3, <1>4, <1>8, SavesWhole DEF Saving, Copy
  <2>2. /\ doc.op # c /\ doc.status \notin {None, "CLOSED"}
        /\ remote = "ACTIVE" => Minded
    BY <1>1, <1>4, <1>8, <2>1, CallFacts, Distinct
       DEF CallSound, Leaving, Is, ClaimSteps, Copy
  <2>3. ~Is(c, "deny") /\ Target # "LOCKED"
    BY <1>4 DEF Is, Target
  <2>4. DenialSound'
    BY <1>1, <1>3, <1>4, <1>6, <1>8, <2>1, <2>3, DenialStep DEF Target, Acts, AccessInv, Sound
  <2>5. CallSound(c, v, kind, doc', remote', customer)
    BY <1>6 DEF CallSound, BlockSteps, LiftSteps, UnlockSteps
  <2>6. doc'.status # None /\ doc'.record # None
    BY <1>3, <2>1, Distinct DEF AccountStatus, TraderStatus
  <2>7. ReviewSound'
    BY <1>1, <1>3, <1>4, <1>6, <1>8, <2>1, <2>2, <2>6, CallFacts, ReviewStep DEF Reviews
  <2> QED
    BY <1>3, <1>4, <1>6, <2>1, <2>2, <2>4, <2>5, <2>6, <2>7
       DEF Shuts, Minding, Minds, BlockSteps, LiftSteps, StartSteps
<1> QED
  BY <1>1, <1>4, <1>6, <1>7, <1>8, ShutStep

(* A CLOSE that lands on what it read has closed it at Trader.           *)
LEMMA SaveClosedStep ==
  ASSUME AccessInv, Noticed, NEW c \in Calls, SaveClosed(c)
  PROVE  AccessInv'
<1>1. AccessTypeOK /\ c \in Agents /\ doc \in AccountDoc /\ call[c].copy \in AccountDoc
  BY Distinct, Typed DEF AccessInv
<1>2. PICK r : r = IF Copy(c).record = None THEN Copy(c).record ELSE "CLOSED"
  OBVIOUS
<1>3. PICK h, new :
        /\ h = IF Copy(c).challenge # None /\ Copy(c).record = None
               THEN "CLOSED" ELSE Copy(c).challenge
        /\ new = [Copy(c) EXCEPT !.record = r, !.challenge = h, !.status = "CLOSED",
                                 !.enabled = FALSE, !.key = FALSE]
  BY Zenon
<1>4. /\ new \in AccountDoc /\ new.op = Copy(c).op /\ new.status = "CLOSED"
      /\ ~new.enabled /\ new.denied = Copy(c).denied /\ new.record = r
  <2>1. r \in TraderStatus \cup {None} /\ h \in ChallengeStatus \cup {None}
    BY <1>1, <1>2, <1>3 DEF AccountDoc, Copy, TraderStatus, ChallengeStatus
  <2>2. Copy(c) \in AccountDoc /\ "CLOSED" \in AccountStatus
    BY <1>1 DEF Copy, AccountStatus, Terminal
  <2> QED
    BY <1>3, <2>1, <2>2 DEF AccountDoc
<1>5. /\ call[c].at = "closed" /\ Done(c) /\ doc' = Saved(c, new)
      /\ clash' = (clash \/ c \in behind)
      /\ UNCHANGED <<remote, kind, customer, stale, done, glitches>>
  BY <1>2, <1>3 DEF SaveClosed, Save, Is, local
<1>6. doc' \in AccountDoc
  BY <1>1, <1>4, <1>5, SavedFields
<1>7. PICK v : Acts(c, v) /\ v.at \in {"idle", "returned"}
  BY <1>1, <1>5, Returns
<1>8. Keeps(c, v)
  BY <1>1, <1>5, <1>6, <1>7 DEF Keeps, Saving, AccessTypeOK
<1>9. ASSUME Calm, ~clash' PROVE Shuts(c, v)
  <2>1. doc = Copy(c) /\ doc' = new
    BY <1>1, <1>4, <1>5, <1>9, SavesWhole DEF Saving, Copy
  <2>2. /\ doc.op # c /\ doc.status # None
        /\ remote = "CLOSED" \/ doc.record = None
    BY <1>1, <1>5, <1>9, <2>1, CallFacts, Distinct DEF CallSound, ClaimSteps, Copy
  <2>3. remote' = "ACTIVE" => ~Accounted
    BY <1>5, <2>2, Distinct DEF Accounted, Trading, Refused, TraderStatus
  <2>4. ~Is(c, "deny") /\ Target # "CLOSED"
    BY <1>5 DEF Is, Target
  <2>5. DenialSound'
    BY <1>1, <1>4, <1>5, <1>7, <1>9, <2>1, <2>4, DenialStep DEF Target, Acts, AccessInv, Sound
  <2>6. CallSound(c, v, kind, doc', remote', customer)
    BY <1>7 DEF CallSound, BlockSteps, LiftSteps, UnlockSteps
  <2>7. /\ doc'.status = "CLOSED" /\ doc'.status # None
        /\ doc'.record = None => doc.record = None
    BY <1>2, <1>4, <2>1, Distinct DEF AccountStatus, TraderStatus, Terminal
  <2>8. ReviewSound'
    BY <1>1, <1>4, <1>5, <1>7, <1>9, <2>1, <2>7, CallFacts, ReviewStep DEF Reviews
  <2> QED
    BY <1>4, <1>5, <1>7, <2>1, <2>2, <2>3, <2>5, <2>6, <2>7, <2>8
       DEF Shuts, Minding, Minds, BlockSteps, LiftSteps, StartSteps
<1> QED
  BY <1>1, <1>5, <1>7, <1>8, <1>9, ShutStep

(* Who ends a demo closes it at Trader.                                    *)
LEMMA EndDemoStep ==
  ASSUME AccessInv, Noticed, NEW a \in Agents, NEW status \in Terminal, EndDemo(a, status)
  PROVE  AccessInv'
<1>1. AccessTypeOK /\ doc \in AccountDoc
  BY Typed DEF AccessInv
<1>2. /\ doc' \in AccountDoc /\ doc'.op = doc.op /\ doc'.status = status /\ ~doc'.enabled
      /\ doc'.denied = doc.denied /\ doc'.record = doc.record
  BY <1>1 DEF EndDemo, AccountDoc, AccountStatus
<1>3. PICK d : d = doc'
  OBVIOUS
<1>4. PICK v : Acts(a, v) /\ v.at = "reap" /\ v.copy = d
  BY <1>1, <1>2, <1>3, Holds DEF EndDemo, local, AccessSteps
<1>5. /\ call[a].at = "idle" /\ kind = "DEMO" /\ doc.status # None
      /\ UNCHANGED <<remote, customer, stale, done, clash, glitches>>
  BY Distinct DEF EndDemo, Is, local, AccountStatus, Tradable
<1>6. Keeps(a, v)
  BY <1>1, <1>2, <1>4, <1>5 DEF Keeps, Saving, AccessTypeOK
<1>7. ASSUME Calm PROVE Shuts(a, v)
  <2>1. doc.op = None
    BY <1>1, <1>5, <1>7, CallFacts
  <2>2. Accounted => Minds(v)
    BY <1>2, <1>3, <1>4 DEF Accounted, Trading, Refused, Minds, Open
  <2>3. ~Is(a, "deny") /\ Target # status
    BY <1>5 DEF Is, Target, Terminal
  <2>4. DenialSound'
    BY <1>1, <1>2, <1>4, <1>5, <1>7, <2>3, DenialStep DEF Target, Acts, AccessInv, Sound
  <2>5. CallSound(a, v, kind, doc', remote', customer)
    BY <1>4 DEF CallSound, BlockSteps, LiftSteps, UnlockSteps
  <2>6. ReviewSound' /\ doc'.status # None
    BY <1>2, <1>4, <1>5, Distinct DEF ReviewSound, Acts, AccountStatus, Terminal
  <2> QED
    BY <1>2, <1>4, <1>5, <2>1, <2>2, <2>4, <2>5, <2>6
       DEF Shuts, Minding, Minds, BlockSteps, LiftSteps, StartSteps
<1> QED
  BY <1>4, <1>5, <1>6, <1>7, ShutStep

(* The end of a demo is recorded on an account closed at Trader.         *)
LEMMA SaveReapedStep ==
  ASSUME AccessInv, Noticed, NEW a \in Agents, SaveReaped(a)
  PROVE  AccessInv'
<1>1. AccessTypeOK /\ doc \in AccountDoc /\ call[a].copy \in AccountDoc
  BY Typed DEF AccessInv
<1>2. PICK new : new = [Copy(a) EXCEPT !.record = "CLOSED"]
  OBVIOUS
<1>3. /\ new \in AccountDoc /\ new.op = Copy(a).op /\ new.status = Copy(a).status
      /\ new.enabled = Copy(a).enabled /\ new.denied = Copy(a).denied
      /\ new.challenge = Copy(a).challenge /\ new.record = "CLOSED"
  BY <1>1, <1>2 DEF AccountDoc, Copy, TraderStatus
<1>4. /\ call[a].at = "reaped" /\ Done(a) /\ doc' = Saved(a, new)
      /\ UNCHANGED <<remote, kind, customer, stale, done, clash, glitches>>
  BY <1>2 DEF SaveReaped, Is, local
<1>5. /\ doc' \in AccountDoc /\ doc'.op = doc.op /\ doc'.status = doc.status
      /\ doc'.enabled = doc.enabled /\ doc'.denied = doc.denied
      /\ doc'.challenge = doc.challenge /\ doc'.record \in {doc.record, "CLOSED"}
  BY <1>1, <1>3, <1>4, SavedFields
<1>6. PICK v : Acts(a, v) /\ v.at \in {"idle", "returned"}
  BY <1>1, <1>4, Returns
<1>7. Keeps(a, v)
  BY <1>1, <1>4, <1>5, <1>6 DEF Keeps, Saving, AccessTypeOK
<1>8. ASSUME Calm PROVE Shuts(a, v)
  <2>1. remote = "CLOSED" /\ (doc.enabled => doc.status \in Tradable)
    BY <1>1, <1>4, <1>8, CallFacts DEF CallSound
  <2>2. doc.op # a
    <3>1. doc.op \in Calls \cup {None}
      BY <1>1 DEF AccountDoc
    <3> QED
      BY <1>4, <1>8, <3>1, CallFacts, Distinct DEF ClaimSteps
  <2>3. DenialSound'
    BY <1>1, <1>4, <1>5, <1>6, <1>8, DenialStep DEF Is, Target, AccessInv, Sound
  <2>4. CallSound(a, v, kind, doc', remote', customer)
    BY <1>6 DEF CallSound, BlockSteps, LiftSteps, UnlockSteps
  <2>5. doc'.record = None => doc.record = None
    BY <1>5, Distinct DEF TraderStatus
  <2>6. ReviewSound'
    BY <1>4, <1>5, <1>6, <1>8, <1>1, <2>5, CallFacts, ReviewStep DEF Reviews, ReviewSound
  <2> QED
    BY <1>4, <1>5, <1>6, <2>1, <2>2, <2>3, <2>4, <2>5, <2>6
       DEF Shuts, Minding, Minds, BlockSteps, LiftSteps, StartSteps
<1> QED
  BY <1>4, <1>6, <1>7, <1>8, ShutStep

-----------------------------------------------------------------------------
(* Steps that have the account enabled, and changes of the customer.       *)

(* While all is calm an activation enables what was disabled, so that a    *)
(* LOCK under way falls behind.                                            *)
LEMMA EnableAccountStep ==
  ASSUME AccessInv, Noticed, NEW c \in Calls, EnableAccount(c)
  PROVE  AccessInv'
<1>1. AccessTypeOK /\ c \in Agents /\ doc \in AccountDoc
  BY Distinct, Typed DEF AccessInv
<1>2. call[c].at = "enable" /\ UNCHANGED <<kind, customer, done, remote, clash, glitches>>
  BY DEF EnableAccount, Is
<1>3. CASE /\ doc.status = Target /\ ~doc.denied /\ (kind = "MASTER" => doc.op = c)
           /\ doc' = [doc EXCEPT !.enabled = TRUE, !.record = "ACTIVE", !.op = None]
           /\ done' = done /\ stale' = FALSE /\ Enabled(c)
  <2>1. /\ doc' \in AccountDoc /\ doc'.enabled /\ doc'.record = "ACTIVE"
        /\ doc'.op = None /\ doc'.status = Target
    BY <1>1, <1>3 DEF AccountDoc, TraderStatus
  <2>2. PICK v : Acts(c, v) /\ v.at \in {"idle", "returned", "record"}
    BY <1>1, <1>2, <1>3, Returns, Stepped DEF Enabled, AccessSteps
  <2>3. Keeps(c, v)
    BY <1>1, <1>2, <1>3, <2>1, <2>2 DEF Keeps, Saving, AccessTypeOK
  <2>4. ASSUME Calm' PROVE Sound'
    <3>1. Calm /\ Sound
      BY <1>2, <2>4 DEF Calm, AccessInv
    <3>2. ~doc.enabled /\ doc' # doc
      BY <1>1, <1>2, <1>3, <2>1, <3>1, CallFacts, Distinct DEF CallSound
    <3>3. \A b \in Agents \ {c} :
            call'[b] = call[b] /\ (kind # "MASTER" => call[b].at \notin StartSteps)
      BY <1>1, <1>2, <2>2, <3>1, ActsAt, OnlyOne DEF StartSteps
    <3>4. RemoteSound'
      BY <2>1 DEF RemoteSound, Accounted, Trading
    <3>5. LeavingSound'
      <4>1. ASSUME NEW b \in Agents, Leaving(b)' PROVE FALSE
        <5>1. b # c /\ call'[b] = call[b]
          BY <1>1, <2>2, <4>1, ActsAt DEF Leaving, Is
        <5>2. call[b].at # "settle"
          BY <1>1, <3>1, <3>3, <5>1, CallFacts DEF CallSound, StartSteps
        <5>3. call[b].at = "locked" /\ b \notin behind'
          BY <4>1, <5>1, <5>2 DEF Leaving, Is
        <5> QED
          BY <3>2, <5>1, <5>3 DEF Noticed, Saving
      <4> QED
        BY <4>1 DEF LeavingSound
    <3>6. DocSound'
      BY <2>1 DEF DocSound, Target, Tradable
    <3>7. DenialSound'
      <4>1. ASSUME customer = "BLOCKED", ~Denying' PROVE FALSE
        <5>1. ~Denying
          BY <1>1, <1>2, <2>2, <4>1, ActsAt DEF Denying, Is
        <5>2. Barred(doc, c)
          BY <1>1, <1>2, <3>1, <4>1, <5>1 DEF Sound, DenialSound, Is
        <5> QED
          BY <1>3, <5>2 DEF Barred
      <4> QED
        BY <1>2, <4>1 DEF DenialSound
    <3>8. OneOfEach'
      BY <1>1, <2>2, <3>1, OneStep DEF Sound, BlockSteps, LiftSteps, StartSteps
    <3>9. CallsSound'
      <4> SUFFICES ASSUME NEW b \in Agents
                   PROVE  CallSound(b, call'[b], kind, doc', remote, customer)
        BY <1>2 DEF CallsSound
      <4>1. CASE b = c
        BY <1>1, <2>2, <4>1, ActsAt DEF CallSound, BlockSteps, LiftSteps, UnlockSteps
      <4>2. CASE b # c
        <5>1. CallSound(b, call[b], kind, doc, remote, customer) /\ call'[b] = call[b]
          BY <3>1, <3>3, <4>2, CallFacts
        <5>2. kind # "MASTER" => call[b].at \notin StartSteps
          BY <3>3, <4>2
        <5>3. doc'.status # None /\ doc'.record # None
          BY <2>1, Distinct DEF Target, AccountStatus, Tradable, TraderStatus
        <5> QED
          BY <5>1, <5>2, <5>3 DEF CallSound
      <4> QED
        BY <4>1, <4>2
    <3>10. ReviewSound'
      <4>1. doc'.challenge = doc.challenge
        BY <1>1, <1>3 DEF AccountDoc
      <4>2. doc'.record # None /\ doc'.status = doc.status /\ doc'.op = None
        BY <1>3, <2>1, Distinct DEF TraderStatus
      <4> QED
        BY <1>1, <1>2, <2>2, <3>1, <4>1, <4>2, ReviewStep DEF Reviews, Sound, ReviewSound
    <3> QED
      BY <3>4, <3>5, <3>6, <3>7, <3>8, <3>9, <3>10 DEF Sound
  <2> QED
    BY <1>1, <2>2, <2>3, <2>4, InvStep
<1>4. CASE /\ \E x \in BOOLEAN :
                call' = [call EXCEPT ![c] = [NoAccess EXCEPT !.at = "undo", !.blocked = x]]
           /\ UNCHANGED <<doc, stale>>
  <2>1. PICK x \in BOOLEAN :
          call' = [call EXCEPT ![c] = [NoAccess EXCEPT !.at = "undo", !.blocked = x]]
    BY <1>4
  <2>2. PICK v : v = [NoAccess EXCEPT !.at = "undo", !.blocked = x]
    OBVIOUS
  <2>3. Acts(c, v) /\ v.at = "undo"
    BY <1>2, <2>1, <2>2, NoAccountTyped DEF Acts, NoAccess, AccessCall, AccessSteps
  <2>4. ASSUME Calm PROVE Respects(c, v)
    <3>1. doc.status # None
      BY <1>1, <1>2, <2>4, CallFacts DEF CallSound
    <3> QED
      BY <1>2, <2>3, <3>1
         DEF Respects, Is, Minding, Minds, BlockSteps, LiftSteps, UnlockSteps, StartSteps,
             ClaimSteps, CallSound
  <2> QED
    BY <1>1, <1>2, <1>4, <2>3, <2>4, ReadInv DEF Saving, AccessTypeOK
<1>5. (kind # "MASTER" /\ (doc.denied \/ customer = "BLOCKED")) \in BOOLEAN
  OBVIOUS
<1> QED
  BY <1>3, <1>4, <1>5 DEF EnableAccount

(* What the activation still records on the payment holds nobody up.       *)
LEMMA RecordActivationStep ==
  ASSUME AccessInv, Noticed, NEW c \in Calls, RecordActivation(c)
  PROVE  AccessInv'
<1>1. AccessTypeOK /\ c \in Agents
  BY Distinct DEF AccessInv
<1>2. /\ call[c].at = "record" /\ Done(c) /\ done' = TRUE
      /\ UNCHANGED <<kind, customer, stale, doc, remote, clash, glitches>>
  BY DEF RecordActivation, Is
<1>3. PICK v : Acts(c, v) /\ v.at \in {"idle", "returned"}
  BY <1>1, <1>2, Returns
<1>4. Keeps(c, v)
  BY <1>1, <1>2, <1>3, Typed DEF Keeps, Saving, AccessTypeOK
<1>5. ASSUME Calm' PROVE Sound'
  <2>1. Calm
    BY <1>2, <1>5 DEF Calm
  <2>2. doc.op # c
    BY <1>1, <1>2, <2>1, CallFacts, Distinct DEF ClaimSteps
  <2>3. Respects(c, v)
    BY <1>2, <1>3, <2>2
       DEF Respects, Is, Minding, Minds, BlockSteps, LiftSteps, UnlockSteps, CallSound
  <2> QED
    BY <1>1, <1>2, <1>3, <2>1, <2>3, ReadStep
<1> QED
  BY <1>1, <1>3, <1>4, <1>5, InvStep

(* What the workers write beside all calls: the calls about to save() the  *)
(* document fall behind, and nothing they rely on changes.                 *)
LEMMA AsideStep ==
  ASSUME AccessInv, Noticed, doc' \in AccountDoc,
         UNCHANGED <<kind, customer, remote, stale, done, call, clash, glitches>>,
         doc'.status = doc.status, doc'.enabled = doc.enabled, doc'.denied = doc.denied,
         doc'.record = doc.record, doc'.op = doc.op,
         doc'.challenge = doc.challenge \/ doc.status \in Terminal
  PROVE  AccessInv'
<1>1. AccessTypeOK /\ Copied
  BY DEF AccessInv
<1>2. AccessTypeOK'
  BY <1>1 DEF AccessTypeOK, Noticed
<1>3. \A b \in Agents : call[b].at \in Saving /\ b \notin behind' => b \notin behind /\ doc' = doc
  BY DEF Noticed
<1>4. Copied'
  BY <1>1, <1>3 DEF Copied, Copy
<1>5. ASSUME Sound PROVE Sound'
  <2>1. Minded' = Minded /\ (Accounted => Accounted')
    BY DEF Minded, Accounted, Trading, Refused, Finding, Is
  <2>2. RemoteSound'
    BY <1>5, <2>1 DEF Sound, RemoteSound
  <2>3. LeavingSound'
    <3>1. ASSUME NEW b \in Agents, Leaving(b)' PROVE Leaving(b)
      BY <1>3, <3>1 DEF Leaving, Is, Saving
    <3> QED
      BY <1>5, <2>1, <3>1 DEF Sound, LeavingSound
  <2>4. DocSound' /\ OneOfEach'
    BY <1>5 DEF Sound, DocSound, OneOfEach
  <2>5. DenialSound'
    BY <1>5 DEF Sound, DenialSound, Denying, Is, Barred, Target
  <2>6. ReviewSound'
    BY <1>5 DEF Sound, ReviewSound, Lost, Terminal
  <2>7. CallsSound'
    BY <1>5 DEF Sound, CallsSound, CallSound
  <2> QED
    BY <2>2, <2>3, <2>4, <2>5, <2>6, <2>7 DEF Sound
<1> QED
  BY <1>2, <1>4, <1>5 DEF AccessInv, Calm

LEMMA CloseChallengeStep ==
  ASSUME AccessInv, Noticed, CloseChallenge
  PROVE  AccessInv'
<1>1. doc \in AccountDoc
  BY Typed DEF AccessInv
<1>2. doc' = [doc EXCEPT !.challenge = "CLOSED"] /\ doc.status \in Terminal
  BY DEF CloseChallenge
<1>3. /\ doc' \in AccountDoc
      /\ doc'.status = doc.status /\ doc'.enabled = doc.enabled /\ doc'.denied = doc.denied
      /\ doc'.record = doc.record /\ doc'.op = doc.op
  BY <1>1, <1>2 DEF AccountDoc, ChallengeStatus
<1> QED
  BY <1>2, <1>3, AsideStep DEF CloseChallenge, local

LEMMA FinishReviewStep ==
  ASSUME AccessInv, Noticed, FinishReview
  PROVE  AccessInv'
<1>1. doc \in AccountDoc
  BY Typed DEF AccessInv
<1>2. doc' = [doc EXCEPT !.pending = FALSE]
  BY DEF FinishReview
<1>3. /\ doc' \in AccountDoc /\ doc'.challenge = doc.challenge
      /\ doc'.status = doc.status /\ doc'.enabled = doc.enabled /\ doc'.denied = doc.denied
      /\ doc'.record = doc.record /\ doc'.op = doc.op
  BY <1>1, <1>2 DEF AccountDoc
<1> QED
  BY <1>3, AsideStep DEF FinishReview, local

(* A reactivation or an UNLOCK that ends alone, on what it read.           *)
LEMMA ReopenStep ==
  ASSUME AccessInv, Noticed, NEW c \in Calls, NEW new \in AccountDoc,
         call[c].at \in {"resumed", "unlocked"}, Done(c), Reopen(c, new),
         UNCHANGED <<remote, kind, customer, stale, done, glitches>>,
         new.enabled, new.record = "ACTIVE", new.status \in Tradable, new.op = Copy(c).op,
         new.challenge = Copy(c).challenge, Calm => Copy(c).status # "CLOSED"
  PROVE  AccessInv'
<1>1. AccessTypeOK /\ c \in Agents /\ doc \in AccountDoc /\ call[c].copy \in AccountDoc
  BY Distinct, Typed DEF AccessInv
<1>2. doc' = Saved(c, new) /\ clash' = (clash \/ c \in behind \/ ~Alone(c))
  BY DEF Reopen, Save
<1>3. doc' \in AccountDoc
  BY <1>1, <1>2, SavedFields
<1>4. PICK v : Acts(c, v) /\ v.at \in {"idle", "returned"}
  BY <1>1, Returns
<1>5. Keeps(c, v)
  BY <1>1, <1>2, <1>3, <1>4 DEF Keeps, Saving, AccessTypeOK
<1>6. ASSUME Calm' PROVE Sound'
  <2>1. Calm /\ Sound /\ c \notin behind /\ Alone(c)
    BY <1>1, <1>2, <1>6 DEF Calm, AccessInv, AccessTypeOK
  <2>2. doc = Copy(c) /\ doc' = new
    BY <1>1, <1>2, <2>1, SavesWhole DEF Saving, Copy
  <2>3. \A b \in Agents : call'[b].at \in {"idle", "returned"}
    BY <1>1, <1>4, <2>1, ActsAt DEF Alone, InFlight
  <2>4. doc'.op = None
    <3>1. ASSUME doc.op # None PROVE FALSE
      <4>1. call[doc.op].at \in ClaimSteps
        BY <1>1, <2>1, <3>1, CallFacts
      <4>2. doc.op \in Agents
        BY <1>1, <3>1, Distinct DEF AccountDoc
      <4> QED
        BY <2>1, <4>1, <4>2 DEF Alone, InFlight, ClaimSteps
    <3> QED
      BY <2>2, <3>1 DEF Copy
  <2>5. customer = "ACTIVE"
    BY <1>1, <2>1, CallFacts DEF CallSound, LiftSteps, UnlockSteps
  <2>6. RemoteSound' /\ DocSound'
    BY <2>2, <2>4 DEF RemoteSound, Accounted, Trading, DocSound
  <2>7. LeavingSound'
    BY <2>3 DEF LeavingSound, Leaving, Is
  <2>8. DenialSound'
    BY <2>5 DEF DenialSound
  <2>9. OneOfEach'
    BY <2>3 DEF OneOfEach, BlockSteps, LiftSteps, StartSteps
  <2>10. CallsSound'
    BY <2>3 DEF CallsSound, CallSound, BlockSteps, LiftSteps, UnlockSteps
  <2>11. ReviewSound'
    <3>1. doc'.record # None /\ doc'.status \notin {"FUNDED_REVIEW", "EXPIRED"}
      BY <2>2, Distinct DEF TraderStatus, Tradable
    <3> QED
      BY <1>1, <1>4, <2>1, <2>2, <2>4, <3>1, ReviewStep DEF Reviews, Sound
  <2> QED
    BY <2>6, <2>7, <2>8, <2>9, <2>10, <2>11 DEF Sound
<1> QED
  BY <1>1, <1>4, <1>5, <1>6, InvStep

LEMMA SaveResumedStep ==
  ASSUME AccessInv, Noticed, NEW c \in Calls, SaveResumed(c)
  PROVE  AccessInv'
<1>1. AccessTypeOK /\ c \in Agents /\ call[c].copy \in AccountDoc
  BY Distinct, Typed DEF AccessInv
<1>2. PICK new : new = [Copy(c) EXCEPT !.record = "ACTIVE", !.denied = FALSE, !.enabled = TRUE]
  OBVIOUS
<1>3. /\ new \in AccountDoc /\ new.op = Copy(c).op /\ new.status = Copy(c).status
      /\ new.enabled /\ new.record = "ACTIVE" /\ new.challenge = Copy(c).challenge
  BY <1>1, <1>2 DEF AccountDoc, Copy, TraderStatus
<1>4. /\ call[c].at = "resumed" /\ Done(c) /\ Reopen(c, new)
      /\ UNCHANGED <<remote, kind, customer, stale, done, glitches>>
  BY <1>2 DEF SaveResumed, Is, local
<1>5. CASE new.status \in Tradable
  BY <1>3, <1>4, <1>5, ReopenStep DEF Tradable
<1>6. CASE new.status \notin Tradable
  <2>1. ~Calm
    BY <1>1, <1>3, <1>4, <1>6, CallFacts DEF CallSound, Copy
  <2>2. PICK v : Acts(c, v) /\ v.at \in {"idle", "returned"}
    BY <1>1, <1>4, Returns
  <2>3. doc' = Saved(c, new) /\ clash' = (clash \/ c \in behind \/ ~Alone(c))
    BY <1>4 DEF Reopen, Save
  <2>4. doc' \in AccountDoc
    BY <1>1, <1>3, <2>3, SavedFields
  <2>5. Keeps(c, v)
    BY <1>1, <1>4, <2>2, <2>3, <2>4 DEF Keeps, Saving, AccessTypeOK
  <2>6. ~Calm'
    BY <1>1, <1>4, <2>1, <2>3 DEF Calm, AccessTypeOK
  <2> QED
    BY <1>1, <2>2, <2>5, <2>6, InvStep
<1> QED
  BY <1>5, <1>6

LEMMA SaveUnlockedStep ==
  ASSUME AccessInv, Noticed, NEW c \in Calls, SaveUnlocked(c)
  PROVE  AccessInv'
<1>1. AccessTypeOK /\ c \in Agents /\ call[c].copy \in AccountDoc
  BY Distinct, Typed DEF AccessInv
<1>2. PICK new :
        new = [Copy(c) EXCEPT !.record = "ACTIVE", !.status = Target, !.enabled = TRUE]
  OBVIOUS
<1>3. /\ new \in AccountDoc /\ new.op = Copy(c).op /\ new.status \in Tradable
      /\ new.enabled /\ new.record = "ACTIVE" /\ new.challenge = Copy(c).challenge
  BY <1>1, <1>2 DEF AccountDoc, Copy, TraderStatus, AccountStatus, Target, Tradable
<1>4. /\ call[c].at = "unlocked" /\ Done(c) /\ Reopen(c, new)
      /\ UNCHANGED <<remote, kind, customer, stale, done, glitches>>
  BY <1>2 DEF SaveUnlocked, Is, local
<1>5. Calm => Copy(c).status # "CLOSED"
  BY <1>1, <1>4, CallFacts DEF CallSound, Copy
<1> QED
  BY <1>3, <1>4, <1>5, ReopenStep

(* A block that no other change of the customer and no UNLOCK is under way *)
(* with has the account denied next.                                       *)
LEMMA BlockCustomerStep ==
  ASSUME AccessInv, Noticed, NEW c \in Calls, BlockCustomer(c)
  PROVE  AccessInv'
<1>1. AccessTypeOK /\ c \in Agents /\ doc \in AccountDoc
  BY Distinct, Typed DEF AccessInv
<1>2. /\ call[c].at = "idle" /\ Step(c, "deny") /\ customer' = "BLOCKED"
      /\ clash' = (clash \/ ChangingStatus \/ Unlocking)
      /\ UNCHANGED <<kind, doc, remote, stale, done, glitches>>
  BY DEF BlockCustomer, Is
<1>3. PICK v : Acts(c, v) /\ v.at = "deny"
  BY <1>1, <1>2, Stepped DEF AccessSteps
<1>4. Keeps(c, v)
  BY <1>1, <1>2, <1>3 DEF Keeps, Saving, AccessTypeOK
<1>5. ASSUME Calm' PROVE Sound'
  <2>1. Calm /\ Sound /\ ~ChangingStatus /\ ~Unlocking
    BY <1>1, <1>2, <1>5 DEF Calm, AccessInv, AccessTypeOK
  <2>2. \A b \in Agents : call[b].at \notin BlockSteps \cup LiftSteps \cup UnlockSteps
    BY <2>1 DEF ChangingStatus, Unlocking, BlockSteps, LiftSteps, UnlockSteps
  <2>3. Minding(c, v)
    BY <1>2, <1>3 DEF Minding, Minds
  <2>4. RemoteSound'
    <3>1. Accounted => Accounted'
      BY <1>2, <2>2 DEF Accounted, Finding, Is, BlockSteps
    <3> QED
      BY <1>1, <1>3, <2>1, <2>3, <3>1, RemoteStep DEF Sound
  <2>5. LeavingSound'
    BY <1>1, <1>3, <2>1, <2>3, LeavingStep DEF Sound
  <2>6. DocSound'
    <3>1. doc.op # c
      BY <1>1, <1>2, <2>1, CallFacts, Distinct DEF ClaimSteps
    <3> QED
      BY <1>1, <1>2, <1>3, <2>1, <3>1, DocStep DEF Sound, DocSound
  <2>7. DenialSound'
    BY <1>1, <1>3, ActsAt DEF DenialSound, Denying, Is
  <2>8. OneOfEach'
    BY <1>1, <1>3, <2>1, <2>2, OneStep DEF Sound, StartSteps
  <2>9. CallsSound'
    <3> SUFFICES ASSUME NEW b \in Agents
                 PROVE  CallSound(b, call'[b], kind, doc, remote, "BLOCKED")
      BY <1>2 DEF CallsSound
    <3>1. CASE b = c
      BY <1>1, <1>3, <3>1, ActsAt DEF CallSound, BlockSteps, LiftSteps, UnlockSteps
    <3>2. CASE b # c
      <4>1. CallSound(b, call[b], kind, doc, remote, customer) /\ call'[b] = call[b]
        BY <1>1, <1>3, <2>1, <3>2, CallFacts, ActsAt
      <4> QED
        BY <2>2, <4>1 DEF CallSound
    <3> QED
      BY <3>1, <3>2
  <2>10. ReviewSound'
    BY <1>1, <1>2, <1>3, <2>1, ReviewStep DEF Reviews, Sound, ReviewSound
  <2> QED
    BY <2>4, <2>5, <2>6, <2>7, <2>8, <2>9, <2>10 DEF Sound
<1> QED
  BY <1>1, <1>3, <1>4, <1>5, InvStep

(* A reactivation that begins alone finds every call returned.           *)
LEMMA ReactivateCustomerStep ==
  ASSUME AccessInv, Noticed, NEW c \in Calls, ReactivateCustomer(c)
  PROVE  AccessInv'
<1>1. AccessTypeOK /\ c \in Agents /\ doc \in AccountDoc
  BY Distinct, Typed DEF AccessInv
<1>2. /\ call[c].at = "idle" /\ Step(c, "lift") /\ customer' = "ACTIVE"
      /\ clash' = (clash \/ ~Alone(c))
      /\ UNCHANGED <<kind, doc, remote, stale, done, glitches>>
  BY DEF ReactivateCustomer, Is
<1>3. PICK v : Acts(c, v) /\ v.at = "lift"
  BY <1>1, <1>2, Stepped DEF AccessSteps
<1>4. Keeps(c, v)
  BY <1>1, <1>2, <1>3 DEF Keeps, Saving, AccessTypeOK
<1>5. ASSUME Calm' PROVE Sound'
  <2>1. Calm /\ Sound /\ Alone(c)
    BY <1>1, <1>2, <1>5 DEF Calm, AccessInv, AccessTypeOK
  <2>2. \A b \in Agents : call[b].at \in {"idle", "returned"}
    BY <1>2, <2>1 DEF Alone, InFlight
  <2>3. \A b \in Agents : call'[b].at \in {"idle", "returned"} \/ (b = c /\ call'[b] = v)
    BY <1>1, <1>3, <2>2, ActsAt
  <2>4. ~Minded /\ ~Finding
    BY <2>2 DEF Minded, Minds, Finding, Is
  <2>5. RemoteSound'
    BY <1>2, <2>1, <2>4 DEF Sound, RemoteSound, Accounted
  <2>6. LeavingSound'
    BY <1>3, <2>3 DEF LeavingSound, Leaving, Is
  <2>7. DocSound'
    <3>1. doc.op = None
      <4>1. ASSUME doc.op # None PROVE FALSE
        <5>1. call[doc.op].at \in ClaimSteps
          BY <1>1, <2>1, <4>1, CallFacts
        <5>2. doc.op \in Agents
          BY <1>1, <4>1, Distinct DEF AccountDoc
        <5> QED
          BY <2>2, <5>1, <5>2 DEF ClaimSteps
      <4> QED
        BY <4>1
    <3> QED
      BY <1>2, <2>1, <3>1 DEF Sound, DocSound
  <2>8. DenialSound'
    BY <1>2 DEF DenialSound
  <2>9. OneOfEach'
    BY <1>3, <2>3 DEF OneOfEach, BlockSteps, LiftSteps, StartSteps
  <2>10. CallsSound'
    BY <1>2, <1>3, <2>3 DEF CallsSound, CallSound, BlockSteps, LiftSteps, UnlockSteps
  <2>11. ReviewSound'
    BY <1>1, <1>2, <1>3, <2>1, ReviewStep DEF Reviews, Sound, ReviewSound
  <2> QED
    BY <2>5, <2>6, <2>7, <2>8, <2>9, <2>10, <2>11 DEF Sound
<1> QED
  BY <1>1, <1>3, <1>4, <1>5, InvStep

-----------------------------------------------------------------------------
(* The theorems.                                                           *)

(* Nobody is in flight at first, and Trader has no account.              *)
LEMMA AccessInitInductive == AccessInit => AccessInv
<1> SUFFICES ASSUME AccessInit PROVE AccessInv
  OBVIOUS
<1>1. \A a \in Agents : call[a] = NoAccess /\ call[a].at = "idle"
  BY DEF AccessInit, NoAccess
<1>2. /\ doc \in AccountDoc /\ ~doc.enabled /\ doc.op = None /\ doc.record = None
      /\ kind = "MASTER" => doc.status = "FUNDED_REVIEW" /\ doc.challenge = "COMPLETED"
  <2>1. CASE kind # "MASTER" /\ doc = NoAccount
    BY <2>1, NoAccountTyped DEF NoAccount
  <2>2. ASSUME NEW pending \in BOOLEAN, doc = AtReview(pending)
        PROVE  <1>2
    BY <2>2, NoAccountTyped DEF AtReview, NoAccount, AccountDoc, AccountStatus, ChallengeStatus
  <2> QED
    BY <2>1, <2>2 DEF AccessInit
<1>3. AccessTypeOK
  <2>1. call \in [Agents -> AccessCall]
    BY NoAccountTyped DEF AccessInit
  <2>2. glitches \in 0..MaxFaults
    BY AccessAssumption DEF AccessInit
  <2> QED
    BY <1>2, <2>1, <2>2 DEF AccessInit, AccessTypeOK
<1>4. Copied
  BY <1>1 DEF Copied, Saving
<1>5. RemoteSound /\ LeavingSound /\ DocSound /\ DenialSound
  BY <1>1, <1>2, Distinct
     DEF AccessInit, RemoteSound, LeavingSound, DocSound, DenialSound, TraderStatus
<1>6. OneOfEach
  BY <1>1 DEF OneOfEach, BlockSteps, LiftSteps, StartSteps
<1>7. CallsSound
  BY <1>1 DEF CallsSound, CallSound, BlockSteps, LiftSteps, UnlockSteps
<1>8. ReviewSound
  BY <1>2 DEF ReviewSound
<1> QED
  BY <1>3, <1>4, <1>5, <1>6, <1>7, <1>8 DEF AccessInv, Sound

(* Nothing happens: what the invariant says is said of the same state.     *)
LEMMA AccessStutters == AccessInv /\ UNCHANGED accessVars => AccessInv'
<1> SUFFICES ASSUME AccessInv, UNCHANGED accessVars PROVE AccessInv'
  OBVIOUS
<1>1. /\ kind' = kind /\ doc' = doc /\ customer' = customer /\ remote' = remote
      /\ stale' = stale /\ done' = done /\ call' = call /\ behind' = behind
      /\ clash' = clash /\ glitches' = glitches
  BY DEF accessVars
<1>2. AccessTypeOK' /\ Copied'
  BY <1>1 DEF AccessInv, AccessTypeOK, Copied, Copy
<1>3. Calm' => Calm
  BY <1>1 DEF Calm
<1>4. Sound => RemoteSound' /\ LeavingSound' /\ DocSound'
  BY <1>1
     DEF Sound, RemoteSound, Minded, Accounted, Finding, Is, LeavingSound, Leaving, DocSound
<1>5. Sound => DenialSound' /\ OneOfEach' /\ CallsSound'
  BY <1>1 DEF Sound, DenialSound, Denying, Is, Barred, Target, OneOfEach, CallsSound
<1>6. Sound => ReviewSound'
  BY <1>1 DEF Sound, ReviewSound, Lost
<1> QED
  BY <1>2, <1>3, <1>4, <1>5, <1>6 DEF AccessInv, Sound

LEMMA BeginInductive ==
  ASSUME AccessInv, Noticed, NEW c \in Calls, Begin(c)
  PROVE  AccessInv'
<1>1. CASE StartAccount(c)
  BY <1>1, StartAccountStep
<1>2. CASE ApproveFunded(c)
  BY <1>2, ApproveFundedStep
<1>3. CASE BlockCustomer(c)
  BY <1>3, BlockCustomerStep
<1>4. CASE ReactivateCustomer(c)
  BY <1>4, ReactivateCustomerStep
<1>5. CASE LockAccount(c)
  BY <1>5, LockAccountStep
<1>6. CASE UnlockAccount(c)
  BY <1>6, UnlockAccountStep
<1>7. CASE CloseAccount(c)
  BY <1>7, CloseAccountStep
<1>8. CASE CancelDemo(c)
  BY <1>8, EndDemoStep, Distinct DEF CancelDemo, Terminal
<1> QED
  BY <1>1, <1>2, <1>3, <1>4, <1>5, <1>6, <1>7, <1>8 DEF Begin

LEMMA ContinueInductive ==
  ASSUME AccessInv, Noticed, NEW c \in Calls, Continue(c)
  PROVE  AccessInv'
<1>1. CASE CreateAccount(c)
  BY <1>1, CreateAccountStep
<1>2. CASE ClaimApproval(c)
  BY <1>2, ClaimApprovalStep
<1>3. CASE ProvisionTradingAccount(c)
  BY <1>3, ProvisionStep
<1>4. CASE CommitLifecycle(c)
  BY <1>4, CommitStep
<1>5. CASE AssertAccess(c)
  BY <1>5, AssertAccessStep
<1>6. CASE ActivateTradingAccount(c)
  BY <1>6, ActivateStep
<1>7. CASE EnableAccount(c)
  BY <1>7, EnableAccountStep
<1>8. CASE StageTradingAccount(c)
  BY <1>8, StageStep
<1>9. CASE SettleFailure(c)
  BY <1>9, SettleFailureStep
<1>10. CASE RollbackApproval(c)
  BY <1>10, RollbackApprovalStep
<1>11. CASE DenyAccess(c)
  BY <1>11, DenyAccessStep
<1>12. CASE FindDenied(c)
  BY <1>12, FindDeniedStep
<1>13. CASE PauseDenied(c)
  BY <1>13, PauseDeniedStep
<1>14. CASE SavePaused(c)
  BY <1>14, SavePausedStep
<1>15. CASE LiftDenial(c)
  BY <1>15, LiftDenialStep
<1>16. CASE SaveCleared(c)
  BY <1>16, SaveClearedStep
<1>17. CASE ResumeAccount(c)
  BY <1>17, ResumeAccountStep
<1>18. CASE SaveResumed(c)
  BY <1>18, SaveResumedStep
<1>19. CASE PauseLocked(c)
  BY <1>19, PauseLockedStep
<1>20. CASE SaveLocked(c)
  BY <1>20, SaveLockedStep
<1>21. CASE SaveUnlocked(c)
  BY <1>21, SaveUnlockedStep
<1>22. CASE CloseAtTrader(c)
  BY <1>22, CloseAtTraderStep
<1>23. CASE SaveClosed(c)
  BY <1>23, SaveClosedStep
<1>24. CASE RecordActivation(c)
  BY <1>24, RecordActivationStep
<1> QED
  BY <1>1, <1>2, <1>3, <1>4, <1>5, <1>6, <1>7, <1>8, <1>9, <1>10, <1>11, <1>12, <1>13,
     <1>14, <1>15, <1>16, <1>17, <1>18, <1>19, <1>20, <1>21, <1>22, <1>23,
     <1>24 DEF Continue

LEMMA FinishInductive ==
  ASSUME AccessInv, Noticed, NEW a \in Agents, Finish(a)
  PROVE  AccessInv'
BY SaveReviewedStep, ReapAtTraderStep, SaveReapedStep DEF Finish

LEMMA ReconcileInductive ==
  ASSUME AccessInv, Noticed, Reconcile
  PROVE  AccessInv'
<1>1. CASE FindOrphan
  BY <1>1, FindOrphanStep
<1>2. CASE FindStaleApproval
  BY <1>2, FindStaleApprovalStep
<1>3. CASE StageStale
  BY <1>3, StageStaleStep
<1>4. CASE RecoverStale
  BY <1>4, RecoverStaleStep
<1>5. CASE Finish(Reconciler)
  BY <1>5, FinishInductive, Distinct
<1>6. CASE CloseChallenge
  BY <1>6, CloseChallengeStep
<1> QED
  BY <1>1, <1>2, <1>3, <1>4, <1>5, <1>6 DEF Reconcile

(* One lemma per action shows the step.                                  *)
LEMMA AccessStepInductive == AccessInv /\ [AccessNext]_accessVars => AccessInv'
<1> SUFFICES ASSUME AccessInv, [AccessNext]_accessVars PROVE AccessInv'
  OBVIOUS
<1>1. ASSUME Noticed, NEW c \in Calls, Begin(c) \/ Continue(c) \/ Finish(c)
      PROVE  AccessInv'
  BY <1>1, BeginInductive, ContinueInductive, FinishInductive, Distinct
<1>2. CASE Noticed /\ Reconcile
  BY <1>2, ReconcileInductive
<1>3. CASE Noticed /\ ExpireTrial
  BY <1>3, EndDemoStep, Distinct DEF ExpireTrial, Terminal
<1>4. CASE Noticed /\ ApprovalStale
  BY <1>4, ApprovalStaleStep
<1>5. ASSUME Noticed, NEW a \in Agents, AgentCrashes(a)
      PROVE  AccessInv'
  BY <1>5, AgentCrashesStep
<1>6. CASE Noticed /\ FinishReview
  BY <1>6, FinishReviewStep
<1>7. CASE UNCHANGED accessVars
  BY <1>7, AccessStutters
<1> QED
  BY <1>1, <1>2, <1>3, <1>4, <1>5, <1>6, <1>7 DEF AccessNext, AccessStep

(* Every step of every call keeps the invariant, whatever the bounds on the*)
(* calls, on those at once and on the faults.                              *)
THEOREM AccessInductive == AccessSafetySpec => []AccessInv
<1>1. AccessInit => AccessInv
  BY AccessInitInductive
<1>2. AccessInv /\ [AccessNext]_accessVars => AccessInv'
  BY AccessStepInductive
<1> QED
  BY <1>1, <1>2, PTL DEF AccessSafetySpec

(* The document keeps to its schema and each call to its steps, also after *)
(* faults and clashes.                                                     *)
THEOREM AccessTyped == AccessSafetySpec => []AccessTypeOK
<1>1. AccessInv => AccessTypeOK
  BY DEF AccessInv
<1> QED
  BY <1>1, AccessInductive, PTL

(* With nobody in flight what is active at Trader is accounted for by the  *)
(* document.                                                               *)
LEMMA QuietIsAccounted ==
  ASSUME AccessInv, Undisturbed
  PROVE  Sound /\ ~Denying /\ (remote = "ACTIVE" => doc.enabled)
<1>1. Sound
  BY DEF AccessInv, Undisturbed, Calm
<1>2. ~Minded /\ ~Finding /\ ~Denying
  BY DEF Undisturbed, Quiet, InFlight, Minded, Minds, Finding, Denying, Is
<1> QED
  BY <1>1, <1>2 DEF Sound, RemoteSound, Accounted, Trading

(* No account that is disabled here trades at Trader once all calls have   *)
(* returned: every activation, rollback, lock, block and cancellation      *)
(* undoes at Trader what it or another had done there.                     *)
THEOREM DisabledStaysShut == AccessSafetySpec => []DisabledIsShut
<1>1. AccessInv => DisabledIsShut
  BY QuietIsAccounted DEF DisabledIsShut
<1> QED
  BY <1>1, AccessInductive, PTL

(* A blocked customer's account is disabled and not active at Trader once  *)
(* all calls have returned, however the block fell between the steps of    *)
(* the others.                                                             *)
THEOREM BlockedStaysShut == AccessSafetySpec => []BlockedIsShut
<1>1. AccessInv => BlockedIsShut
  BY QuietIsAccounted DEF BlockedIsShut, Sound, DenialSound
<1> QED
  BY <1>1, AccessInductive, PTL

(* A master account at its review can be approved once all calls have      *)
(* returned: no approval leaves its claim behind, and none that the block, *)
(* another approval or the recovery ended has its challenge paused instead *)
(* of the funded account.                                                  *)
THEOREM ReviewStaysApprovable == AccessSafetySpec => []ReviewIsApprovable
<1>1. AccessInv => ReviewIsApprovable
  <2> SUFFICES ASSUME AccessInv, Undisturbed, kind = "MASTER", doc.status = "FUNDED_REVIEW",
                      ~doc.pending
               PROVE  MayClaim(doc)
    BY DEF ReviewIsApprovable
  <2>1. Sound /\ \A a \in Agents : call[a].at \in {"idle", "returned"}
    BY QuietIsAccounted DEF Undisturbed, Quiet, InFlight
  <2>2. doc.op = None
    <3>1. doc.op # None => doc.op \in Agents
      BY Typed, Distinct DEF AccessInv, AccountDoc
    <3> QED
      BY <2>1, <3>1 DEF Sound, DocSound, ClaimSteps
  <2>3. doc.challenge = "COMPLETED"
    BY <2>1 DEF Sound, ReviewSound, Lost
  <2> QED
    BY <2>2, <2>3 DEF MayClaim
<1> QED
  BY <1>1, AccessInductive, PTL
=============================================================================
