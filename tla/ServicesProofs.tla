--------------------------- MODULE ServicesProofs ---------------------------
(* Proofs about the services around an account, for every value of their   *)
(* constants: the password of its Trader account (CredentialVault), the    *)
(* support cases of its owner (SupportDesk), the snapshots of its          *)
(* valuation (SnapshotPipeline) and the repair of its trading days         *)
(* (TradingDays), and, with the payment and the customer's identity, the   *)
(* services side by side (MCServices).                                     *)
EXTENDS MCServices, PaymentProofs, IdentityProofs

-----------------------------------------------------------------------------
(* The support desk.                                                       *)

(* A clerk that has a case in hand knows no mail of it that is not recorded*)
(* by now; from the save on, its own mail is recorded too.                 *)
ClerkOK(c) ==
  LET w == clerk[c] IN
    /\ w.at \notin {"idle", "find", "load"} =>
         /\ w.id \in Opened
         /\ w.copy.ids \cup w.copy.messages \subseteq cases[w.id].messages
    /\ w.at \in {"reload", "file", "send", "sent"} =>
         w.mail \in Mails /\ w.mail \in cases[w.id].messages
    /\ w.at \in {"find", "load"} => w.mail \in Mails
    /\ w.at = "load" /\ w.id # 0 => w.id \in Opened

CasesOK ==
  \A i \in CaseIds :
    /\ cases[i].ids \subseteq cases[i].messages
    /\ cases[i].status = "ABSENT" => cases[i] = NoCase

DeskInv ==
  /\ DeskTypeOK
  /\ CasesOK
  /\ \A c \in Clerks : ClerkOK(c)
  /\ AckedIsRecorded

(* No step takes a mail out of a case or a case away.                      *)
CasesKept ==
  /\ cases' \in [CaseIds -> Case] /\ CasesOK'
  /\ \A i \in CaseIds : cases[i].messages \subseteq cases'[i].messages
  /\ Opened \subseteq Opened'

LEMMA DeskFacts ==
  ASSUME SupportAssumption
  PROVE  /\ NoMail \notin Mails /\ NoCase \in Case /\ NoWork \in ClerkWork
         /\ NoWork.at = "idle" /\ Opened \subseteq CaseIds /\ CaseIds \subseteq 0..MaxCases
<1>1. MaxCases \in Nat
  BY SupportAssumption
<1>2. NoCase \in Case
  BY DEF NoCase, Case, CaseStatus
<1> QED
  BY <1>1, <1>2, SupportAssumption DEF Opened, NoWork, ClerkWork, ClerkStep, CaseIds

(* A save adds mails to a case that is open.                               *)
LEMMA CaseSaved ==
  ASSUME DeskInv, NEW c \in Clerks, clerk[c].id \in Opened, NEW new \in Case,
         SaveCase(c, new), new.status \in {Mine(c).status} \cup (CaseStatus \ {"ABSENT"}),
         new.ids \subseteq cases[clerk[c].id].messages \cup (new.messages \ Mine(c).messages)
  PROVE  /\ CasesKept
         /\ new.messages \ Mine(c).messages \subseteq cases'[clerk[c].id].messages
<1>1. PICK i : i = clerk[c].id /\ i \in CaseIds /\ cases[i].status # "ABSENT"
  BY DEF Opened
<1>2. cases \in [CaseIds -> Case] /\ Mine(c) \in Case
  BY DEF DeskInv, DeskTypeOK, ClerkWork, Mine
<1>3. PICK saved :
        saved = [status   |-> IF new.status # Mine(c).status THEN new.status ELSE cases[i].status,
                 email    |-> cases[i].email \/ new.email,
                 ids      |-> IF new.ids # Mine(c).ids THEN new.ids ELSE cases[i].ids,
                 messages |-> cases[i].messages \cup (new.messages \ Mine(c).messages)]
  OBVIOUS
<1>4. saved \in Case
  BY <1>1, <1>2, <1>3 DEF Case
<1>5. cases' = [cases EXCEPT ![i] = saved]
  BY <1>1, <1>3 DEF SaveCase
<1>6. /\ cases' \in [CaseIds -> Case] /\ cases'[i] = saved
      /\ \A j \in CaseIds \ {i} : cases'[j] = cases[j]
  BY <1>1, <1>2, <1>4, <1>5
<1>7. /\ saved.messages = cases[i].messages \cup (new.messages \ Mine(c).messages)
      /\ saved.ids \subseteq saved.messages
      /\ saved.status # "ABSENT"
  BY <1>1, <1>3 DEF DeskInv, CasesOK
<1>8. CasesOK'
  BY <1>1, <1>6, <1>7 DEF DeskInv, CasesOK
<1>9. Opened \subseteq Opened'
  BY <1>1, <1>6, <1>7 DEF Opened
<1> QED
  BY <1>1, <1>6, <1>7, <1>8, <1>9 DEF CasesKept

(* What a step of one clerk has to show.                                   *)
LEMMA DeskKept ==
  ASSUME DeskInv, NEW c \in Clerks, NEW w \in ClerkWork,
         clerk' = [clerk EXCEPT ![c] = w], ClerkOK(c)',
         CasesKept, acked' \subseteq Mails,
         \A m \in acked' \ acked : \E i \in CaseIds : m \in cases'[i].messages,
         failures' \in 0..MaxFailures
  PROVE  DeskInv'
<1>1. /\ clerk \in [Clerks -> ClerkWork] /\ clerk' \in [Clerks -> ClerkWork]
      /\ \A d \in Clerks \ {c} : clerk'[d] = clerk[d]
  BY DEF DeskInv, DeskTypeOK
<1>2. \A d \in Clerks : ClerkOK(d)'
  <2> SUFFICES ASSUME NEW d \in Clerks, d # c PROVE ClerkOK(d)'
    OBVIOUS
  <2>1. ClerkOK(d) /\ clerk'[d] = clerk[d]
    BY <1>1 DEF DeskInv
  <2>2. clerk[d].at \in {"reload", "file", "send", "sent"} =>
          clerk[d].at \notin {"idle", "find", "load"}
    OBVIOUS
  <2>3. Opened \subseteq CaseIds
    BY DEF Opened
  <2> QED
    BY <2>1, <2>2, <2>3 DEF ClerkOK, CasesKept
<1>3. AckedIsRecorded'
  BY DEF DeskInv, AckedIsRecorded, CasesKept
<1> QED
  BY <1>1, <1>2, <1>3 DEF DeskInv, DeskTypeOK, CasesKept

(* The same for a step that saves nothing and acknowledges nothing.        *)
LEMMA DeskMoved ==
  ASSUME DeskInv, NEW c \in Clerks, NEW w \in ClerkWork,
         clerk' = [clerk EXCEPT ![c] = w], ClerkOK(c)',
         UNCHANGED <<cases, acked>>, failures' \in 0..MaxFailures
  PROVE  DeskInv'
<1>1. CasesKept
  BY DEF DeskInv, DeskTypeOK, CasesOK, CasesKept, Opened
<1> QED
  BY <1>1, DeskKept DEF DeskInv, DeskTypeOK

LEMMA WorkDone ==
  ASSUME DeskInv, NEW c \in Clerks, clerk' = [clerk EXCEPT ![c] = NoWork]
  PROVE  NoWork \in ClerkWork /\ clerk'[c] = NoWork /\ ClerkOK(c)'
<1>1. clerk'[c] = NoWork
  BY DEF DeskInv, DeskTypeOK
<1> QED
  BY <1>1, DeskFacts, SupportAssumption DEF ClerkOK

LEMMA FailsTyped ==
  ASSUME DeskInv, Fails
  PROVE  failures' \in 0..MaxFailures
BY SupportAssumption DEF DeskInv, DeskTypeOK, Fails

-----------------------------------------------------------------------------
(* One lemma for each kind of step.                                        *)

LEMMA ReceiveMailStep ==
  ASSUME DeskInv, NEW c \in Clerks, ReceiveMail(c)
  PROVE  DeskInv'
<1>1. PICK m \in Mails :
        IF \E i \in Opened : m \in cases[i].ids
        THEN acked' = acked \cup {m} /\ UNCHANGED clerk
        ELSE /\ clerk' = [clerk EXCEPT ![c] = [NoWork EXCEPT !.at = "find", !.mail = m]]
             /\ UNCHANGED acked
  BY DEF ReceiveMail
<1>2. CASE \E i \in Opened : m \in cases[i].ids
  <2>1. \E i \in CaseIds : m \in cases[i].messages
    BY <1>2 DEF DeskInv, CasesOK, Opened
  <2> QED
    BY <1>1, <1>2, <2>1 DEF ReceiveMail, DeskInv, DeskTypeOK, CasesOK, Opened, AckedIsRecorded,
      ClerkOK
<1>3. CASE ~\E i \in Opened : m \in cases[i].ids
  <2>1. PICK w : w = [NoWork EXCEPT !.at = "find", !.mail = m]
    OBVIOUS
  <2>2. w \in ClerkWork /\ w.at = "find" /\ w.mail = m
    BY <2>1, DeskFacts, SupportAssumption DEF ClerkWork, ClerkStep, NoWork
  <2>3. clerk' = [clerk EXCEPT ![c] = w] /\ clerk'[c] = w
    BY <1>1, <1>3, <2>1 DEF DeskInv, DeskTypeOK
  <2>4. ClerkOK(c)'
    BY <2>2, <2>3 DEF ClerkOK
  <2> QED
    BY <1>1, <1>3, <2>2, <2>3, <2>4, DeskMoved DEF ReceiveMail, DeskInv, DeskTypeOK
<1> QED
  BY <1>2, <1>3

LEMMA FindThreadStep ==
  ASSUME DeskInv, NEW c \in Clerks, FindThread(c)
  PROVE  DeskInv'
<1> DEFINE thread == {i \in Opened : cases[i].email /\ cases[i].status # "CLOSED"}
<1>0. PICK j : j = IF thread = {} THEN 0 ELSE CHOOSE i \in thread : \A k \in thread : i >= k
  OBVIOUS
<1>1. clerk' = [clerk EXCEPT ![c] = [@ EXCEPT !.at = "load", !.id = j]]
  BY <1>0 DEF FindThread
<1>2. clerk[c] \in ClerkWork /\ clerk[c].at = "find" /\ ClerkOK(c)
  BY DEF DeskInv, DeskTypeOK, FindThread, ClerkAt
<1>3. j \in 0..MaxCases /\ (j # 0 => j \in Opened)
  <2>1. MaxCases \in Nat /\ thread \subseteq CaseIds
    BY SupportAssumption DEF Opened
  <2>2. CaseIds \subseteq Nat /\ IsFiniteSet(CaseIds)
    BY <2>1, FS_Interval DEF CaseIds
  <2>3. IsFiniteSet(thread) /\ thread \in SUBSET Nat
    BY <2>1, <2>2, FS_Subset
  <2> HIDE DEF thread
  <2>4. thread # {} => \E i \in thread : \A k \in thread : i >= k
    BY <2>3, LargestIn
  <2>5. thread # {} => j \in thread
    BY <1>0, <2>4
  <2>6. thread = {} => j = 0
    BY <1>0
  <2>7. CaseIds \subseteq 0..MaxCases /\ 0 \in 0..MaxCases
    BY <2>1 DEF CaseIds
  <2>8. thread \subseteq Opened
    BY DEF thread
  <2> QED
    BY <2>1, <2>5, <2>6, <2>7, <2>8
<1>4. PICK w : w = [clerk[c] EXCEPT !.at = "load", !.id = j]
  OBVIOUS
<1>5. w \in ClerkWork /\ w.at = "load" /\ w.mail = clerk[c].mail /\ w.id = j
  BY <1>2, <1>3, <1>4 DEF ClerkWork, ClerkStep
<1>6. clerk' = [clerk EXCEPT ![c] = w] /\ clerk'[c] = w
  BY <1>1, <1>4 DEF DeskInv, DeskTypeOK
<1>7. ClerkOK(c)'
  BY <1>2, <1>3, <1>5, <1>6 DEF ClerkOK, FindThread, Opened
<1> QED
  BY <1>5, <1>6, <1>7, DeskMoved DEF FindThread, DeskInv, DeskTypeOK

(* A case loaded is a case opened, and what is loaded is what is stored.   *)
LEMMA CaseLoaded ==
  ASSUME DeskInv, NEW c \in Clerks, NEW i \in Opened, NEW step \in ClerkStep,
         step \notin {"reload", "file", "send", "sent", "find", "load"},
         LoadCase(c, i, step), UNCHANGED <<cases, acked, failures>>
  PROVE  DeskInv'
<1>1. clerk[c] \in ClerkWork /\ cases[i] \in Case /\ i \in 0..MaxCases
      /\ cases[i].ids \subseteq cases[i].messages
  BY DeskFacts, SupportAssumption DEF DeskInv, DeskTypeOK, CasesOK, Opened
<1>2. PICK w : w = [clerk[c] EXCEPT !.at = step, !.id = i, !.copy = cases[i]]
  OBVIOUS
<1>3. w \in ClerkWork /\ w.at = step /\ w.id = i /\ w.copy = cases[i]
  BY <1>1, <1>2 DEF ClerkWork
<1>4. clerk' = [clerk EXCEPT ![c] = w] /\ clerk'[c] = w
  BY <1>2 DEF LoadCase, DeskInv, DeskTypeOK
<1>5. ClerkOK(c)'
  BY <1>1, <1>3, <1>4 DEF ClerkOK, Opened
<1> QED
  BY <1>3, <1>4, <1>5, DeskMoved DEF DeskInv, DeskTypeOK

LEMMA GetOrCreateStep ==
  ASSUME DeskInv, NEW c \in Clerks, GetOrCreateConversation(c)
  PROVE  DeskInv'
<1>1. clerk[c] \in ClerkWork /\ ClerkOK(c) /\ clerk[c].at = "load"
  BY DEF DeskInv, DeskTypeOK, GetOrCreateConversation, ClerkAt
<1>2. CASE clerk[c].id # 0
  <2>1. clerk[c].id \in Opened /\ "answer" \in ClerkStep
    BY <1>1, <1>2 DEF ClerkOK, ClerkStep
  <2> QED
    BY <1>2, <2>1, CaseLoaded DEF GetOrCreateConversation
<1>3. CASE clerk[c].id = 0
  <2>1. PICK i \in CaseIds \ Opened :
          /\ cases' = [cases EXCEPT ![i] = [NoCase EXCEPT !.status = "OPEN"]]
          /\ clerk' = [clerk EXCEPT ![c] =
               [@ EXCEPT !.at = "answer", !.id = i, !.copy = cases'[i]]]
    BY <1>3 DEF GetOrCreateConversation
  <2>2. PICK new : new = [NoCase EXCEPT !.status = "OPEN"]
    OBVIOUS
  <2>3. new \in Case /\ new.ids = {} /\ new.messages = {} /\ new.status = "OPEN"
    BY <2>2 DEF NoCase, Case, CaseStatus
  <2>4. /\ cases' \in [CaseIds -> Case] /\ cases'[i] = new
        /\ \A j \in CaseIds \ {i} : cases'[j] = cases[j]
    BY <2>1, <2>2, <2>3 DEF DeskInv, DeskTypeOK
  <2>5. cases[i].messages = {}
    BY <2>1 DEF DeskInv, CasesOK, Opened, NoCase
  <2>6. PICK w : w = [clerk[c] EXCEPT !.at = "answer", !.id = i, !.copy = new]
    OBVIOUS
  <2>7. w \in ClerkWork /\ w.at = "answer" /\ w.id = i /\ w.copy = new
    BY <1>1, <2>1, <2>3, <2>6, DeskFacts, SupportAssumption DEF ClerkWork, ClerkStep
  <2>8. clerk' = [clerk EXCEPT ![c] = w] /\ clerk'[c] = w
    BY <2>1, <2>4, <2>6 DEF DeskInv, DeskTypeOK
  <2>9. ClerkOK(c)'
    BY <2>1, <2>3, <2>4, <2>7, <2>8 DEF ClerkOK, Opened
  <2>10. CasesKept
    <3>1. CasesOK'
      BY <2>3, <2>4 DEF DeskInv, CasesOK
    <3> QED
      BY <2>1, <2>3, <2>4, <2>5, <3>1 DEF CasesKept, Opened
  <2> QED
    BY <2>4, <2>7, <2>8, <2>9, <2>10, DeskKept DEF GetOrCreateConversation, DeskInv, DeskTypeOK
<1> QED
  BY <1>2, <1>3

(* A clerk that is through with its case after a save of a new state.      *)
LEMMA SavedAndDone ==
  ASSUME DeskInv, NEW c \in Clerks, clerk[c].at \notin {"idle", "find", "load"},
         NEW new \in Case, SaveCase(c, new), Finished(c),
         new.status \in {Mine(c).status} \cup (CaseStatus \ {"ABSENT"}),
         new.ids \subseteq cases[clerk[c].id].messages \cup (new.messages \ Mine(c).messages),
         acked' = acked \/ (acked' = acked \cup {clerk[c].mail} /\ clerk[c].at = "file"),
         UNCHANGED failures
  PROVE  DeskInv'
<1>1. ClerkOK(c) /\ clerk[c].id \in Opened
  BY DEF DeskInv, ClerkOK
<1>2. CasesKept
  BY <1>1, CaseSaved
<1>3. NoWork \in ClerkWork /\ ClerkOK(c)' /\ clerk' = [clerk EXCEPT ![c] = NoWork]
  BY WorkDone DEF Finished
<1>4. acked' \subseteq Mails /\ \A m \in acked' \ acked : \E i \in CaseIds : m \in cases'[i].messages
  <2>1. clerk[c].at = "file" =>
          clerk[c].mail \in Mails /\ clerk[c].mail \in cases'[clerk[c].id].messages
    BY <1>1, <1>2, DeskFacts, SupportAssumption DEF ClerkOK, CasesKept
  <2> QED
    BY <1>1, <2>1, DeskFacts, SupportAssumption DEF DeskInv, DeskTypeOK
<1> QED
  BY <1>2, <1>3, <1>4, DeskKept DEF DeskInv, DeskTypeOK

LEMMA SaveConversationStep ==
  ASSUME DeskInv, NEW c \in Clerks, SaveConversation(c)
  PROVE  DeskInv'
<1>1. /\ clerk[c] \in ClerkWork /\ ClerkOK(c) /\ clerk[c].at = "answer"
      /\ clerk[c].id \in Opened /\ Mine(c) \in Case
      /\ Mine(c).ids \cup Mine(c).messages \subseteq cases[clerk[c].id].messages
  BY DEF DeskInv, DeskTypeOK, SaveConversation, ClerkAt, ClerkOK, Mine, ClerkWork
<1>2. PICK new : new = [Mine(c) EXCEPT !.messages = @ \cup ({clerk[c].mail} \cap Mails)]
  OBVIOUS
<1>3. /\ new \in Case /\ new.status = Mine(c).status /\ new.ids = Mine(c).ids
      /\ new.messages = Mine(c).messages \cup ({clerk[c].mail} \cap Mails)
  BY <1>1, <1>2 DEF Case
<1>4. SaveCase(c, new) /\ UNCHANGED <<acked, failures>>
  BY <1>2 DEF SaveConversation
<1>5. CASE clerk[c].mail = NoMail
  BY <1>1, <1>3, <1>4, <1>5, SavedAndDone DEF SaveConversation
<1>6. CASE clerk[c].mail # NoMail
  <2>1. CasesKept /\ new.messages \ Mine(c).messages \subseteq cases'[clerk[c].id].messages
    BY <1>1, <1>3, <1>4, CaseSaved
  <2>2. PICK w : w = [clerk[c] EXCEPT !.at = "reload"]
    OBVIOUS
  <2>3. /\ w \in ClerkWork /\ w.at = "reload" /\ w.id = clerk[c].id /\ w.copy = Mine(c)
        /\ w.mail = clerk[c].mail
    BY <1>1, <2>2 DEF ClerkWork, ClerkStep, Mine
  <2>4. clerk' = [clerk EXCEPT ![c] = w] /\ clerk'[c] = w
    BY <1>6, <2>2 DEF SaveConversation, Forward, DeskInv, DeskTypeOK
  <2>5. w.mail \in Mails /\ w.mail \in cases'[w.id].messages
    <3>1. w.mail \in Mails
      BY <1>1, <1>6, <2>3 DEF ClerkWork
    <3>2. cases[w.id].messages \subseteq cases'[w.id].messages
      BY <1>1, <2>1, <2>3, DeskFacts, SupportAssumption DEF CasesKept
    <3> QED
      BY <1>1, <1>3, <2>1, <2>3, <3>1, <3>2
  <2>6. /\ w.id \in Opened'
        /\ w.copy.ids \cup w.copy.messages \subseteq cases'[w.id].messages
    BY <1>1, <2>1, <2>3, DeskFacts, SupportAssumption DEF CasesKept
  <2>7. ClerkOK(c)'
    BY <2>3, <2>4, <2>5, <2>6 DEF ClerkOK
  <2> QED
    BY <1>4, <2>1, <2>3, <2>4, <2>7, DeskKept DEF DeskInv, DeskTypeOK
<1> QED
  BY <1>5, <1>6

LEMMA ReloadCaseStep ==
  ASSUME DeskInv, NEW c \in Clerks, ReloadCase(c)
  PROVE  DeskInv'
<1>1. /\ clerk[c] \in ClerkWork /\ ClerkOK(c) /\ clerk[c].at = "reload"
      /\ clerk[c].id \in Opened /\ cases[clerk[c].id] \in Case
  BY DEF DeskInv, DeskTypeOK, ReloadCase, ClerkAt, ClerkOK, Opened
<1>2. PICK step : step = IF Mine(c).status = "ESCALATED" THEN "file" ELSE "send"
  OBVIOUS
<1>3. PICK w : w = [clerk[c] EXCEPT !.at = step, !.copy = cases[clerk[c].id]]
  OBVIOUS
<1>4. /\ w \in ClerkWork /\ w.at = step /\ w.id = clerk[c].id
      /\ w.copy = cases[clerk[c].id] /\ w.mail = clerk[c].mail
  BY <1>1, <1>2, <1>3 DEF ClerkWork, ClerkStep
<1>5. clerk' = [clerk EXCEPT ![c] = w] /\ clerk'[c] = w
  BY <1>2, <1>3 DEF ReloadCase, DeskInv, DeskTypeOK
<1>6. cases[clerk[c].id].ids \subseteq cases[clerk[c].id].messages
  BY <1>1 DEF DeskInv, CasesOK, Opened
<1>7. ClerkOK(c)'
  BY <1>1, <1>2, <1>4, <1>5, <1>6 DEF ClerkOK, ReloadCase, Opened
<1> QED
  BY <1>4, <1>5, <1>7, DeskMoved DEF ReloadCase, DeskInv, DeskTypeOK

(* What a mail adds to its case.                                           *)
LEMMA FiledCase ==
  ASSUME DeskInv, NEW c \in Clerks, clerk[c].at \in {"file", "send"},
         NEW status \in {Mine(c).status, "ESCALATED"}
  PROVE  /\ Filed(c, status) \in Case /\ Filed(c, status).status = status
         /\ Filed(c, status).messages = Mine(c).messages
         /\ Filed(c, status).ids \subseteq cases[clerk[c].id].messages
<1>1. /\ Mine(c) \in Case /\ Mine(c).ids \subseteq cases[clerk[c].id].messages
      /\ clerk[c].mail \in Mails /\ clerk[c].mail \in cases[clerk[c].id].messages
  BY DEF DeskInv, DeskTypeOK, ClerkOK, ClerkWork, Mine
<1>2. status \in CaseStatus
  BY <1>1 DEF Case, CaseStatus
<1> QED
  BY <1>1, <1>2 DEF Case, Filed

LEMMA FileMailStep ==
  ASSUME DeskInv, NEW c \in Clerks, FileMail(c)
  PROVE  DeskInv'
<1>1. PICK new : new = Filed(c, Mine(c).status)
  OBVIOUS
<1>2. /\ new \in Case /\ new.status = Mine(c).status
      /\ new.ids \subseteq cases[clerk[c].id].messages
  BY <1>1, FiledCase DEF FileMail, ClerkAt
<1> QED
  BY <1>1, <1>2, SavedAndDone DEF FileMail, ClerkAt

LEMMA FileAndEscalateStep ==
  ASSUME DeskInv, NEW c \in Clerks, FileAndEscalate(c)
  PROVE  DeskInv'
<1>1. PICK status \in {Mine(c).status, "ESCALATED"} :
        /\ SaveCase(c, Filed(c, status))
        /\ clerk' = [clerk EXCEPT ![c] = [@ EXCEPT !.at = "sent", !.copy = Filed(c, status)]]
  BY DEF FileAndEscalate
<1>2. PICK new : new = Filed(c, status)
  OBVIOUS
<1>3. /\ new \in Case /\ new.status = status
      /\ new.messages = Mine(c).messages
      /\ new.ids \subseteq cases[clerk[c].id].messages
  BY <1>2, FiledCase DEF FileAndEscalate, ClerkAt
<1>4. /\ clerk[c] \in ClerkWork /\ ClerkOK(c) /\ clerk[c].at = "send"
      /\ clerk[c].id \in Opened
      /\ Mine(c).messages \subseteq cases[clerk[c].id].messages
  BY DEF DeskInv, DeskTypeOK, FileAndEscalate, ClerkAt, ClerkOK, Mine
<1>5. CasesKept
  BY <1>1, <1>2, <1>3, <1>4, CaseSaved DEF CaseStatus
<1>6. PICK w : w = [clerk[c] EXCEPT !.at = "sent", !.copy = new]
  OBVIOUS
<1>7. /\ w \in ClerkWork /\ w.at = "sent" /\ w.id = clerk[c].id
      /\ w.copy = new /\ w.mail = clerk[c].mail
  BY <1>3, <1>4, <1>6 DEF ClerkWork, ClerkStep
<1>8. clerk' = [clerk EXCEPT ![c] = w] /\ clerk'[c] = w
  BY <1>1, <1>2, <1>6 DEF DeskInv, DeskTypeOK
<1>9. w.id \in Opened' /\ cases[w.id].messages \subseteq cases'[w.id].messages
  BY <1>4, <1>5, <1>7, DeskFacts, SupportAssumption DEF CasesKept
<1>10. ClerkOK(c)'
  BY <1>3, <1>4, <1>7, <1>8, <1>9 DEF ClerkOK
<1> QED
  BY <1>5, <1>7, <1>8, <1>10, DeskKept DEF FileAndEscalate, DeskInv, DeskTypeOK

LEMMA SendAutoReplyStep ==
  ASSUME DeskInv, NEW c \in Clerks, SendAutoReply(c)
  PROVE  DeskInv'
<1>1. /\ clerk[c].mail \in Mails /\ clerk[c].mail \in cases[clerk[c].id].messages
      /\ clerk[c].id \in CaseIds
  BY DEF DeskInv, ClerkOK, SendAutoReply, ClerkAt, Opened
<1>2. NoWork \in ClerkWork /\ ClerkOK(c)' /\ clerk' = [clerk EXCEPT ![c] = NoWork]
  BY WorkDone DEF SendAutoReply, Finished
<1>3. CasesKept
  BY DEF SendAutoReply, DeskInv, DeskTypeOK, CasesOK, CasesKept, Opened
<1>4. failures' \in 0..MaxFailures
  BY FailsTyped DEF SendAutoReply, DeskInv, DeskTypeOK
<1>5. acked' \subseteq Mails /\ \A m \in acked' \ acked : \E i \in CaseIds : m \in cases'[i].messages
  BY <1>1 DEF SendAutoReply, DeskInv, DeskTypeOK
<1> QED
  BY <1>2, <1>3, <1>4, <1>5, DeskKept

LEMMA LoadingStep ==
  ASSUME DeskInv, NEW c \in Clerks,
         WriteMessage(c) \/ AskForPerson(c) \/ ReplyToCase(c) \/ ReturnToAI(c) \/ CloseCase(c)
  PROVE  DeskInv'
<1>1. PICK i \in Opened, step \in {"answer", "escalate", "reply", "return", "close"} :
        LoadCase(c, i, step) /\ UNCHANGED <<cases, acked, failures>>
  BY DEF WriteMessage, AskForPerson, ReplyToCase, ReturnToAI, CloseCase
<1> QED
  BY <1>1, CaseLoaded DEF ClerkStep

LEMMA StatusStep ==
  ASSUME DeskInv, NEW c \in Clerks, EscalateCase(c) \/ SaveReturned(c) \/ SaveClosedCase(c)
  PROVE  DeskInv'
<1>1. PICK status \in {"ESCALATED", "OPEN", "CLOSED"} :
        SaveCase(c, [Mine(c) EXCEPT !.status = status])
  BY DEF EscalateCase, SaveReturned, SaveClosedCase
<1>2. PICK new : new = [Mine(c) EXCEPT !.status = status]
  OBVIOUS
<1>3. clerk[c].at \in {"escalate", "reply", "return", "close"}
  BY DEF EscalateCase, SaveReturned, SaveClosedCase, ClerkAt
<1>4. Mine(c) \in Case /\ Mine(c).ids \subseteq cases[clerk[c].id].messages
  BY <1>3 DEF DeskInv, DeskTypeOK, ClerkOK, ClerkWork, Mine
<1>5. new \in Case /\ new.status = status /\ new.ids = Mine(c).ids
  BY <1>2, <1>4 DEF Case, CaseStatus
<1>6. Finished(c) /\ UNCHANGED <<acked, failures>>
  BY DEF EscalateCase, SaveReturned, SaveClosedCase
<1> QED
  BY <1>1, <1>2, <1>3, <1>4, <1>5, <1>6, SavedAndDone DEF CaseStatus

LEMMA ClerkCrashesStep ==
  ASSUME DeskInv, NEW c \in Clerks, ClerkCrashes(c)
  PROVE  DeskInv'
<1>1. NoWork \in ClerkWork /\ ClerkOK(c)' /\ clerk' = [clerk EXCEPT ![c] = NoWork]
  BY WorkDone DEF ClerkCrashes, Finished
<1>2. failures' \in 0..MaxFailures
  BY FailsTyped DEF ClerkCrashes
<1> QED
  BY <1>1, <1>2, DeskMoved DEF ClerkCrashes

LEMMA DeskInitInductive == DeskInit => DeskInv
<1> SUFFICES ASSUME DeskInit PROVE DeskInv
  OBVIOUS
<1>1. DeskTypeOK
  BY DeskFacts, SupportAssumption DEF DeskInit, DeskTypeOK
<1>2. CasesOK
  BY DEF DeskInit, CasesOK, NoCase
<1>3. \A c \in Clerks : ClerkOK(c)
  BY DeskFacts, SupportAssumption DEF DeskInit, ClerkOK
<1> QED
  BY <1>1, <1>2, <1>3 DEF DeskInit, DeskInv, AckedIsRecorded

LEMMA DeskStepInductive == DeskInv /\ [DeskNext]_deskVars => DeskInv'
<1> SUFFICES ASSUME DeskInv, [DeskNext]_deskVars PROVE DeskInv'
  OBVIOUS
<1>1. CASE UNCHANGED deskVars
  BY <1>1 DEF deskVars, DeskInv, DeskTypeOK, CasesOK, ClerkOK, AckedIsRecorded, Opened
<1>2. ASSUME NEW c \in Clerks,
             ReceiveMail(c) \/ FindThread(c) \/ GetOrCreateConversation(c)
               \/ SaveConversation(c) \/ ReloadCase(c) \/ FileMail(c)
               \/ FileAndEscalate(c) \/ SendAutoReply(c)
      PROVE  DeskInv'
  BY <1>2, ReceiveMailStep, FindThreadStep, GetOrCreateStep, SaveConversationStep,
     ReloadCaseStep, FileMailStep, FileAndEscalateStep, SendAutoReplyStep
<1>3. ASSUME NEW c \in Clerks,
             WriteMessage(c) \/ AskForPerson(c) \/ ReplyToCase(c) \/ EscalateCase(c)
               \/ ReturnToAI(c) \/ SaveReturned(c) \/ CloseCase(c) \/ SaveClosedCase(c)
               \/ ClerkCrashes(c)
      PROVE  DeskInv'
  BY <1>3, LoadingStep, StatusStep, ClerkCrashesStep
<1> QED
  BY <1>1, <1>2, <1>3 DEF DeskNext

(* Cases, clerks and acknowledgements keep their types.                    *)
THEOREM DeskTyped == DeskSpec => []DeskTypeOK
<1>1. DeskInv => DeskTypeOK
  BY DEF DeskInv
<1> QED
  BY <1>1, DeskInitInductive, DeskStepInductive, PTL DEF DeskSpec

(* No mail whose webhook was answered with success is lost, whatever       *)
(* requests crash half way and whatever admins and customers save beside   *)
(* them: a mail a case knows the id of is among its messages.              *)
THEOREM MailsAreRecorded == DeskSpec => []AckedIsRecorded
<1>1. DeskInv => AckedIsRecorded
  BY DEF DeskInv
<1> QED
  BY <1>1, DeskInitInductive, DeskStepInductive, PTL DEF DeskSpec

(* A save changes the status of a case only to one the clerk has set.      *)
LEMMA StatusSaved ==
  ASSUME DeskInv, NEW c \in Clerks, NEW new, SaveCase(c, new), NEW i \in CaseIds,
         cases'[i].status # cases[i].status
  PROVE  new.status # Mine(c).status /\ cases'[i].status = new.status
<1>1. cases \in [CaseIds -> Case]
  BY DEF DeskInv, DeskTypeOK
<1>2. PICK saved :
        saved = [status   |-> IF new.status # Mine(c).status THEN new.status
                              ELSE cases[clerk[c].id].status,
                 email    |-> cases[clerk[c].id].email \/ new.email,
                 ids      |-> IF new.ids # Mine(c).ids THEN new.ids ELSE cases[clerk[c].id].ids,
                 messages |-> cases[clerk[c].id].messages \cup (new.messages \ Mine(c).messages)]
  OBVIOUS
<1>3. cases' = [cases EXCEPT ![clerk[c].id] = saved]
  BY <1>2 DEF SaveCase
<1>4. cases'[i] = IF i = clerk[c].id THEN saved ELSE cases[i]
  BY <1>1, <1>3
<1>5. saved.status = IF new.status # Mine(c).status THEN new.status ELSE cases[clerk[c].id].status
  BY <1>2
<1> QED
  BY <1>4, <1>5

LEMMA StickyStep ==
  ASSUME DeskInv, NEW c \in Clerks, NEW i \in CaseIds,
         cases[i].status = "ESCALATED", cases'[i].status # "ESCALATED",
         \/ ReceiveMail(c) \/ FindThread(c) \/ GetOrCreateConversation(c)
         \/ SaveConversation(c) \/ ReloadCase(c) \/ FileMail(c)
         \/ FileAndEscalate(c) \/ SendAutoReply(c)
         \/ WriteMessage(c) \/ AskForPerson(c) \/ ReplyToCase(c) \/ EscalateCase(c)
         \/ ReturnToAI(c) \/ SaveReturned(c) \/ CloseCase(c) \/ SaveClosedCase(c)
         \/ ClerkCrashes(c)
  PROVE  clerk[c].at \in {"return", "close"} /\ clerk'[c] = NoWork
<1>1. Mine(c) \in Case /\ cases \in [CaseIds -> Case] /\ clerk \in [Clerks -> ClerkWork]
  BY DEF DeskInv, DeskTypeOK, ClerkWork, Mine
<1>2. ASSUME UNCHANGED cases PROVE FALSE
  BY <1>2
<1>3. ASSUME GetOrCreateConversation(c) PROVE FALSE
  <2>1. PICK j \in CaseIds \ Opened :
          cases' = [cases EXCEPT ![j] = [NoCase EXCEPT !.status = "OPEN"]]
    BY <1>2, <1>3 DEF GetOrCreateConversation
  <2> QED
    BY <1>1, <2>1 DEF Opened
<1>4. ASSUME SaveConversation(c) PROVE FALSE
  <2>1. PICK new : new = [Mine(c) EXCEPT !.messages = @ \cup ({clerk[c].mail} \cap Mails)]
    OBVIOUS
  <2>2. new.status = Mine(c).status
    BY <1>1, <2>1 DEF Case
  <2> QED
    BY <1>4, <2>1, <2>2, StatusSaved DEF SaveConversation
<1>5. ASSUME FileMail(c) PROVE FALSE
  <2>1. PICK new : new = Filed(c, Mine(c).status)
    OBVIOUS
  <2>2. new.status = Mine(c).status
    BY <1>5, <2>1, FiledCase DEF FileMail, ClerkAt
  <2> QED
    BY <1>5, <2>1, <2>2, StatusSaved DEF FileMail
<1>6. ASSUME FileAndEscalate(c) PROVE FALSE
  <2>1. PICK status \in {Mine(c).status, "ESCALATED"} : SaveCase(c, Filed(c, status))
    BY <1>6 DEF FileAndEscalate
  <2>2. PICK new : new = Filed(c, status)
    OBVIOUS
  <2>3. new.status = status
    BY <1>6, <2>2, FiledCase DEF FileAndEscalate, ClerkAt
  <2> QED
    BY <2>1, <2>2, <2>3, StatusSaved
<1>7. ASSUME EscalateCase(c) PROVE FALSE
  <2>1. PICK new : new = [Mine(c) EXCEPT !.status = "ESCALATED"]
    OBVIOUS
  <2>2. new.status = "ESCALATED"
    BY <1>1, <2>1 DEF Case
  <2> QED
    BY <1>7, <2>1, <2>2, StatusSaved DEF EscalateCase
<1>8. ASSUME SaveReturned(c) \/ SaveClosedCase(c)
      PROVE  clerk[c].at \in {"return", "close"} /\ clerk'[c] = NoWork
  BY <1>1, <1>8 DEF SaveReturned, SaveClosedCase, ClerkAt, Finished
<1> QED
  BY <1>2, <1>3, <1>4, <1>5, <1>6, <1>7, <1>8
     DEF ReceiveMail, FindThread, ReloadCase, SendAutoReply, WriteMessage, AskForPerson,
         ReplyToCase, ReturnToAI, CloseCase, ClerkCrashes

(* Only an admin's return or close takes a case back from the person who   *)
(* owns it: the save of a clerk that loaded the case before the escalation *)
(* writes the status only where that clerk changed it.                     *)
THEOREM EscalationSticks == DeskSpec => EscalationIsSticky
<1> DEFINE Sticky ==
      \A i \in CaseIds :
        cases[i].status = "ESCALATED" /\ cases'[i].status # "ESCALATED"
          => \E c \in Clerks : clerk[c].at \in {"return", "close"} /\ clerk'[c] = NoWork
<1>1. DeskInv /\ [DeskNext]_deskVars => [Sticky]_deskVars
  <2> SUFFICES ASSUME DeskInv, DeskNext PROVE Sticky
    BY DEF deskVars
  <2> QED
    BY StickyStep DEF DeskNext
<1> QED
  BY <1>1, DeskInitInductive, DeskStepInductive, PTL DEF DeskSpec, EscalationIsSticky

-----------------------------------------------------------------------------
(* The password of the Trader account.                                     *)

(* Calls that have made their one password at Trader, or make none.        *)
Reached == {k \in Keepers : keeper[k].at \in {"record", "enqueue", "release", "returned"}}

(* Under the claim from the second look at the vault to the save.          *)
Holding(k) == keeper[k].at \in {"recheck", "create", "record"}

(* The script that mails again is at work, or has queued mails.            *)
Resending == resend.letters > 0 \/ resend.at \in {"renew", "enqueue"}

(* Only what the vault holds is mailed.                                    *)
LettersFounded ==
  /\ letters > 0 \/ Resending => vault # NoSecret
  /\ \A p \in Postmen : postman[p].at # "idle" => vault # NoSecret
  /\ \A k \in Keepers : keeper[k].at \in {"existing", "enqueue"} => vault # NoSecret

(* While nothing has lapsed one call at a time is under the claim; what it *)
(* knows of the vault and of the password holds until it saves.            *)
ClaimHeld ==
  lapses = 0 =>
    /\ \A k \in Keepers : Holding(k) => lease.by = k
    /\ \A k \in Keepers : keeper[k].at \in {"create", "record"} =>
         (keeper[k].copy = NoSecret <=> vault = NoSecret)
    /\ \A k \in Keepers : keeper[k].at = "record" => keeper[k].got = password
    /\ (\A k \in Keepers : keeper[k].at # "record") => vault.password = password

(* While no save crossed a mail, jobs hold what the vault holds.           *)
MailFollows ==
  ~crossed =>
    /\ \A p \in Postmen : postman[p].at # "idle" => postman[p].copy.password = vault.password
    /\ \A p \in Postmen : postman[p].at = "sent" => mailed = vault.password
    /\ vault.delivery = "SENT" => mailed = vault.password

VaultInv ==
  /\ VaultTypeOK
  /\ password <= Cardinality(Reached)
  /\ LettersFounded
  /\ ClaimHeld
  /\ MailFollows

LEMMA VaultFacts ==
  ASSUME VaultInv
  PROVE  /\ MaxVaultCalls \in Nat /\ password \in Nat /\ mailed \in Nat
         /\ vault \in Secret /\ NoSecret \in Secret
         /\ lease \in [by : Keepers \cup {Nobody}, stale : BOOLEAN]
         /\ keeper \in [Keepers -> KeeperCall] /\ postman \in [Postmen -> PostmanJob]
         /\ resend \in Script
         /\ letters \in Nat /\ lapses \in Nat /\ crossed \in BOOLEAN
         /\ {password, mailed, 0} \subseteq Passwords
         /\ Nobody \notin Keepers
<1>1. MaxVaultCalls \in Nat
  BY VaultAssumption
<1>2. 0 \in Passwords /\ Passwords \subseteq Nat
  BY <1>1 DEF Passwords
<1> QED
  BY <1>1, <1>2, VaultAssumption DEF VaultInv, VaultTypeOK, NoSecret, Secret, Keepers

LEMMA LapseCounts ==
  ASSUME VaultInv, Lapse
  PROVE  lapses' \in Nat /\ lapses' # 0
BY VaultFacts DEF Lapse

(* A call moves on: no other call does, and those that reached Trader only *)
(* grow.                                                                   *)
LEMMA KeeperMoved ==
  ASSUME VaultInv, NEW k \in Keepers, NEW w \in KeeperCall,
         keeper' = [keeper EXCEPT ![k] = w],
         k \in Reached => w.at \in {"record", "enqueue", "release", "returned"}
  PROVE  /\ keeper' \in [Keepers -> KeeperCall] /\ keeper'[k] = w
         /\ \A j \in Keepers \ {k} : keeper'[j] = keeper[j]
         /\ password <= Cardinality(Reached')
         /\ Cardinality(Reached') \in 0..MaxVaultCalls
         /\ k \notin Reached /\ w.at \in {"record", "enqueue", "release", "returned"}
              => password + 1 <= Cardinality(Reached')
<1>1. /\ keeper' \in [Keepers -> KeeperCall] /\ keeper'[k] = w
      /\ \A j \in Keepers \ {k} : keeper'[j] = keeper[j]
  BY VaultFacts
<1>2. IsFiniteSet(Keepers) /\ Cardinality(Keepers) = MaxVaultCalls
  BY VaultFacts, FS_Interval DEF Keepers
<1>3. Reached \subseteq Keepers /\ Reached' \subseteq Keepers /\ Reached \subseteq Reached'
  BY <1>1 DEF Reached
<1>4. /\ IsFiniteSet(Reached) /\ IsFiniteSet(Reached')
      /\ Cardinality(Reached) <= Cardinality(Reached')
      /\ Cardinality(Reached') <= MaxVaultCalls
  BY <1>2, <1>3, FS_Subset
<1>5. Cardinality(Reached) \in Nat /\ Cardinality(Reached') \in Nat
  BY <1>4, FS_CardinalityType
<1>6. password <= Cardinality(Reached)
  BY DEF VaultInv
<1>7. ASSUME k \notin Reached, w.at \in {"record", "enqueue", "release", "returned"}
      PROVE  password + 1 <= Cardinality(Reached')
  <2>1. Reached' = Reached \cup {k}
    BY <1>1, <1>7 DEF Reached
  <2>2. Cardinality(Reached') = Cardinality(Reached) + 1
    BY <1>4, <1>7, <2>1, FS_AddElement
  <2> QED
    BY <1>5, <1>6, <2>2, VaultFacts
<1> QED
  BY <1>1, <1>4, <1>5, <1>6, <1>7, VaultFacts

(* A step of a call that touches neither the secret nor the mails.         *)
LEMMA KeeperStepped ==
  ASSUME VaultInv, NEW k \in Keepers, NEW w \in KeeperCall,
         keeper' = [keeper EXCEPT ![k] = w],
         k \in Reached => w.at \in {"record", "enqueue", "release", "returned"},
         w.at \in {"existing", "enqueue"} => vault # NoSecret,
         UNCHANGED <<vault, postman, resend, mailed, crossed>>,
         password' = password
           \/ (password' = password + 1
                 /\ k \notin Reached /\ w.at \in {"record", "enqueue", "release", "returned"}),
         lease' \in [by : Keepers \cup {Nobody}, stale : BOOLEAN],
         letters' = letters \/ (letters' = letters + 1 /\ vault # NoSecret),
         lapses' \in Nat,
         ClaimHeld'
  PROVE  VaultInv'
<1>1. /\ keeper' \in [Keepers -> KeeperCall] /\ keeper'[k] = w
      /\ \A j \in Keepers \ {k} : keeper'[j] = keeper[j]
      /\ password <= Cardinality(Reached')
      /\ Cardinality(Reached') \in 0..MaxVaultCalls
      /\ k \notin Reached /\ w.at \in {"record", "enqueue", "release", "returned"}
           => password + 1 <= Cardinality(Reached')
  BY KeeperMoved
<1>2. password' <= Cardinality(Reached') /\ password' \in Nat
  BY <1>1, VaultFacts
<1>3. password' \in Passwords
  <2>1. Cardinality(Reached') <= 2 * MaxVaultCalls /\ Cardinality(Reached') \in Nat
    BY <1>1, VaultFacts
  <2> QED
    BY <1>2, <2>1, VaultFacts DEF Passwords
<1>4. VaultTypeOK'
  BY <1>1, <1>3, VaultFacts DEF VaultTypeOK
<1>5. LettersFounded'
  BY <1>1, VaultFacts DEF VaultInv, LettersFounded, Resending
<1>6. MailFollows'
  BY DEF VaultInv, MailFollows
<1> QED
  BY <1>2, <1>4, <1>5, <1>6 DEF VaultInv

LEMMA EnsureCredentialStep ==
  ASSUME VaultInv, NEW k \in Keepers, EnsureCredential(k)
  PROVE  VaultInv'
<1>1. PICK rotate \in BOOLEAN, mail \in BOOLEAN :
        keeper' = [keeper EXCEPT
          ![k] = [NotCalled EXCEPT !.at = "find", !.rotate = rotate, !.mail = mail]]
  BY DEF EnsureCredential
<1>2. PICK w : w = [NotCalled EXCEPT !.at = "find", !.rotate = rotate, !.mail = mail]
  OBVIOUS
<1>3. w \in KeeperCall /\ w.at = "find"
  BY <1>2, VaultFacts DEF NotCalled, KeeperCall
<1>4. keeper' = [keeper EXCEPT ![k] = w] /\ keeper[k].at = "idle" /\ k \notin Reached
  BY <1>1, <1>2 DEF EnsureCredential, KeeperAt, Reached
<1>5. keeper'[k] = w /\ \A j \in Keepers \ {k} : keeper'[j] = keeper[j]
  BY <1>4, VaultFacts
<1>6. UNCHANGED <<vault, password, lease, letters, postman, resend, mailed, lapses, crossed>>
  BY DEF EnsureCredential, outbox
<1>7. ClaimHeld'
  BY <1>3, <1>4, <1>5, <1>6 DEF VaultInv, ClaimHeld, Holding
<1> QED
  BY <1>3, <1>4, <1>6, <1>7, VaultFacts, KeeperStepped

LEMMA FindSecretStep ==
  ASSUME VaultInv, NEW k \in Keepers, FindSecret(k)
  PROVE  VaultInv'
<1>1. keeper[k] \in KeeperCall /\ keeper[k].at \in {"find", "refused", "recheck"}
  BY VaultFacts DEF FindSecret
<1>2. PICK step :
        /\ step = IF Exists /\ ~keeper[k].rotate THEN "existing"
                  ELSE CASE keeper[k].at = "find" -> "claim"
                         [] keeper[k].at = "refused" -> "returned"
                         [] keeper[k].at = "recheck" -> "create"
        /\ step \in {"existing", "claim", "returned", "create"}
        /\ step = "existing" => vault # NoSecret
        /\ step = "create" => keeper[k].at = "recheck"
  BY <1>1 DEF Exists
<1>3. PICK w : w = [keeper[k] EXCEPT !.copy = vault, !.at = step]
  OBVIOUS
<1>4. w \in KeeperCall /\ w.at = step /\ w.copy = vault
  BY <1>1, <1>2, <1>3, VaultFacts DEF KeeperCall
<1>5. keeper' = [keeper EXCEPT ![k] = w] /\ k \notin Reached
  BY <1>1, <1>2, <1>3 DEF FindSecret, Reached
<1>6. keeper'[k] = w /\ \A j \in Keepers \ {k} : keeper'[j] = keeper[j]
  BY <1>5, VaultFacts
<1>7. UNCHANGED <<vault, password, lease, letters, postman, resend, mailed, lapses, crossed>>
  BY DEF FindSecret, outbox
<1>8. ClaimHeld'
  BY <1>1, <1>2, <1>4, <1>5, <1>6, <1>7 DEF VaultInv, ClaimHeld, Holding
<1> QED
  BY <1>2, <1>4, <1>5, <1>7, <1>8, VaultFacts, KeeperStepped

LEMMA ClaimCredentialStep ==
  ASSUME VaultInv, NEW k \in Keepers, ClaimCredential(k)
  PROVE  VaultInv'
<1>1. keeper[k] \in KeeperCall /\ keeper[k].at = "claim" /\ k \notin Reached
  BY VaultFacts DEF ClaimCredential, KeeperAt, Reached
<1>2. PICK step \in {"recheck", "refused"} :
        /\ KeeperTo(k, step)
        /\ step = "recheck" =>
             /\ lease' = [by |-> k, stale |-> FALSE]
             /\ lapses' = 0 => lease.by = Nobody \/ ~Working(lease.by)
        /\ step = "refused" => UNCHANGED lease
        /\ lapses' = lapses \/ (lapses' \in Nat /\ lapses' # 0)
  BY LapseCounts DEF ClaimCredential
<1>3. PICK w : w = [keeper[k] EXCEPT !.at = step]
  OBVIOUS
<1>4. w \in KeeperCall /\ w.at = step
  BY <1>1, <1>3 DEF KeeperCall
<1>5. keeper' = [keeper EXCEPT ![k] = w]
  BY <1>2, <1>3 DEF KeeperTo
<1>6. keeper'[k] = w /\ \A j \in Keepers \ {k} : keeper'[j] = keeper[j]
  BY <1>5, VaultFacts
<1>7. UNCHANGED <<vault, password, letters, postman, resend, mailed, crossed>>
  BY DEF ClaimCredential, outbox
<1>8. lease' \in [by : Keepers \cup {Nobody}, stale : BOOLEAN]
  <2>1. [by |-> k, stale |-> FALSE] \in [by : Keepers \cup {Nobody}, stale : BOOLEAN]
    OBVIOUS
  <2> QED
    BY <1>2, <2>1, VaultFacts
<1>9. ClaimHeld'
  <2> SUFFICES ASSUME lapses' = 0 PROVE ClaimHeld'
    BY DEF ClaimHeld
  <2>1. lapses = 0
    BY <1>2
  <2>2. ASSUME NEW j \in Keepers, Holding(j)' PROVE lease'.by = j
    <3>1. CASE step = "recheck"
      <4>1. \A i \in Keepers : ~Holding(i)
        <5>1. lease.by = Nobody \/ ~Working(lease.by)
          BY <1>2, <3>1
        <5> QED
          BY <2>1, <5>1, VaultFacts DEF VaultInv, ClaimHeld, Holding, Working
      <4> QED
        BY <1>2, <1>6, <2>2, <3>1, <4>1 DEF Holding
    <3>2. CASE step = "refused"
      BY <1>2, <1>4, <1>6, <2>1, <2>2, <3>2 DEF Holding, VaultInv, ClaimHeld
    <3> QED
      BY <3>1, <3>2
  <2> QED
    BY <1>1, <1>4, <1>6, <1>7, <2>1, <2>2 DEF VaultInv, ClaimHeld
<1> QED
  BY <1>1, <1>2, <1>4, <1>5, <1>7, <1>8, <1>9, VaultFacts, KeeperStepped

LEMMA CreateNativeStep ==
  ASSUME VaultInv, NEW k \in Keepers, CreateNativeCredential(k)
  PROVE  VaultInv'
<1>1. keeper[k] \in KeeperCall /\ keeper[k].at = "create" /\ k \notin Reached
  BY VaultFacts DEF CreateNativeCredential, KeeperAt, Reached
<1>2. UNCHANGED <<vault, lease, letters, postman, resend, mailed, crossed>>
  BY DEF CreateNativeCredential, outbox
<1>3. CASE keeper' = [keeper EXCEPT ![k].rotate = TRUE] /\ UNCHANGED <<password, lapses>>
  <2>1. PICK w : w = [keeper[k] EXCEPT !.rotate = TRUE]
    OBVIOUS
  <2>2. w \in KeeperCall /\ w.at = "create" /\ w.copy = keeper[k].copy
    BY <1>1, <2>1 DEF KeeperCall
  <2>3. keeper' = [keeper EXCEPT ![k] = w]
    BY <1>3, <2>1
  <2>4. keeper'[k] = w /\ \A j \in Keepers \ {k} : keeper'[j] = keeper[j]
    BY <2>3, VaultFacts
  <2>5. ClaimHeld'
    BY <1>1, <1>2, <1>3, <2>2, <2>4 DEF VaultInv, ClaimHeld, Holding
  <2> QED
    BY <1>1, <1>2, <1>3, <2>2, <2>3, <2>5, VaultFacts, KeeperStepped
<1>4. CASE /\ password' = password + 1
           /\ keeper' = [keeper EXCEPT ![k] = [@ EXCEPT !.at = "record", !.got = password']]
           /\ UNCHANGED lapses
  <2>1. PICK w : w = [keeper[k] EXCEPT !.at = "record", !.got = password + 1]
    OBVIOUS
  <2>2. password + 1 \in Passwords
    <3>1. MaxVaultCalls \in Nat /\ password \in Nat /\ password <= Cardinality(Reached)
      BY VaultFacts DEF VaultInv
    <3>2. IsFiniteSet(Keepers) /\ Cardinality(Keepers) = MaxVaultCalls
      BY <3>1, FS_Interval DEF Keepers
    <3>3. Reached \subseteq Keepers \ {k}
      BY <1>1 DEF Reached
    <3>4. IsFiniteSet(Keepers \ {k}) /\ Cardinality(Keepers \ {k}) = MaxVaultCalls - 1
      BY <3>2, FS_RemoveElement
    <3>5. Cardinality(Reached) <= MaxVaultCalls - 1 /\ IsFiniteSet(Reached)
      BY <3>3, <3>4, FS_Subset
    <3>6. Cardinality(Reached) \in Nat
      BY <3>5, FS_CardinalityType
    <3> QED
      BY <3>1, <3>5, <3>6 DEF Passwords
  <2>3. w \in KeeperCall /\ w.at = "record" /\ w.copy = keeper[k].copy /\ w.got = password + 1
    BY <1>1, <2>1, <2>2 DEF KeeperCall
  <2>4. keeper' = [keeper EXCEPT ![k] = w]
    BY <1>4, <2>1
  <2>5. keeper'[k] = w /\ \A j \in Keepers \ {k} : keeper'[j] = keeper[j]
    BY <2>4, VaultFacts
  <2>6. ClaimHeld'
    BY <1>1, <1>2, <1>4, <2>3, <2>5 DEF VaultInv, ClaimHeld, Holding
  <2> QED
    BY <1>1, <1>2, <1>4, <2>3, <2>4, <2>6, VaultFacts, KeeperStepped
<1>5. CASE password' \in {password, password + 1} /\ KeeperTo(k, "release") /\ Lapse
  <2>1. PICK w : w = [keeper[k] EXCEPT !.at = "release"]
    OBVIOUS
  <2>2. w \in KeeperCall /\ w.at = "release"
    BY <1>1, <2>1 DEF KeeperCall
  <2>3. keeper' = [keeper EXCEPT ![k] = w]
    BY <1>5, <2>1 DEF KeeperTo
  <2>4. lapses' \in Nat /\ ClaimHeld'
    BY <1>5, LapseCounts DEF ClaimHeld
  <2> QED
    BY <1>1, <1>2, <1>5, <2>2, <2>3, <2>4, VaultFacts, KeeperStepped
<1> QED
  BY <1>3, <1>4, <1>5 DEF CreateNativeCredential

LEMMA KeeperLeavesStep ==
  ASSUME VaultInv, NEW k \in Keepers, EnqueueLetter(k) \/ ReleaseClaim(k) \/ KeeperCrashes(k)
  PROVE  VaultInv'
<1>1. keeper[k] \in KeeperCall
  BY VaultFacts
<1>2. UNCHANGED <<vault, password, postman, resend, mailed, crossed>>
  BY DEF EnqueueLetter, ReleaseClaim, KeeperCrashes, outbox
<1>3. PICK w : /\ w \in KeeperCall /\ w.at \in {"release", "returned"}
               /\ keeper' = [keeper EXCEPT ![k] = w]
  <2>1. CASE EnqueueLetter(k)
    <3>1. PICK w : w = [keeper[k] EXCEPT !.at = "release"]
      OBVIOUS
    <3> QED
      BY <1>1, <2>1, <3>1 DEF EnqueueLetter, KeeperTo, KeeperCall
  <2>2. CASE ReleaseClaim(k) \/ KeeperCrashes(k)
    <3>1. PICK w : w = [NotCalled EXCEPT !.at = "returned"]
      OBVIOUS
    <3>2. w \in KeeperCall /\ w.at = "returned"
      BY <3>1, VaultFacts DEF NotCalled, KeeperCall
    <3> QED
      BY <2>2, <3>1, <3>2 DEF ReleaseClaim, KeeperCrashes
  <2> QED
    BY <2>1, <2>2
<1>4. keeper'[k] = w /\ \A j \in Keepers \ {k} : keeper'[j] = keeper[j]
  BY <1>3, VaultFacts
<1>5. lease' \in [by : Keepers \cup {Nobody}, stale : BOOLEAN]
  <2>1. [by |-> Nobody, stale |-> FALSE] \in [by : Keepers \cup {Nobody}, stale : BOOLEAN]
    OBVIOUS
  <2>2. lease' \in {lease, [by |-> Nobody, stale |-> FALSE]}
    BY DEF EnqueueLetter, ReleaseClaim, KeeperCrashes
  <2> QED
    BY <2>1, <2>2, VaultFacts
<1>6. letters' = letters \/ (letters' = letters + 1 /\ vault # NoSecret)
  BY DEF EnqueueLetter, ReleaseClaim, KeeperCrashes, KeeperAt, VaultInv, LettersFounded, outbox
<1>7. lapses' \in Nat /\ ClaimHeld'
  <2>1. CASE KeeperCrashes(k)
    BY <2>1, LapseCounts DEF KeeperCrashes, ClaimHeld
  <2>2. CASE EnqueueLetter(k) \/ ReleaseClaim(k)
    <3>1. lapses' = lapses /\ keeper[k].at \in {"enqueue", "release"}
      BY <2>2 DEF EnqueueLetter, ReleaseClaim, KeeperAt
    <3>2. \A j \in Keepers \ {k} : lease.by = j => lease'.by = j
      BY <2>2, VaultFacts DEF EnqueueLetter, ReleaseClaim
    <3> QED
      BY <1>2, <1>3, <1>4, <3>1, <3>2, VaultFacts DEF VaultInv, ClaimHeld, Holding
  <2> QED
    BY <2>1, <2>2
<1> QED
  BY <1>2, <1>3, <1>5, <1>6, <1>7, VaultFacts, KeeperStepped

(* What is noted of the delivery leaves the password of the vault.         *)
LEMMA DeliverySaved ==
  ASSUME VaultInv, vault # NoSecret, NEW delivery \in {"PENDING", "SENT", "FAILED"},
         vault' = vault \/ vault' = [vault EXCEPT !.delivery = delivery]
  PROVE  /\ vault' \in Secret /\ vault' # NoSecret /\ vault'.password = vault.password
         /\ vault'.delivery \in {vault.delivery, delivery}
<1>1. vault \in Secret
  BY VaultFacts
<1> QED
  BY <1>1 DEF Secret, NoSecret

LEMMA ReturnExistingStep ==
  ASSUME VaultInv, NEW k \in Keepers, ReturnExisting(k)
  PROVE  VaultInv'
<1>1. /\ keeper[k] \in KeeperCall /\ keeper[k].at = "existing" /\ k \notin Reached
      /\ vault # NoSecret
  BY VaultFacts DEF ReturnExisting, KeeperAt, Reached, VaultInv, LettersFounded
<1>2. /\ vault' \in Secret /\ vault' # NoSecret /\ vault'.password = vault.password
      /\ vault'.delivery \in {vault.delivery, "PENDING"}
  BY <1>1, DeliverySaved DEF ReturnExisting
<1>3. PICK step \in {"enqueue", "release"} : KeeperTo(k, step)
  BY DEF ReturnExisting
<1>4. PICK w : w = [keeper[k] EXCEPT !.at = step]
  OBVIOUS
<1>5. w \in KeeperCall /\ w.at = step
  BY <1>1, <1>4 DEF KeeperCall
<1>6. keeper' = [keeper EXCEPT ![k] = w]
  BY <1>3, <1>4 DEF KeeperTo
<1>7. /\ keeper' \in [Keepers -> KeeperCall] /\ keeper'[k] = w
      /\ \A j \in Keepers \ {k} : keeper'[j] = keeper[j]
      /\ password <= Cardinality(Reached')
  BY <1>1, <1>5, <1>6, KeeperMoved
<1>8. UNCHANGED <<password, lease, letters, postman, resend, mailed, lapses, crossed>>
  BY DEF ReturnExisting, outbox
<1>9. VaultTypeOK'
  BY <1>2, <1>7, <1>8 DEF VaultInv, VaultTypeOK
<1>10. LettersFounded'
  BY <1>2 DEF LettersFounded
<1>11. ClaimHeld'
  BY <1>1, <1>2, <1>5, <1>7, <1>8 DEF VaultInv, ClaimHeld, Holding
<1>12. MailFollows'
  BY <1>2, <1>8 DEF VaultInv, MailFollows
<1> QED
  BY <1>7, <1>8, <1>9, <1>10, <1>11, <1>12 DEF VaultInv

LEMMA SaveSecretStep ==
  ASSUME VaultInv, NEW k \in Keepers, SaveSecret(k)
  PROVE  VaultInv'
<1>1. keeper[k] \in KeeperCall /\ keeper[k].at = "record"
  BY VaultFacts DEF SaveSecret, KeeperAt
<1>2. UNCHANGED <<password, lease, letters, postman, resend, mailed, lapses>>
  BY DEF SaveSecret, outbox
<1>3. CASE keeper[k].copy = NoSecret /\ Exists
  <2>1. PICK w : w = [keeper[k] EXCEPT !.at = "release"]
    OBVIOUS
  <2>2. w \in KeeperCall /\ w.at = "release"
    BY <1>1, <2>1 DEF KeeperCall
  <2>3. keeper' = [keeper EXCEPT ![k] = w] /\ UNCHANGED <<vault, crossed>>
    BY <1>3, <2>1 DEF SaveSecret, KeeperTo
  <2>4. ClaimHeld'
    BY <1>1, <1>2, <1>3 DEF VaultInv, ClaimHeld, Exists
  <2> QED
    BY <1>2, <2>2, <2>3, <2>4, VaultFacts, KeeperStepped
<1>4. CASE ~(keeper[k].copy = NoSecret /\ Exists)
  <2>1. PICK delivery \in {"PENDING", "NOT_QUEUED"} :
          vault' = [password |-> keeper[k].got, delivery |-> delivery]
    BY <1>4 DEF SaveSecret
  <2>2. vault' \in Secret /\ vault'.password = keeper[k].got /\ vault' # NoSecret
        /\ vault'.delivery # "SENT"
    <3>1. keeper[k].got \in Passwords
      BY <1>1 DEF KeeperCall
    <3> QED
      BY <2>1, <3>1 DEF Secret, NoSecret
  <2>3. PICK step : step = IF keeper[k].mail THEN "enqueue" ELSE "release"
    OBVIOUS
  <2>4. PICK w : w = [keeper[k] EXCEPT !.at = step]
    OBVIOUS
  <2>5. w \in KeeperCall /\ w.at = step /\ step \in {"enqueue", "release"}
    BY <1>1, <2>3, <2>4 DEF KeeperCall
  <2>6. keeper' = [keeper EXCEPT ![k] = w]
    BY <1>4, <2>3, <2>4 DEF SaveSecret, KeeperTo
  <2>7. /\ keeper' \in [Keepers -> KeeperCall] /\ keeper'[k] = w
        /\ \A j \in Keepers \ {k} : keeper'[j] = keeper[j]
        /\ password <= Cardinality(Reached')
    BY <2>5, <2>6, KeeperMoved
  <2>8. crossed' \in BOOLEAN /\ (~crossed' => \A p \in Postmen : postman[p] = NoJob)
    BY <1>4, VaultFacts DEF SaveSecret
  <2>9. VaultTypeOK'
    BY <1>2, <2>2, <2>7, <2>8 DEF VaultInv, VaultTypeOK
  <2>10. LettersFounded'
    BY <2>2 DEF LettersFounded
  <2>11. ClaimHeld'
    BY <1>1, <1>2, <2>2, <2>5, <2>7 DEF VaultInv, ClaimHeld, Holding
  <2>12. MailFollows'
    BY <1>2, <2>2, <2>8 DEF MailFollows, NoJob
  <2> QED
    BY <1>2, <2>7, <2>9, <2>10, <2>11, <2>12 DEF VaultInv
<1> QED
  BY <1>3, <1>4

LEMMA ClaimLapsesStep ==
  ASSUME VaultInv, ClaimLapses
  PROVE  VaultInv'
<1>1. lease'.by = lease.by /\ lease' \in [by : Keepers \cup {Nobody}, stale : BOOLEAN]
  BY VaultFacts DEF ClaimLapses
<1> QED
  BY <1>1 DEF ClaimLapses, outbox, VaultInv, VaultTypeOK, Reached, LettersFounded, Resending,
    ClaimHeld, Holding, MailFollows

(* A step of a mail job: calls and claim are left alone, the password too. *)
LEMMA PostmanStepped ==
  ASSUME VaultInv, NEW p \in Postmen, NEW j \in PostmanJob,
         postman' = [postman EXCEPT ![p] = j],
         vault' = vault \/ (vault # NoSecret /\ vault' # NoSecret),
         vault' \in Secret, vault'.password = vault.password,
         j.at # "idle" => vault # NoSecret /\ (~crossed => j.copy.password = vault.password),
         j.at = "sent" => (~crossed => mailed' = vault.password),
         vault'.delivery = "SENT" => vault.delivery = "SENT" \/ (~crossed => mailed = vault.password),
         mailed' \in Passwords,
         mailed' # mailed => (~crossed => mailed' = vault.password),
         letters' \in Nat, resend' \in Script,
         letters' > 0 \/ Resending' => vault # NoSecret,
         lapses' = lapses \/ (lapses' \in Nat /\ lapses' # 0),
         UNCHANGED <<password, lease, keeper, crossed>>
  PROVE  VaultInv'
<1>1. /\ postman' \in [Postmen -> PostmanJob] /\ postman'[p] = j
      /\ \A q \in Postmen \ {p} : postman'[q] = postman[q]
  BY VaultFacts
<1>2. VaultTypeOK'
  BY <1>1, VaultFacts DEF VaultInv, VaultTypeOK
<1>3. LettersFounded'
  BY <1>1 DEF VaultInv, LettersFounded
<1>4. ClaimHeld'
  BY DEF VaultInv, ClaimHeld, Holding
<1>5. MailFollows'
  BY <1>1 DEF VaultInv, MailFollows
<1>6. password' <= Cardinality(Reached')
  BY DEF VaultInv, Reached
<1> QED
  BY <1>2, <1>3, <1>4, <1>5, <1>6 DEF VaultInv

LEMMA TakeLetterStep ==
  ASSUME VaultInv, NEW p \in Postmen, TakeLetter(p)
  PROVE  VaultInv'
<1>1. /\ postman[p] = NoJob /\ vault # NoSecret /\ vault \in Secret /\ letters' \in Nat
      /\ postman[p] \in PostmanJob /\ mailed \in Passwords /\ resend \in Script
  BY VaultFacts DEF TakeLetter, VaultInv, LettersFounded
<1>2. UNCHANGED <<vault, password, lease, keeper, resend, mailed, lapses, crossed>>
  BY DEF TakeLetter
<1>3. CASE vault.delivery = "SENT"
  <2>1. postman' = [postman EXCEPT ![p] = postman[p]] /\ postman[p].at = "idle"
    BY <1>1, <1>3, VaultFacts DEF TakeLetter, NoJob
  <2> QED
    BY <1>1, <1>2, <2>1, PostmanStepped
<1>4. CASE vault.delivery # "SENT"
  <2>1. PICK j : j = [at |-> "mark", copy |-> vault, force |-> FALSE]
    OBVIOUS
  <2>2. j \in PostmanJob /\ j.at = "mark" /\ j.copy = vault
    BY <1>1, <2>1 DEF PostmanJob
  <2>3. postman' = [postman EXCEPT ![p] = j]
    BY <1>4, <2>1 DEF TakeLetter
  <2> QED
    BY <1>1, <1>2, <2>2, <2>3, PostmanStepped
<1> QED
  BY <1>3, <1>4

LEMMA TakeForcedLetterStep ==
  ASSUME VaultInv, NEW p \in Postmen, TakeForcedLetter(p)
  PROVE  VaultInv'
<1>1. /\ vault \in Secret /\ mailed \in Passwords /\ resend \in Script /\ resend.letters > 0
      /\ letters \in Nat
  BY VaultFacts DEF TakeForcedLetter
<1>2. vault # NoSecret
  BY <1>1 DEF VaultInv, LettersFounded, Resending
<1>3. UNCHANGED <<vault, password, lease, keeper, letters, mailed, lapses, crossed>>
  BY DEF TakeForcedLetter
<1>4. resend' \in Script
  BY <1>1 DEF TakeForcedLetter, Script
<1>5. PICK j : j = [at |-> "mark", copy |-> vault, force |-> TRUE]
  OBVIOUS
<1>6. j \in PostmanJob /\ j.at = "mark" /\ j.copy = vault
  BY <1>1, <1>5 DEF PostmanJob
<1>7. postman' = [postman EXCEPT ![p] = j]
  BY <1>5 DEF TakeForcedLetter
<1> QED
  BY <1>1, <1>2, <1>3, <1>4, <1>6, <1>7, PostmanStepped

LEMMA MarkPendingStep ==
  ASSUME VaultInv, NEW p \in Postmen, MarkPending(p)
  PROVE  VaultInv'
<1>1. postman[p] \in PostmanJob /\ postman[p].at = "mark" /\ vault # NoSecret
  BY VaultFacts DEF MarkPending, VaultInv, LettersFounded
<1>2. /\ vault' \in Secret /\ vault' # NoSecret /\ vault'.password = vault.password
      /\ vault'.delivery \in {vault.delivery, "PENDING"}
  BY <1>1, DeliverySaved DEF MarkPending, SaveDelivery
<1>3. PICK j : j = [postman[p] EXCEPT !.at = "send", !.copy.delivery = "PENDING"]
  OBVIOUS
<1>4. j \in PostmanJob /\ j.at = "send" /\ j.copy.password = postman[p].copy.password
  BY <1>1, <1>3 DEF PostmanJob, Secret
<1>5. postman' = [postman EXCEPT ![p] = j]
  BY <1>1, <1>3, VaultFacts DEF MarkPending
<1>6. ~crossed => postman[p].copy.password = vault.password
  BY <1>1 DEF VaultInv, MailFollows
<1>7. UNCHANGED <<password, lease, keeper, letters, resend, mailed, lapses, crossed>>
  BY DEF MarkPending
<1> QED
  BY <1>1, <1>2, <1>4, <1>5, <1>6, <1>7, VaultFacts, PostmanStepped DEF Resending

LEMMA SendCredentialsStep ==
  ASSUME VaultInv, NEW p \in Postmen, SendCredentials(p)
  PROVE  VaultInv'
<1>1. /\ postman[p] \in PostmanJob /\ postman[p].at = "send" /\ vault # NoSecret
      /\ ~crossed => postman[p].copy.password = vault.password
  BY VaultFacts DEF SendCredentials, VaultInv, LettersFounded, MailFollows
<1>2. UNCHANGED <<password, lease, keeper, crossed>>
  BY DEF SendCredentials
<1>3. CASE /\ mailed' = postman[p].copy.password
           /\ postman' = [postman EXCEPT ![p].at = "sent"]
           /\ UNCHANGED <<vault, letters, resend, lapses>>
  <2>1. PICK j : j = [postman[p] EXCEPT !.at = "sent"]
    OBVIOUS
  <2>2. j \in PostmanJob /\ j.at = "sent" /\ j.copy = postman[p].copy
    BY <1>1, <2>1 DEF PostmanJob
  <2>3. postman' = [postman EXCEPT ![p] = j] /\ mailed' \in Passwords
    BY <1>1, <1>3, <2>1 DEF PostmanJob, Secret
  <2>4. ~crossed => mailed' = vault.password /\ j.copy.password = vault.password
    BY <1>1, <1>3, <2>2
  <2>5. /\ vault' = vault /\ vault \in Secret /\ letters' \in Nat /\ lapses' = lapses
        /\ resend' \in Script
    BY <1>3, VaultFacts
  <2> QED
    BY <1>1, <1>2, <2>2, <2>3, <2>4, <2>5, PostmanStepped
<1>4. CASE /\ SaveDelivery(postman[p].copy, "FAILED")
           /\ postman' = [postman EXCEPT ![p] = NoJob]
           /\ RetryLetter(p)
           /\ Lapse
           /\ UNCHANGED mailed
  <2>1. /\ vault' \in Secret /\ vault' # NoSecret /\ vault'.password = vault.password
        /\ vault'.delivery \in {vault.delivery, "FAILED"}
    BY <1>1, <1>4, DeliverySaved DEF SaveDelivery
  <2>2. NoJob \in PostmanJob /\ NoJob.at = "idle"
    BY VaultFacts DEF NoJob, PostmanJob
  <2>3. lapses' \in Nat /\ lapses' # 0
    BY <1>4, LapseCounts
  <2>4. letters' \in Nat /\ resend' \in Script
    BY <1>4, VaultFacts DEF RetryLetter, Script
  <2> QED
    BY <1>1, <1>2, <1>4, <2>1, <2>2, <2>3, <2>4, VaultFacts, PostmanStepped
<1> QED
  BY <1>3, <1>4 DEF SendCredentials

LEMMA MarkSentStep ==
  ASSUME VaultInv, NEW p \in Postmen, MarkSent(p)
  PROVE  VaultInv'
<1>1. /\ postman[p] \in PostmanJob /\ postman[p].at = "sent" /\ vault # NoSecret
      /\ ~crossed => mailed = vault.password
  BY VaultFacts DEF MarkSent, VaultInv, LettersFounded, MailFollows
<1>2. /\ vault' \in Secret /\ vault' # NoSecret /\ vault'.password = vault.password
  BY <1>1, DeliverySaved DEF MarkSent, SaveDelivery
<1>3. NoJob \in PostmanJob /\ NoJob.at = "idle"
  BY VaultFacts DEF NoJob, PostmanJob
<1>4. /\ postman' = [postman EXCEPT ![p] = NoJob]
      /\ UNCHANGED <<password, lease, keeper, letters, resend, mailed, lapses, crossed>>
  BY DEF MarkSent
<1> QED
  BY <1>1, <1>2, <1>3, <1>4, VaultFacts, PostmanStepped

(* The script's steps save at most the delivery.                           *)
LEMMA ResendStep ==
  ASSUME VaultInv, LoadForResend \/ RenewDelivery \/ ForceLetter
  PROVE  VaultInv'
<1>1. /\ UNCHANGED <<password, lease, keeper, letters, postman, mailed, lapses, crossed>>
      /\ vault # NoSecret /\ vault \in Secret /\ resend \in Script
  BY VaultFacts DEF LoadForResend, RenewDelivery, ForceLetter, Exists, VaultInv, LettersFounded,
    Resending
<1>2. resend' \in Script
  <2>1. CASE LoadForResend
    BY <1>1, <2>1 DEF LoadForResend, Script
  <2>2. CASE RenewDelivery
    <3>1. NoSecret \in Secret
      BY VaultFacts
    <3>2. resend' = [resend EXCEPT !.at = "enqueue", !.copy = NoSecret]
      BY <2>2 DEF RenewDelivery
    <3> QED
      BY <1>1, <3>1, <3>2 DEF Script
  <2>3. CASE ForceLetter
    <3>0. PICK n \in Nat : n = resend.letters + 1
      BY <1>1 DEF Script
    <3>1. resend' = [resend EXCEPT !.at = "done", !.letters = n]
      BY <2>3, <3>0 DEF ForceLetter, Script
    <3> QED
      BY <1>1, <3>1 DEF Script
  <2> QED
    BY <2>1, <2>2, <2>3
<1>3. /\ vault' \in Secret /\ vault' # NoSecret /\ vault'.password = vault.password
      /\ vault'.delivery \in {vault.delivery, "PENDING"}
  <2>1. vault' = vault \/ vault' = [vault EXCEPT !.delivery = "PENDING"]
    BY DEF LoadForResend, RenewDelivery, ForceLetter, SaveDelivery
  <2> QED
    BY <1>1, <2>1, DeliverySaved
<1>4. VaultTypeOK'
  BY <1>1, <1>2, <1>3 DEF VaultInv, VaultTypeOK
<1>5. LettersFounded'
  BY <1>3 DEF LettersFounded
<1>6. ClaimHeld'
  BY <1>1, <1>3 DEF VaultInv, ClaimHeld, Holding
<1>7. MailFollows' /\ password' <= Cardinality(Reached')
  BY <1>1, <1>3 DEF VaultInv, MailFollows, Reached
<1> QED
  BY <1>4, <1>5, <1>6, <1>7 DEF VaultInv

LEMMA VaultInitInductive == VaultInit => VaultInv
<1> SUFFICES ASSUME VaultInit PROVE VaultInv
  OBVIOUS
<1>1. 0 \in Passwords /\ NoSecret \in Secret
  BY VaultAssumption DEF Passwords, NoSecret, Secret
<1>2. /\ NotCalled \in KeeperCall /\ NotCalled.at = "idle"
      /\ NoJob \in PostmanJob /\ NoJob.at = "idle"
  BY <1>1 DEF NotCalled, KeeperCall, NoJob, PostmanJob
<1>3. lease \in [by : Keepers \cup {Nobody}, stale : BOOLEAN]
  BY DEF VaultInit
<1>4. VaultTypeOK
  <2>1. keeper \in [Keepers -> KeeperCall] /\ postman \in [Postmen -> PostmanJob]
    BY <1>2 DEF VaultInit
  <2>2. {password, mailed} \subseteq Passwords /\ {letters, lapses} \subseteq Nat
    BY <1>1 DEF VaultInit
  <2>3. resend \in Script
    BY <1>1 DEF VaultInit, Script
  <2> QED
    BY <1>1, <1>3, <2>1, <2>2, <2>3 DEF VaultInit, VaultTypeOK
<1>5. password <= Cardinality(Reached)
  <2>1. Reached = {}
    BY <1>2 DEF VaultInit, Reached
  <2> QED
    BY <2>1, FS_EmptySet DEF VaultInit
<1>6. LettersFounded /\ ClaimHeld
  BY <1>2 DEF VaultInit, LettersFounded, Resending, ClaimHeld, Holding, NoSecret
<1>7. MailFollows
  BY <1>2 DEF VaultInit, MailFollows, NoSecret
<1> QED
  BY <1>4, <1>5, <1>6, <1>7 DEF VaultInv

LEMMA VaultStepInductive == VaultInv /\ [VaultNext]_vaultVars => VaultInv'
<1> SUFFICES ASSUME VaultInv, [VaultNext]_vaultVars PROVE VaultInv'
  OBVIOUS
<1>1. CASE UNCHANGED vaultVars
  BY <1>1 DEF vaultVars, VaultInv, VaultTypeOK, Reached, LettersFounded, Resending, ClaimHeld,
    Holding, MailFollows
<1>2. ASSUME NEW k \in Keepers,
             EnsureCredential(k) \/ FindSecret(k) \/ ReturnExisting(k)
               \/ ClaimCredential(k) \/ CreateNativeCredential(k) \/ SaveSecret(k)
               \/ EnqueueLetter(k) \/ ReleaseClaim(k) \/ KeeperCrashes(k)
      PROVE  VaultInv'
  BY <1>2, EnsureCredentialStep, FindSecretStep, ReturnExistingStep, ClaimCredentialStep,
     CreateNativeStep, SaveSecretStep, KeeperLeavesStep
<1>3. ASSUME NEW p \in Postmen,
             TakeLetter(p) \/ TakeForcedLetter(p) \/ MarkPending(p)
               \/ SendCredentials(p) \/ MarkSent(p)
      PROVE  VaultInv'
  BY <1>3, TakeLetterStep, TakeForcedLetterStep, MarkPendingStep, SendCredentialsStep, MarkSentStep
<1> QED
  BY <1>1, <1>2, <1>3, ClaimLapsesStep, ResendStep DEF VaultNext

(* The vault's record, the claim, calls and mail jobs keep their types.    *)
THEOREM VaultTyped == VaultSpec => []VaultTypeOK
<1>1. VaultInv => VaultTypeOK
  BY DEF VaultInv
<1> QED
  BY <1>1, VaultInitInductive, VaultStepInductive, PTL DEF VaultSpec

(* However many calls create and rotate the password at once, once none is *)
(* under way the vault holds the password Trader checks, unless a call     *)
(* crashed, failed at Trader or outlived its claim.                        *)
THEOREM VaultFollowsTrader == VaultSpec => []VaultMatchesTrader
<1>1. VaultInv => VaultMatchesTrader
  BY DEF VaultInv, ClaimHeld, VaultMatchesTrader, Working
<1> QED
  BY <1>1, VaultInitInductive, VaultStepInductive, PTL DEF VaultSpec

(* A password marked as sent is the one mailed last, whatever jobs of the  *)
(* worker repeat the mail, unless a password was saved during a mail.      *)
THEOREM SentIsCurrent == VaultSpec => []MailedIsCurrent
<1>1. VaultInv => MailedIsCurrent
  BY DEF VaultInv, MailFollows, MailedIsCurrent
<1> QED
  BY <1>1, VaultInitInductive, VaultStepInductive, PTL DEF VaultSpec

-----------------------------------------------------------------------------
(* The snapshots of the valuation.                                         *)

(* A process with a snapshot at work or scheduled.                         *)
Busy(i) ==
  \/ projector[i].at # "idle"
  \/ scheduler[i].pending # 0
  \/ scheduler[i].retry # 0

(* The lock is held by a projection that reads the newest snapshot again   *)
(* when it releases it, so that one which finds the lock taken may drop    *)
(* its own; what a projection has processed the engine has seen.           *)
ProjectionsOK ==
  /\ \A i \in Instances : projector[i].at \in {"process", "release"} => projector[i].token
  /\ lock # Unlocked => projector[lock].at \in {"process", "release"}
  /\ \A i \in Instances :
       projector[i].at = "release" /\ ~projector[i].failed => projected >= projector[i].chosen
  /\ projected >= newest \/ \E i \in Instances : Busy(i)

SnapshotInv ==
  /\ SnapshotTypeOK
  /\ \A i \in Instances : projector[i].at # "idle" => projector[i].event # 0
  /\ ~dropped => ProjectionsOK

Due == [pending : Ranks, retry : Ranks]

LEMMA SnapshotFacts ==
  ASSUME SnapshotInv
  PROVE  /\ Ranks \subseteq Nat /\ 0 \in Ranks
         /\ newest \in Ranks /\ projected \in Ranks
         /\ lock \in Instances \cup {Unlocked} /\ Unlocked \notin Instances
         /\ scheduler \in [Instances -> Due] /\ projector \in [Instances -> Projection]
         /\ NoProjection \in Projection /\ NothingDue \in Due /\ NoProjection.at = "idle"
         /\ upsets \in 0..MaxUpsets /\ deliveries \in 0..MaxDeliveries /\ dropped \in BOOLEAN
<1>1. Ranks \subseteq Nat /\ 0 \in Ranks
  BY SnapshotAssumption DEF Ranks
<1> QED
  BY <1>1, SnapshotAssumption
     DEF SnapshotInv, SnapshotTypeOK, Due, NoProjection, Projection, NothingDue

(* The later of two snapshots.                                             *)
LEMMA NewerIs ==
  ASSUME NEW a \in Ranks, NEW b \in Ranks
  PROVE  Newer(a, b) \in {a, b} /\ Newer(a, b) >= a /\ Newer(a, b) >= b
<1>1. a \in Nat /\ b \in Nat
  BY SnapshotAssumption DEF Ranks
<1>2. \E x \in {a, b} : \A y \in {a, b} : x >= y
  <2>1. CASE a >= b
    BY <1>1, <2>1
  <2>2. CASE b >= a
    BY <1>1, <2>2
  <2> QED
    BY <1>1, <2>1, <2>2
<1>3. PICK m : m = Newer(a, b)
  OBVIOUS
<1>4. m \in {a, b} /\ \A y \in {a, b} : m >= y
  BY <1>2, <1>3 DEF Newer, Max
<1> QED
  BY <1>3, <1>4

LEMMA EnqueuedIs ==
  ASSUME SnapshotInv, NEW due \in Due, NEW event \in Ranks
  PROVE  /\ Enqueued(due, event) \in Due
         /\ event # 0 => Enqueued(due, event).pending # 0
<1>1. Newer(due.pending, event) \in Ranks /\ Newer(due.pending, event) >= event
  BY NewerIs DEF Due
<1>2. Enqueued(due, event) \in Due /\ Enqueued(due, event).pending = Newer(due.pending, event)
  BY <1>1, SnapshotFacts DEF Enqueued, Due
<1>3. event \in Nat /\ Newer(due.pending, event) \in Nat
  BY <1>1, SnapshotFacts
<1> QED
  BY <1>1, <1>2, <1>3

(* What a projection leaves behind: a failed one is tried again, another   *)
(* leaves pending what is pending.                                         *)
LEMMA SettleIs ==
  ASSUME SnapshotInv, NEW i \in Instances, projector[i].event # 0,
         NEW due \in Due, Settle(i, due)
  PROVE  \E new \in Due :
           /\ scheduler' = [scheduler EXCEPT ![i] = new]
           /\ projector[i].failed => new.retry # 0
           /\ ~projector[i].failed => new.pending = due.pending
<1>1. projector[i].event \in Ranks /\ due.retry \in Ranks
  BY SnapshotFacts DEF Projection, Due
<1>2. PICK failed, event : failed = projector[i].failed /\ event = projector[i].event
  OBVIOUS
<1>3. PICK new : new = IF failed THEN [due EXCEPT !.retry = Newer(@, event)]
                       ELSE [due EXCEPT !.retry = IF event >= @ THEN 0 ELSE @]
  OBVIOUS
<1>4. Newer(due.retry, event) \in Ranks /\ Newer(due.retry, event) # 0
  <2>1. /\ Newer(due.retry, event) \in {due.retry, event} /\ Newer(due.retry, event) >= event
        /\ event # 0
    BY <1>1, <1>2, NewerIs
  <2>2. event \in Nat /\ Newer(due.retry, event) \in Nat /\ Newer(due.retry, event) \in Ranks
    BY <1>1, <1>2, <2>1, SnapshotFacts
  <2> QED
    BY <2>1, <2>2
<1>5. new \in Due /\ (failed => new.retry # 0) /\ (~failed => new.pending = due.pending)
  BY <1>1, <1>3, <1>4, SnapshotFacts DEF Due
<1>6. scheduler' = [scheduler EXCEPT ![i] = new]
  BY <1>2, <1>3 DEF Settle, Retried
<1> QED
  BY <1>2, <1>5, <1>6

LEMMA UpsetTyped ==
  ASSUME SnapshotInv, Upset
  PROVE  upsets' \in 0..MaxUpsets
BY SnapshotFacts, SnapshotAssumption DEF Upset

(* What a step of process i has to show of the projections.                *)
Kept(i, work, due) ==
  /\ ~dropped
  /\ work.at \in {"process", "release"} => work.token
  /\ lock' \in {Unlocked, lock, i}
  /\ lock' = i => work.at \in {"process", "release"}
  /\ work.at = "release" /\ ~work.failed => projected' >= work.chosen
  /\ projected' >= projected
  /\ \/ work.at # "idle"
     \/ due.pending # 0
     \/ due.retry # 0
     \/ projected' >= newest'
     \/ \E j \in Instances \ {i} : Busy(j)

SharedTyped ==
  /\ newest \in Ranks /\ projected \in Ranks
  /\ lock \in Instances \cup {Unlocked}
  /\ deliveries \in 0..MaxDeliveries /\ upsets \in 0..MaxUpsets /\ dropped \in BOOLEAN

LEMMA ProcessStepped ==
  ASSUME SnapshotInv, NEW i \in Instances, NEW work \in Projection, NEW due \in Due,
         projector' = [projector EXCEPT ![i] = work],
         scheduler' = [scheduler EXCEPT ![i] = due],
         SharedTyped', work.at # "idle" => work.event # 0,
         ~dropped' => Kept(i, work, due)
  PROVE  SnapshotInv'
<1>1. /\ projector' \in [Instances -> Projection] /\ projector'[i] = work
      /\ scheduler' \in [Instances -> Due] /\ scheduler'[i] = due
      /\ \A j \in Instances \ {i} :
           projector'[j] = projector[j] /\ scheduler'[j] = scheduler[j]
  BY SnapshotFacts
<1>2. SnapshotTypeOK'
  BY <1>1 DEF SnapshotTypeOK, SharedTyped, Due
<1>3. \A j \in Instances : projector'[j].at # "idle" => projector'[j].event # 0
  BY <1>1 DEF SnapshotInv
<1>4. ASSUME ~dropped' PROVE ProjectionsOK'
  <2>0. Kept(i, work, due)
    BY <1>4
  <2>1. ProjectionsOK
    BY <2>0 DEF Kept, SnapshotInv
  <2>2. \A j \in Instances : projector'[j].at \in {"process", "release"} => projector'[j].token
    BY <1>1, <2>0, <2>1 DEF Kept, ProjectionsOK
  <2>3. lock' # Unlocked => projector'[lock'].at \in {"process", "release"}
    BY <1>1, <2>0, <2>1, SnapshotFacts DEF Kept, ProjectionsOK
  <2>4. ASSUME NEW j \in Instances, projector'[j].at = "release", ~projector'[j].failed
        PROVE  projected' >= projector'[j].chosen
    <3>1. CASE j = i
      BY <1>1, <2>0, <2>4, <3>1 DEF Kept
    <3>2. CASE j # i
      <4>1. projected >= projector[j].chosen /\ projected' >= projected
            /\ projector'[j] = projector[j]
        BY <1>1, <2>0, <2>1, <2>4, <3>2 DEF Kept, ProjectionsOK
      <4>2. projected \in Nat /\ projected' \in Nat /\ projector[j].chosen \in Nat
        BY SnapshotFacts DEF Projection, SharedTyped
      <4> QED
        BY <4>1, <4>2
    <3> QED
      BY <3>1, <3>2
  <2>5. projected' >= newest' \/ \E j \in Instances : Busy(j)'
    BY <1>1, <2>0 DEF Kept, Busy
  <2> QED
    BY <2>2, <2>3, <2>4, <2>5 DEF ProjectionsOK
<1> QED
  BY <1>2, <1>3, <1>4 DEF SnapshotInv

LEMMA ReceiveSnapshotStep ==
  ASSUME SnapshotInv, NEW i \in Instances, ReceiveSnapshot(i)
  PROVE  SnapshotInv'
<1>1. projector[i] \in Projection /\ scheduler[i] \in Due
      /\ projector' = [projector EXCEPT ![i] = projector[i]]
  BY SnapshotFacts DEF ReceiveSnapshot
<1>2. deliveries' \in 0..MaxDeliveries /\ lock' = lock /\ projected' = projected
  BY SnapshotFacts, SnapshotAssumption DEF ReceiveSnapshot
<1>3. projector[i].at # "idle" => projector[i].event # 0
  BY DEF SnapshotInv
<1>4. ~dropped =>
        /\ projector[i].at \in {"process", "release"} => projector[i].token
        /\ lock = i => projector[i].at \in {"process", "release"}
        /\ projector[i].at = "release" /\ ~projector[i].failed => projected >= projector[i].chosen
        /\ \/ projector[i].at # "idle" \/ scheduler[i].pending # 0 \/ scheduler[i].retry # 0
           \/ projected >= newest
           \/ \E j \in Instances \ {i} : Busy(j)
  BY SnapshotFacts DEF SnapshotInv, ProjectionsOK, Busy
<1>5. projected >= projected
  BY SnapshotFacts
<1>6. PICK event \in Ranks \ {0} :
        \/ /\ newest' = event
           /\ scheduler' = [scheduler EXCEPT ![i] = Enqueued(@, event)]
           /\ UNCHANGED <<upsets, dropped>>
        \/ UNCHANGED <<newest, scheduler, upsets, dropped>>
        \/ /\ Upset
           /\ scheduler' = [scheduler EXCEPT ![i] = Enqueued(@, event)]
           /\ dropped' = TRUE
           /\ UNCHANGED newest
  BY DEF ReceiveSnapshot
<1>7. PICK due : due = Enqueued(scheduler[i], event)
  OBVIOUS
<1>8. due \in Due /\ due.pending # 0
  BY <1>1, <1>7, EnqueuedIs
<1>9. CASE UNCHANGED <<newest, scheduler, upsets, dropped>>
  <2>1. scheduler' = [scheduler EXCEPT ![i] = scheduler[i]]
    BY <1>9, SnapshotFacts
  <2>2. SharedTyped'
    BY <1>2, <1>9, SnapshotFacts DEF SharedTyped
  <2>3. ~dropped' => Kept(i, projector[i], scheduler[i])
    BY <1>2, <1>4, <1>5, <1>9 DEF Kept
  <2> QED
    BY <1>1, <1>3, <2>1, <2>2, <2>3, ProcessStepped
<1>10. CASE newest' = event /\ scheduler' = [scheduler EXCEPT ![i] = due]
            /\ UNCHANGED <<upsets, dropped>>
  <2>1. SharedTyped'
    BY <1>2, <1>10, SnapshotFacts DEF SharedTyped
  <2>2. ~dropped' => Kept(i, projector[i], due)
    BY <1>2, <1>4, <1>5, <1>8, <1>10 DEF Kept
  <2> QED
    BY <1>1, <1>3, <1>8, <1>10, <2>1, <2>2, ProcessStepped
<1>11. CASE Upset /\ scheduler' = [scheduler EXCEPT ![i] = due] /\ dropped' = TRUE
            /\ UNCHANGED newest
  <2>1. SharedTyped'
    BY <1>2, <1>11, UpsetTyped, SnapshotFacts DEF SharedTyped
  <2> QED
    BY <1>1, <1>3, <1>8, <1>11, <2>1, ProcessStepped
<1> QED
  BY <1>6, <1>7, <1>9, <1>10, <1>11

LEMMA DrainStep ==
  ASSUME SnapshotInv, NEW i \in Instances, Drain(i)
  PROVE  SnapshotInv'
<1>1. scheduler[i] \in Due /\ scheduler[i].pending # 0 /\ projector[i].at = "idle"
  BY SnapshotFacts DEF Drain
<1>2. PICK work : work = [NoProjection EXCEPT !.at = "acquire", !.event = scheduler[i].pending]
  OBVIOUS
<1>3. work \in Projection /\ work.at = "acquire" /\ work.event = scheduler[i].pending
  BY <1>1, <1>2, SnapshotFacts DEF Projection, NoProjection, Due
<1>4. PICK due : due = [scheduler[i] EXCEPT !.pending = 0]
  OBVIOUS
<1>5. due \in Due
  BY <1>1, <1>4, SnapshotFacts DEF Due
<1>6. /\ projector' = [projector EXCEPT ![i] = work] /\ scheduler' = [scheduler EXCEPT ![i] = due]
      /\ UNCHANGED <<newest, lock, projected, deliveries, upsets, dropped>>
  BY <1>2, <1>4 DEF Drain
<1>7. SharedTyped'
  BY <1>6, SnapshotFacts DEF SharedTyped
<1>8. ~dropped => lock # i
  BY <1>1, SnapshotFacts DEF SnapshotInv, ProjectionsOK
<1>9. projected >= projected
  BY SnapshotFacts
<1>10. ~dropped' => Kept(i, work, due)
  BY <1>3, <1>6, <1>8, <1>9 DEF Kept
<1> QED
  BY <1>1, <1>3, <1>5, <1>6, <1>7, <1>10, ProcessStepped

LEMMA AcquireLockStep ==
  ASSUME SnapshotInv, NEW i \in Instances, AcquireLock(i)
  PROVE  SnapshotInv'
<1>1. /\ projector[i] \in Projection /\ projector[i].at = "acquire" /\ projector[i].event # 0
      /\ scheduler[i] \in Due
  BY SnapshotFacts DEF AcquireLock, SnapshotInv
<1>2. UNCHANGED <<newest, projected, deliveries, upsets, dropped>> /\ projected >= projected
  BY SnapshotFacts DEF AcquireLock
<1>3. CASE lock = Unlocked
  <2>1. PICK work : work = [projector[i] EXCEPT
            !.at = "process", !.token = TRUE, !.chosen = Newer(projector[i].event, newest)]
    OBVIOUS
  <2>2. Newer(projector[i].event, newest) \in Ranks
    <3>1. projector[i].event \in Ranks /\ newest \in Ranks
      BY <1>1, SnapshotFacts DEF Projection
    <3> QED
      BY <3>1, NewerIs
  <2>3. /\ work \in Projection /\ work.at = "process" /\ work.token /\ work.event = projector[i].event
    BY <1>1, <2>1, <2>2 DEF Projection
  <2>4. /\ projector' = [projector EXCEPT ![i] = work]
        /\ scheduler' = [scheduler EXCEPT ![i] = scheduler[i]]
        /\ lock' = i
    BY <1>3, <2>1, SnapshotFacts DEF AcquireLock
  <2>5. SharedTyped'
    BY <1>2, <2>4, SnapshotFacts DEF SharedTyped
  <2>6. ~dropped' => Kept(i, work, scheduler[i])
    BY <1>2, <2>3, <2>4 DEF Kept
  <2> QED
    BY <1>1, <2>3, <2>4, <2>5, <2>6, ProcessStepped
<1>4. CASE lock # Unlocked
  <2>1. PICK due : due = [scheduler[i] EXCEPT
                            !.retry = IF projector[i].event >= @ THEN 0 ELSE @]
    OBVIOUS
  <2>2. due \in Due
    BY <1>1, <2>1, SnapshotFacts DEF Due
  <2>3. /\ projector' = [projector EXCEPT ![i] = NoProjection]
        /\ scheduler' = [scheduler EXCEPT ![i] = due]
        /\ lock' = lock
    BY <1>1, <1>4, <2>1, SnapshotFacts DEF AcquireLock, Succeeds
  <2>4. ~dropped => lock # i /\ \E j \in Instances \ {i} : Busy(j)
    <3>1. ~dropped => projector[lock].at \in {"process", "release"}
      BY <1>4 DEF SnapshotInv, ProjectionsOK
    <3> QED
      BY <1>1, <1>4, <3>1, SnapshotFacts DEF Busy
  <2>5. SharedTyped'
    BY <1>2, <2>3, SnapshotFacts DEF SharedTyped
  <2>6. ~dropped' => Kept(i, NoProjection, due)
    BY <1>2, <2>3, <2>4, SnapshotFacts DEF Kept
  <2>7. NoProjection \in Projection /\ NoProjection.at = "idle"
    BY SnapshotFacts
  <2> QED
    BY <2>2, <2>3, <2>5, <2>6, <2>7, ProcessStepped
<1> QED
  BY <1>3, <1>4

LEMMA ProjectUnlockedStep ==
  ASSUME SnapshotInv, NEW i \in Instances, ProjectUnlocked(i)
  PROVE  SnapshotInv'
<1>1. /\ projector[i] \in Projection /\ projector[i].event # 0 /\ scheduler[i] \in Due
  BY SnapshotFacts DEF ProjectUnlocked, SnapshotInv
<1>2. PICK work : work = [projector[i] EXCEPT !.at = "process", !.chosen = projector[i].event]
  OBVIOUS
<1>3. work \in Projection /\ work.event = projector[i].event
  BY <1>1, <1>2 DEF Projection
<1>4. /\ projector' = [projector EXCEPT ![i] = work]
      /\ scheduler' = [scheduler EXCEPT ![i] = scheduler[i]]
      /\ Upset /\ dropped' = TRUE /\ UNCHANGED <<newest, lock, projected, deliveries>>
  BY <1>2, SnapshotFacts DEF ProjectUnlocked
<1>5. SharedTyped'
  BY <1>4, UpsetTyped, SnapshotFacts DEF SharedTyped
<1> QED
  BY <1>1, <1>3, <1>4, <1>5, ProcessStepped

LEMMA ProcessSnapshotStep ==
  ASSUME SnapshotInv, NEW i \in Instances, ProcessSnapshot(i)
  PROVE  SnapshotInv'
<1>1. /\ projector[i] \in Projection /\ projector[i].at = "process" /\ projector[i].event # 0
      /\ scheduler[i] \in Due /\ scheduler' = [scheduler EXCEPT ![i] = scheduler[i]]
      /\ UNCHANGED <<newest, lock, deliveries, dropped>>
  BY SnapshotFacts DEF ProcessSnapshot, SnapshotInv
<1>2. ~dropped => projector[i].token
  BY <1>1 DEF SnapshotInv, ProjectionsOK
<1>3. CASE /\ projected' = Newer(projected, projector[i].chosen)
           /\ projector' = [projector EXCEPT ![i].at = "release"]
           /\ UNCHANGED upsets
  <2>1. PICK work : work = [projector[i] EXCEPT !.at = "release"]
    OBVIOUS
  <2>2. /\ work \in Projection /\ work.at = "release" /\ work.event = projector[i].event
        /\ work.token = projector[i].token /\ work.chosen = projector[i].chosen
    BY <1>1, <2>1 DEF Projection
  <2>3. projector' = [projector EXCEPT ![i] = work]
    BY <1>3, <2>1
  <2>4. projected' \in Ranks /\ projected' >= projected /\ projected' >= work.chosen
    <3>1. projected \in Ranks /\ projector[i].chosen \in Ranks
      BY <1>1, SnapshotFacts DEF Projection
    <3> QED
      BY <1>3, <2>2, <3>1, NewerIs
  <2>5. SharedTyped'
    BY <1>1, <1>3, <2>4, SnapshotFacts DEF SharedTyped
  <2>6. ~dropped' => Kept(i, work, scheduler[i])
    BY <1>1, <1>2, <2>2, <2>4 DEF Kept
  <2> QED
    BY <1>1, <2>2, <2>3, <2>5, <2>6, ProcessStepped
<1>4. CASE /\ projector' = [projector EXCEPT ![i] = [@ EXCEPT !.at = "release", !.failed = TRUE]]
           /\ Upset
           /\ UNCHANGED projected
  <2>1. PICK work : work = [projector[i] EXCEPT !.at = "release", !.failed = TRUE]
    OBVIOUS
  <2>2. /\ work \in Projection /\ work.at = "release" /\ work.event = projector[i].event
        /\ work.token = projector[i].token /\ work.failed
    BY <1>1, <2>1 DEF Projection
  <2>3. projector' = [projector EXCEPT ![i] = work]
    BY <1>4, <2>1
  <2>4. projected' >= projected
    BY <1>4, SnapshotFacts
  <2>5. SharedTyped'
    BY <1>1, <1>4, UpsetTyped, SnapshotFacts DEF SharedTyped
  <2>6. ~dropped' => Kept(i, work, scheduler[i])
    BY <1>1, <1>2, <2>2, <2>4 DEF Kept
  <2> QED
    BY <1>1, <2>2, <2>3, <2>5, <2>6, ProcessStepped
<1> QED
  BY <1>3, <1>4 DEF ProcessSnapshot

(* A projection ends: a failed one is tried again; another has shown the   *)
(* engine the newest snapshot, or schedules the one that came meanwhile.   *)
LEMMA ReleaseLockStep ==
  ASSUME SnapshotInv, NEW i \in Instances, ReleaseLock(i)
  PROVE  SnapshotInv'
<1>1. /\ projector[i] \in Projection /\ projector[i].at = "release" /\ projector[i].event # 0
      /\ scheduler[i] \in Due
      /\ UNCHANGED <<newest, projected, deliveries, upsets, dropped>>
      /\ projector' = [projector EXCEPT ![i] = NoProjection]
      /\ lock' = IF projector[i].token /\ lock = i THEN Unlocked ELSE lock
  BY SnapshotFacts DEF ReleaseLock, SnapshotInv
<1>2. PICK due : due = IF projector[i].token /\ newest > projector[i].chosen
                       THEN Enqueued(scheduler[i], newest) ELSE scheduler[i]
  OBVIOUS
<1>3. newest \in Nat /\ projected \in Nat /\ projector[i].chosen \in Nat
  BY <1>1, SnapshotFacts DEF Projection
<1>4. Enqueued(scheduler[i], newest) \in Due
      /\ (newest # 0 => Enqueued(scheduler[i], newest).pending # 0)
  BY <1>1, SnapshotFacts, EnqueuedIs
<1>5. due \in Due /\ (projector[i].token /\ newest > projector[i].chosen => due.pending # 0)
  BY <1>1, <1>2, <1>3, <1>4
<1>6. Settle(i, due)
  BY <1>2 DEF ReleaseLock
<1>7. PICK new \in Due :
        /\ scheduler' = [scheduler EXCEPT ![i] = new]
        /\ projector[i].failed => new.retry # 0
        /\ ~projector[i].failed => new.pending = due.pending
  BY <1>1, <1>5, <1>6, SettleIs
<1>8. SharedTyped'
  BY <1>1, SnapshotFacts DEF SharedTyped
<1>9. ASSUME ~dropped' PROVE Kept(i, NoProjection, new)
  <2>1. /\ ~dropped /\ projector[i].token
        /\ ~projector[i].failed => projected >= projector[i].chosen
    BY <1>1, <1>9 DEF SnapshotInv, ProjectionsOK
  <2>2. new.retry # 0 \/ new.pending # 0 \/ projected >= newest
    BY <1>3, <1>5, <1>7, <2>1
  <2>3. lock' \in {Unlocked, lock, i} /\ lock' # i
    BY <1>1, <2>1, SnapshotFacts
  <2>4. projected' >= projected
    BY <1>1, <1>3
  <2> QED
    BY <1>1, <2>1, <2>2, <2>3, <2>4, SnapshotFacts DEF Kept
<1>10. NoProjection \in Projection /\ NoProjection.at = "idle"
  BY SnapshotFacts
<1> QED
  BY <1>1, <1>7, <1>8, <1>9, <1>10, ProcessStepped

LEMMA ReleaseFailsStep ==
  ASSUME SnapshotInv, NEW i \in Instances, ReleaseFails(i)
  PROVE  SnapshotInv'
<1>1. /\ projector[i].event # 0 /\ scheduler[i] \in Due
      /\ UNCHANGED <<newest, lock, projected, deliveries>> /\ Upset /\ dropped' = TRUE
      /\ projector' = [projector EXCEPT ![i] = NoProjection]
      /\ Settle(i, scheduler[i])
  BY SnapshotFacts DEF ReleaseFails, SnapshotInv
<1>2. PICK new \in Due : scheduler' = [scheduler EXCEPT ![i] = new]
  BY <1>1, SettleIs
<1>3. SharedTyped'
  BY <1>1, UpsetTyped, SnapshotFacts DEF SharedTyped
<1>4. NoProjection \in Projection /\ NoProjection.at = "idle"
  BY SnapshotFacts
<1> QED
  BY <1>1, <1>2, <1>3, <1>4, ProcessStepped

LEMMA RetryFiresStep ==
  ASSUME SnapshotInv, NEW i \in Instances, RetryFires(i)
  PROVE  SnapshotInv'
<1>1. /\ projector[i] \in Projection /\ scheduler[i] \in Due /\ scheduler[i].retry # 0
      /\ projector' = [projector EXCEPT ![i] = projector[i]]
      /\ UNCHANGED <<newest, lock, projected, deliveries, upsets, dropped>>
  BY SnapshotFacts DEF RetryFires
<1>2. PICK cleared : cleared = [scheduler[i] EXCEPT !.retry = 0]
  OBVIOUS
<1>3. cleared \in Due /\ scheduler[i].retry \in Ranks
  BY <1>1, <1>2, SnapshotFacts DEF Due
<1>4. PICK due : due = Enqueued(cleared, scheduler[i].retry)
  OBVIOUS
<1>5. due \in Due /\ due.pending # 0
  BY <1>1, <1>3, <1>4, EnqueuedIs
<1>6. scheduler' = [scheduler EXCEPT ![i] = due]
  BY <1>2, <1>4 DEF RetryFires
<1>7. projector[i].at # "idle" => projector[i].event # 0
  BY DEF SnapshotInv
<1>8. SharedTyped'
  BY <1>1, SnapshotFacts DEF SharedTyped
<1>9. ~dropped =>
        /\ projector[i].at \in {"process", "release"} => projector[i].token
        /\ lock = i => projector[i].at \in {"process", "release"}
        /\ projector[i].at = "release" /\ ~projector[i].failed => projected >= projector[i].chosen
  BY SnapshotFacts DEF SnapshotInv, ProjectionsOK
<1>10. projected >= projected
  BY SnapshotFacts
<1>11. ~dropped' => Kept(i, projector[i], due)
  BY <1>1, <1>5, <1>9, <1>10 DEF Kept
<1> QED
  BY <1>1, <1>5, <1>6, <1>7, <1>8, <1>11, ProcessStepped

LEMMA InstanceCrashesStep ==
  ASSUME SnapshotInv, NEW i \in Instances, InstanceCrashes(i)
  PROVE  SnapshotInv'
<1>1. /\ UNCHANGED <<newest, lock, projected, deliveries>> /\ Upset /\ dropped' = TRUE
      /\ projector' = [projector EXCEPT ![i] = NoProjection]
      /\ scheduler' = [scheduler EXCEPT ![i] = NothingDue]
  BY DEF InstanceCrashes
<1>2. SharedTyped'
  BY <1>1, UpsetTyped, SnapshotFacts DEF SharedTyped
<1>3. NoProjection \in Projection /\ NoProjection.at = "idle" /\ NothingDue \in Due
  BY SnapshotFacts
<1> QED
  BY <1>1, <1>2, <1>3, ProcessStepped

LEMMA LockExpiresStep ==
  ASSUME SnapshotInv, LockExpires
  PROVE  SnapshotInv'
<1>1. lock' = Unlocked
      /\ UNCHANGED <<newest, scheduler, projector, projected, deliveries, upsets, dropped>>
  BY DEF LockExpires
<1>2. ProjectionsOK => ProjectionsOK'
  BY <1>1 DEF ProjectionsOK, Busy
<1> QED
  BY <1>1, <1>2 DEF SnapshotInv, SnapshotTypeOK

LEMMA SnapshotInitInductive == SnapshotInit => SnapshotInv
<1> SUFFICES ASSUME SnapshotInit PROVE SnapshotInv
  OBVIOUS
<1>1. 0 \in Ranks /\ 0 \in 0..MaxDeliveries /\ 0 \in 0..MaxUpsets
  BY SnapshotAssumption DEF Ranks
<1>2. /\ projector \in [Instances -> Projection] /\ \A i \in Instances : projector[i].at = "idle"
      /\ scheduler \in [Instances -> [pending : Ranks, retry : Ranks]]
  BY <1>1 DEF SnapshotInit, NoProjection, Projection, NothingDue
<1>3. SnapshotTypeOK
  BY <1>1, <1>2 DEF SnapshotInit, SnapshotTypeOK
<1>4. ProjectionsOK
  BY <1>1, <1>2 DEF SnapshotInit, ProjectionsOK
<1> QED
  BY <1>2, <1>3, <1>4 DEF SnapshotInv

LEMMA SnapshotStepInductive == SnapshotInv /\ [SnapshotNext]_snapshotVars => SnapshotInv'
<1> SUFFICES ASSUME SnapshotInv, [SnapshotNext]_snapshotVars PROVE SnapshotInv'
  OBVIOUS
<1>1. CASE UNCHANGED snapshotVars
  BY <1>1 DEF snapshotVars, SnapshotInv, SnapshotTypeOK, ProjectionsOK, Busy
<1>2. ASSUME NEW i \in Instances,
             ReceiveSnapshot(i) \/ Drain(i) \/ AcquireLock(i) \/ ProjectUnlocked(i)
               \/ ProcessSnapshot(i) \/ ReleaseLock(i) \/ ReleaseFails(i)
               \/ RetryFires(i) \/ InstanceCrashes(i)
      PROVE  SnapshotInv'
  BY <1>2, ReceiveSnapshotStep, DrainStep, AcquireLockStep, ProjectUnlockedStep,
     ProcessSnapshotStep, ReleaseLockStep, ReleaseFailsStep, RetryFiresStep, InstanceCrashesStep
<1> QED
  BY <1>1, <1>2, LockExpiresStep DEF SnapshotNext

(* The stored snapshot, the lock, timers and projections keep their types. *)
THEOREM SnapshotsTyped == SnapshotSpec => []SnapshotTypeOK
<1>1. SnapshotInv => SnapshotTypeOK
  BY DEF SnapshotInv
<1> QED
  BY <1>1, SnapshotInitInductive, SnapshotStepInductive, PTL DEF SnapshotSpec

(* Whatever expires, fails or finds the lock taken, the engine has seen    *)
(* the newest snapshot accepted once no process has one scheduled or at    *)
(* work, unless a crash or a failure of Redis dropped one.                 *)
THEOREM NewestIsProjected == SnapshotSpec => []NothingLeftBehind
<1>1. SnapshotInv => NothingLeftBehind
  BY SnapshotFacts DEF SnapshotInv, ProjectionsOK, NothingLeftBehind, Busy, NothingDue
<1> QED
  BY <1>1, SnapshotInitInductive, SnapshotStepInductive, PTL DEF SnapshotSpec

-----------------------------------------------------------------------------
(* The trading days under repair.                                          *)

(* What a row says of its deal, and what a job knows.                      *)
RowsOK ==
  \A d \in Days : rows[d] \in Deals => rows[d] \in stored /\ rows[d].day = d

JobOK(p) ==
  LET j == booker[p] IN
    j.at # "idle" =>
      /\ j.deal \in stored
      /\ j.version <= count.version
      /\ j.at \in {"upsert", "count"} => j.deal.opens
      /\ j.at = "save" /\ ~j.deal.opens /\ j.version = count.version =>
           j.days = count.days

RepairOK ==
  /\ repair.deals \subseteq stored
  /\ repair.at = "upsert" => repair.todo \subseteq CanonicalDays(repair.deals)
  /\ repair.todo # {} => repair.at \in {"delete", "upsert"}
  /\ repair.at \in {"delete", "upsert", "write"} => repair.attempt < SyncAttempts
  /\ repair.at \in {"look", "write"} => repair.final
  /\ repair.outcome # "none" => repair.at = "done"

(* The openings that are past the upsert of their day.                     *)
Passed(e) ==
  /\ e \in Deals /\ e.opens
  /\ \/ e \in settled
     \/ \E p \in Bookers : booker[p].at \in {"count", "save"} /\ booker[p].deal = e

(* The last reading: no row goes after it, and what comes is an opening.   *)
ReadOK ==
  repair.final =>
    /\ repair.at \in {"read", "plan", "look", "write"}
    /\ repair.at # "read" => repair.have = {"rows", "deals"}
    /\ "deals" \in repair.have =>
         \A e \in stored \ repair.deals : Passed(e) => rows[e.day] # Missing
    /\ "rows" \in repair.have =>
         \A d \in Days :
           /\ repair.rows[d] # Missing => rows[d] = repair.rows[d]
           /\ rows[d] # repair.rows[d] => rows[d] \in stored /\ rows[d].opens
    /\ {"rows", "deals"} \subseteq repair.have /\ ~overlapped =>
         \A e \in Openings(settled \ repair.deals) : repair.rows[e.day] # Missing
    /\ repair.at \in {"look", "write"} => Safe /\ ~Changes

(* The days whose deal is processed.                                       *)
SettledDays == {d \in Recorded(rows) : rows[d] \in settled}

Between(low, n) == Cardinality(low) <= n /\ n <= Cardinality(Recorded(rows))

(* After the repair.                                                       *)
CountOK ==
  /\ Between(SettledDays, count.days)
  /\ count.last \in Recorded(rows) \cup {0}
  /\ \A d \in SettledDays : d <= count.last
  /\ \A p \in Bookers :
       booker[p].at = "save" /\ booker[p].deal.opens /\ booker[p].version = count.version
         => Between(SettledDays \cup {booker[p].deal.day}, booker[p].days)

VerifiedOK ==
  repair.outcome = "verified" =>
    /\ \A e \in stored : Passed(e) => rows[e.day] # Missing
    /\ \A d \in Recorded(rows) : rows[d] \in stored /\ rows[d].opens
    /\ ~overlapped => CountOK

DaysInv ==
  /\ DaysTypeOK
  /\ RowsOK
  /\ \A p \in Bookers : JobOK(p)
  /\ RepairOK
  /\ ReadOK
  /\ VerifiedOK


(* The days are finitely many numbers, and so is every set of them.        *)
LEMMA DaysFinite ==
  /\ IsFiniteSet(Days) /\ Days \subseteq Nat \ {0}
  /\ \A e \in Deals : e.day \in Days /\ e.number \in Nat /\ e.opens \in BOOLEAN
<1>1. \A e \in Deals : e.day \in Nat \ {0} /\ e.number \in Nat /\ e.opens \in BOOLEAN
  BY DaysAssumption
<1>2. IsFiniteSet(Days)
  <2> DEFINE day == [e \in Deals |-> e.day]
  <2>1. day \in Surjection(Deals, Days)
    BY DEF Surjection, Days
  <2> QED
    BY <2>1, DaysAssumption, FS_Surjection DEF ExistsSurjection
<1> QED
  BY <1>1, <1>2 DEF Days

LEMMA SubsetCounts ==
  ASSUME NEW S \in SUBSET Days, NEW T \in SUBSET S
  PROVE  /\ Cardinality(T) \in Nat /\ Cardinality(S) \in Nat
         /\ Cardinality(T) <= Cardinality(S)
         /\ Cardinality(S) \in 0..Cardinality(Days)
<1>1. IsFiniteSet(S) /\ Cardinality(S) <= Cardinality(Days)
  BY DaysFinite, FS_Subset
<1>2. IsFiniteSet(T) /\ Cardinality(T) <= Cardinality(S)
  BY <1>1, FS_Subset
<1>3. Cardinality(T) \in Nat /\ Cardinality(S) \in Nat /\ Cardinality(Days) \in Nat
  BY <1>1, <1>2, DaysFinite, FS_CardinalityType
<1> QED
  BY <1>1, <1>2, <1>3

LEMMA LastOfIs ==
  ASSUME NEW S \in SUBSET Days
  PROVE  LastOf(S) \in S \cup {0} /\ \A d \in S : d <= LastOf(S)
<1>1. S \in SUBSET Nat /\ IsFiniteSet(S)
  BY DaysFinite, FS_Subset
<1>2. CASE S = {}
  BY <1>2 DEF LastOf
<1>3. CASE S # {}
  <2>1. \E x \in S : \A y \in S : x >= y
    BY <1>1, <1>3, LargestIn
  <2>2. Max(S) \in S /\ \A y \in S : Max(S) >= y
    BY <2>1 DEF Max
  <2>3. \A y \in S : y <= Max(S)
    BY <1>1, <2>2
  <2> QED
    BY <1>3, <2>2, <2>3 DEF LastOf
<1> QED
  BY <1>2, <1>3

LEMMA LaterIs ==
  ASSUME NEW a \in Nat, NEW b \in Nat
  PROVE  Max({a, b}) \in {a, b} /\ Max({a, b}) >= a /\ Max({a, b}) >= b
<1>1. \E x \in {a, b} : \A y \in {a, b} : x >= y
  <2>1. CASE a >= b
    BY <2>1
  <2>2. CASE b >= a
    BY <2>2
  <2> QED
    BY <2>1, <2>2
<1> QED
  BY <1>1 DEF Max

(* The row the script writes for a day is an opening of that day.          *)
LEMMA CanonicalIs ==
  ASSUME NEW deals \in SUBSET Deals, NEW d \in CanonicalDays(deals)
  PROVE  Canonical(deals, d) \in Openings(deals) /\ Canonical(deals, d).day = d
<1> DEFINE T == {e \in Openings(deals) : e.day = d}
           N == {e.number : e \in T}
<1>1. T # {}
  BY DEF CanonicalDays
<1>2. N \subseteq Nat /\ N # {}
  BY <1>1, DaysFinite DEF Openings
<1>3. \E n \in N : \A m \in N : ~(<<m, n>> \in OpToRel(<, Nat))
  <2> HIDE DEF N
  <2> QED BY <1>2, NatLessThanWellFounded, WFMin
<1>4. PICK e \in T : \A f \in T : ~(<<f.number, e.number>> \in OpToRel(<, Nat))
  BY <1>3
<1>5. \A f \in T : f.number \in Nat /\ e.number \in Nat
  BY <1>2
<1>6. \A f \in T : ~(f.number < e.number)
  BY <1>4, <1>5 DEF OpToRel
<1>7. \A f \in T : e.number <= f.number
  <2> HIDE DEF T
  <2> QED BY <1>5, <1>6
<1> QED
  BY <1>7 DEF Canonical


(* What the invariant says of the variables' types.                        *)
LEMMA DaysFacts ==
  ASSUME DaysInv
  PROVE  /\ stored \subseteq Deals /\ settled \subseteq stored
         /\ rows \in [Days -> Row] /\ repair \in Repair /\ booker \in [Bookers -> Job]
         /\ Missing \notin Deals /\ Missing # Untraced /\ Untraced \notin Deals
         /\ count \in Count /\ count.version \in Nat /\ count.days \in Nat /\ count.last \in Nat
         /\ halts \in 0..MaxHalts /\ overlapped \in BOOLEAN
         /\ \A p \in Bookers :
              booker[p].version \in Nat /\ booker[p].days \in Nat
<1>1. DaysTypeOK
  BY DEF DaysInv
<1>2. Cardinality(Days) \in Nat
  BY DaysFinite, FS_CardinalityType
<1>3. count.version \in Nat /\ count.days \in Nat /\ count.last \in Nat
  <2>1. count \in Count
    BY <1>1 DEF DaysTypeOK
  <2>2. count.version \in Nat /\ count.days \in 0..Cardinality(Days)
    BY <2>1 DEF Count
  <2>3. count.last \in Days \cup {0}
    BY <2>1 DEF Count
  <2>4. count.days \in Nat
    BY <1>2, <2>2
  <2>5. count.last \in Nat
    <3>1. \A d \in Days \cup {0} : d \in Nat
      BY DaysFinite
    <3> QED
      BY <2>3, <3>1
  <2> QED
    BY <2>2, <2>4, <2>5
<1>4. \A p \in Bookers : booker[p].version \in Nat /\ booker[p].days \in Nat
  BY <1>1, <1>2 DEF DaysTypeOK, Job
<1> QED
  BY <1>1, <1>3, <1>4, DaysAssumption DEF DaysTypeOK

LEMMA NothingTyped == NoJobDeal \in Job /\ NoRepair \in Repair
<1>1. 0 \in 0..Cardinality(Days) /\ 0 \in 0..SyncAttempts
  BY DaysFinite, FS_CardinalityType, DaysAssumption
<1> QED
  BY <1>1 DEF NoJobDeal, Job, NoRepair, Repair, Row

-----------------------------------------------------------------------------
(* The engine's steps.                                                     *)

LEMMA StoreDealStep == ASSUME DaysInv, StoreDeal PROVE DaysInv'
<1> USE DaysFacts
<1>1. PICK e \in Deals \ stored : stored' = stored \cup {e}
  BY DEF StoreDeal
<1>2. UNCHANGED <<settled, rows, count, booker, repair, halts, overlapped>>
  BY DEF StoreDeal
<1>3. DaysTypeOK'
  BY <1>1, <1>2 DEF DaysInv, DaysTypeOK
<1>4. RowsOK'
  BY <1>1, <1>2 DEF DaysInv, RowsOK
<1>5. \A p \in Bookers : JobOK(p)'
  BY <1>1, <1>2 DEF DaysInv, JobOK
<1>6. RepairOK'
  BY <1>1, <1>2 DEF DaysInv, RepairOK
<1>7. ~Passed(e) /\ \A f \in Deals : Passed(f)' <=> Passed(f)
  BY <1>1, <1>2 DEF DaysInv, JobOK, Passed
<1>8. ReadOK'
  BY <1>1, <1>2, <1>7 DEF DaysInv, ReadOK, Safe, Changes
<1>9. VerifiedOK'
  <2>1. CountOK => CountOK'
    BY <1>2 DEF CountOK, Between, SettledDays
  <2> QED
    BY <1>1, <1>2, <1>7, <2>1 DEF DaysInv, VerifiedOK
<1> QED
  BY <1>3, <1>4, <1>5, <1>6, <1>8, <1>9 DEF DaysInv

(* A job that does not record or save.                                     *)
LEMMA JobStepped ==
  ASSUME DaysInv, NEW p \in Bookers, NEW j \in Job,
         booker' = [booker EXCEPT ![p] = j],
         UNCHANGED <<stored, settled, rows, count, repair, overlapped>>,
         halts' \in 0..MaxHalts, JobOK(p)',
         j.at \in {"count", "save"} /\ j.deal.opens =>
           booker[p].at = "count" /\ j.deal = booker[p].deal
             /\ j.days = Cardinality(Recorded(rows))
  PROVE  DaysInv'
<1> USE DaysFacts
<1>1. booker'[p] = j /\ \A q \in Bookers \ {p} : booker'[q] = booker[q]
  OBVIOUS
<1>2. DaysTypeOK'
  BY DEF DaysInv, DaysTypeOK
<1>3. RowsOK' /\ RepairOK'
  BY DEF DaysInv, RowsOK, RepairOK
<1>4. \A q \in Bookers : JobOK(q)'
  BY <1>1 DEF DaysInv, JobOK
<1>5. \A e : Passed(e)' => Passed(e)
  BY <1>1 DEF Passed
<1>6. ReadOK'
  BY <1>5 DEF DaysInv, ReadOK, Safe, Changes
<1>7. VerifiedOK'
  <2>1. ASSUME repair.outcome = "verified", ~overlapped
        PROVE  CountOK'
    <3>1. CountOK /\ \A e \in stored : Passed(e) => rows[e.day] # Missing
      BY <2>1 DEF DaysInv, VerifiedOK
    <3>2. ASSUME j.at = "save", j.deal.opens
          PROVE  Between(SettledDays \cup {j.deal.day}, j.days)
      <4>1. j.deal \in stored /\ Passed(j.deal) /\ j.days = Cardinality(Recorded(rows))
        BY <3>2, <1>1 DEF DaysInv, JobOK, Passed
      <4>2. SettledDays \cup {j.deal.day} \subseteq Recorded(rows)
        BY <4>1, <3>1, DaysFinite DEF SettledDays, Recorded
      <4>3. Recorded(rows) \subseteq Days
        BY DEF Recorded
      <4> QED
        BY <4>1, <4>2, <4>3, SubsetCounts DEF Between
    <3> QED
      BY <1>1, <3>1, <3>2 DEF CountOK, Between, SettledDays
  <2> QED
    BY <1>5, <2>1 DEF DaysInv, VerifiedOK
<1> QED
  BY <1>2, <1>3, <1>4, <1>6, <1>7 DEF DaysInv

LEMMA LoadDealStep ==
  ASSUME DaysInv, NEW p \in Bookers, LoadDeal(p)
  PROVE  DaysInv'
<1> USE DaysFacts
<1>1. PICK e \in stored \ settled :
        booker' = [booker EXCEPT ![p] =
          [at |-> IF e.opens THEN "upsert" ELSE "save", deal |-> e,
           version |-> count.version, days |-> count.days]]
  BY DEF LoadDeal
<1>2. PICK j : j = [at |-> IF e.opens THEN "upsert" ELSE "save", deal |-> e,
                    version |-> count.version, days |-> count.days]
  OBVIOUS
<1>3. j \in Job
  BY <1>2 DEF Job, Count
<1>4. booker' = [booker EXCEPT ![p] = j] /\ booker'[p] = j
  BY <1>1, <1>2
<1>5. JobOK(p)'
  BY <1>2, <1>4 DEF JobOK, LoadDeal
<1>6. ~(j.at \in {"count", "save"} /\ j.deal.opens)
  BY <1>2
<1> QED
  BY <1>3, <1>4, <1>5, <1>6, JobStepped DEF LoadDeal

LEMMA CountDaysStep ==
  ASSUME DaysInv, NEW p \in Bookers, CountDays(p)
  PROVE  DaysInv'
<1> USE DaysFacts
<1>1. PICK n : n = Cardinality(Recorded(rows)) /\ n \in 0..Cardinality(Days)
  BY SubsetCounts DEF Recorded
<1>2. PICK j : j = [booker[p] EXCEPT !.at = "save", !.days = n]
  OBVIOUS
<1>3. j \in Job /\ j.at = "save" /\ j.days = n /\ j.deal = booker[p].deal
        /\ j.version = booker[p].version
  BY <1>1, <1>2 DEF Job
<1>4. booker' = [booker EXCEPT ![p] = j] /\ booker'[p] = j
  BY <1>1, <1>2 DEF CountDays
<1>5. JobOK(p)'
  BY <1>3, <1>4 DEF JobOK, CountDays, DaysInv
<1> QED
  BY <1>1, <1>3, <1>4, <1>5, JobStepped DEF CountDays

LEMMA JobHaltsStep ==
  ASSUME DaysInv, NEW p \in Bookers, JobHalts(p)
  PROVE  DaysInv'
<1> USE DaysFacts
<1>1. booker' = [booker EXCEPT ![p] = NoJobDeal] /\ booker'[p].at = "idle"
  BY DEF JobHalts, NoJobDeal
<1>2. halts' \in 0..MaxHalts
  BY DaysAssumption DEF JobHalts
<1>3. JobOK(p)'
  BY <1>1 DEF JobOK
<1>4. NoJobDeal.at = "idle"
  BY DEF NoJobDeal
<1> QED
  BY <1>1, <1>2, <1>3, <1>4, NothingTyped, JobStepped DEF JobHalts

(* A day is recorded, unless it is.                                        *)
LEMMA RecordDayStep ==
  ASSUME DaysInv, NEW p \in Bookers, RecordDay(p)
  PROVE  DaysInv'
<1> USE DaysFacts
<1>1. PICK e : e = booker[p].deal
  OBVIOUS
<1>2. e \in stored /\ e \in Deals /\ e.opens /\ e.day \in Days /\ booker[p].at = "upsert"
  BY <1>1, DaysFinite DEF RecordDay, DaysInv, JobOK
<1>3. /\ rows' = [rows EXCEPT ![e.day] = IF @ = Missing THEN e ELSE @]
      /\ booker' = [booker EXCEPT ![p].at = "count"]
      /\ UNCHANGED <<stored, settled, count, repair, halts, overlapped>>
  BY <1>1 DEF RecordDay
<1>4. /\ rows' \in [Days -> Row]
      /\ rows'[e.day] # Missing
      /\ \A d \in Days : rows[d] # Missing => rows'[d] = rows[d]
      /\ \A d \in Days : rows'[d] # rows[d] => d = e.day /\ rows'[d] = e /\ rows[d] = Missing
  BY <1>2, <1>3 DEF Row
<1>5. /\ booker' \in [Bookers -> Job]
      /\ booker'[p] = [booker[p] EXCEPT !.at = "count"]
      /\ \A q \in Bookers \ {p} : booker'[q] = booker[q]
  BY <1>3 DEF Job
<1>6. booker'[p].at = "count" /\ booker'[p].deal = e /\ booker'[p].version = booker[p].version
  BY <1>1, <1>5 DEF Job
<1>7. DaysTypeOK'
  BY <1>3, <1>4, <1>5 DEF DaysInv, DaysTypeOK
<1>8. RowsOK'
  BY <1>2, <1>3, <1>4 DEF DaysInv, RowsOK
<1>9. \A q \in Bookers : JobOK(q)'
  <2>1. JobOK(p)'
    BY <1>1, <1>2, <1>3, <1>6 DEF DaysInv, JobOK
  <2>2. ASSUME NEW q \in Bookers \ {p} PROVE JobOK(q)'
    BY <1>3, <1>5 DEF DaysInv, JobOK
  <2> QED
    BY <2>1, <2>2
<1>10. RepairOK'
  BY <1>3 DEF DaysInv, RepairOK
<1>11. \A f : Passed(f)' => Passed(f) \/ f = e
  <2>1. ASSUME NEW f, NEW q \in Bookers,
               booker'[q].at \in {"count", "save"}, booker'[q].deal = f, f # e
        PROVE  booker[q].at \in {"count", "save"} /\ booker[q].deal = f
    BY <2>1, <1>5, <1>6
  <2> QED
    BY <2>1, <1>3 DEF Passed
<1>12. ReadOK'
  <2> SUFFICES ASSUME repair.final PROVE ReadOK'
    BY <1>3 DEF ReadOK
  <2>1. /\ repair.at \in {"read", "plan", "look", "write"}
        /\ repair.at # "read" => repair.have = {"rows", "deals"}
        /\ {"rows", "deals"} \subseteq repair.have /\ ~overlapped =>
             \A f \in Openings(settled \ repair.deals) : repair.rows[f.day] # Missing
        /\ repair.at \in {"look", "write"} => Safe /\ ~Changes
    BY DEF DaysInv, ReadOK
  <2>2. ASSUME "deals" \in repair.have, NEW f \in stored \ repair.deals, Passed(f)'
        PROVE  rows'[f.day] # Missing
    <3>1. CASE f = e
      BY <3>1, <1>4
    <3>2. CASE Passed(f)
      BY <2>2, <3>2, <1>4, DaysFinite DEF DaysInv, ReadOK
    <3> QED
      BY <2>2, <3>1, <3>2, <1>11
  <2>3. ASSUME "rows" \in repair.have, NEW d \in Days
        PROVE  /\ repair.rows[d] # Missing => rows'[d] = repair.rows[d]
               /\ rows'[d] # repair.rows[d] => rows'[d] \in stored /\ rows'[d].opens
    BY <2>3, <1>2, <1>4 DEF DaysInv, ReadOK
  <2> QED
    BY <1>3, <2>1, <2>2, <2>3 DEF ReadOK, Safe, Changes
<1>13. VerifiedOK'
  <2> SUFFICES ASSUME repair.outcome = "verified" PROVE VerifiedOK'
    BY <1>3 DEF VerifiedOK
  <2>1. /\ \A f \in stored : Passed(f) => rows[f.day] # Missing
        /\ \A d \in Recorded(rows) : rows[d] \in stored /\ rows[d].opens
        /\ ~overlapped => CountOK
    BY DEF DaysInv, VerifiedOK
  <2>2. \A f \in stored : Passed(f)' => rows'[f.day] # Missing
    BY <2>1, <1>4, <1>11, DaysFinite
  <2>3. \A d \in Recorded(rows') : rows'[d] \in stored /\ rows'[d].opens
    BY <2>1, <1>2, <1>4 DEF Recorded
  <2>4. rows[e.day] = Missing => e \notin settled
    BY <2>1, <1>2 DEF Passed
  <2>5. {d \in Recorded(rows') : rows'[d] \in settled} = SettledDays
    BY <2>4, <1>4 DEF SettledDays, Recorded
  <2>6. Recorded(rows) \subseteq Recorded(rows') /\ Recorded(rows') \subseteq Days
    BY <1>4 DEF Recorded
  <2>7. /\ Cardinality(Recorded(rows)) \in Nat /\ Cardinality(Recorded(rows')) \in Nat
        /\ Cardinality(Recorded(rows)) <= Cardinality(Recorded(rows'))
    BY <2>6, SubsetCounts
  <2>8. ASSUME NEW low, NEW n \in Nat, Between(low, n) PROVE Between(low, n)'
    BY <2>7, <2>8 DEF Between
  <2>9. ASSUME ~overlapped PROVE CountOK'
    <3>1. CountOK
      BY <2>1, <2>9
    <3>2. SettledDays' = SettledDays
      <4>1. SettledDays' = {d \in Recorded(rows') : rows'[d] \in settled'}
        BY DEF SettledDays, Recorded
      <4> QED
        BY <4>1, <1>3, <2>5
    <3>3. Between(SettledDays, count.days)'
      BY <3>1, <3>2, <2>8, <1>3 DEF CountOK, Between
    <3>4. ASSUME NEW q \in Bookers, booker'[q].at = "save", booker'[q].deal.opens,
                 booker'[q].version = count.version
          PROVE  Between(SettledDays \cup {booker[q].deal.day}, booker[q].days)'
      <4>1. booker'[q] = booker[q]
        BY <3>4, <1>5, <1>6
      <4>2. Between(SettledDays \cup {booker[q].deal.day}, booker[q].days)
        BY <3>1, <3>4, <4>1 DEF CountOK
      <4>3. Cardinality(SettledDays \cup {booker[q].deal.day}) <= booker[q].days
             /\ booker[q].days <= Cardinality(Recorded(rows'))
        BY <4>2, <2>7 DEF Between
      <4> QED
        BY <4>1, <4>3, <3>2 DEF Between
    <3> QED
      BY <1>3, <2>6, <3>1, <3>2, <3>3, <3>4 DEF CountOK
  <2> QED
    BY <1>3, <2>2, <2>3, <2>9 DEF VerifiedOK
<1> QED
  BY <1>7, <1>8, <1>9, <1>10, <1>12, <1>13 DEF DaysInv

LEMMA LeavePhaseStep == ASSUME DaysInv, LeavePhase PROVE DaysInv'
<1> USE DaysFacts
<1>1. /\ count' \in Count
      /\ count'.days = count.days /\ count'.last = count.last
      /\ count'.version = count.version + 1
      /\ UNCHANGED <<stored, settled, rows, booker, repair, halts, overlapped>>
  <2>1. PICK n : n = count.version + 1 /\ n \in Nat
    OBVIOUS
  <2>2. count' = [count EXCEPT !.live = FALSE, !.version = n] /\ count \in Count
    BY <2>1 DEF LeavePhase
  <2>3. count' \in Count /\ count'.days = count.days /\ count'.last = count.last /\ count'.version = n
    BY <2>1, <2>2 DEF Count
  <2> QED
    BY <2>1, <2>3 DEF LeavePhase
<1>2. DaysTypeOK' /\ RowsOK' /\ RepairOK'
  BY <1>1 DEF DaysInv, DaysTypeOK, RowsOK, RepairOK
<1>3. \A p \in Bookers :
        booker[p].at # "idle" => JobOK(p)' /\ booker[p].version # count'.version
  BY <1>1 DEF DaysInv, JobOK
<1>4. \A p \in Bookers : JobOK(p)'
  BY <1>1, <1>3 DEF JobOK
<1>5. ReadOK'
  BY <1>1 DEF DaysInv, ReadOK, Passed, Safe, Changes
<1>6. CountOK => CountOK'
  BY <1>1, <1>3 DEF CountOK, Between, SettledDays
<1>7. VerifiedOK'
  BY <1>1, <1>6 DEF DaysInv, VerifiedOK, Passed
<1> QED
  BY <1>2, <1>4, <1>5, <1>7 DEF DaysInv

(* The compare-and-set of a job is lost, or its deal is settled.           *)
LEMMA SaveDealStep ==
  ASSUME DaysInv, NEW p \in Bookers, SaveDeal(p)
  PROVE  DaysInv'
<1> USE DaysFacts
<1>1. PICK j : j = booker[p] /\ j \in Job /\ j.at = "save" /\ j.deal \in stored
                 /\ j.deal \in Deals /\ JobOK(p) /\ j.version \in Nat
  BY DEF SaveDeal, DaysInv, JobOK
<1>2. CASE count.version # j.version
  <2>1. booker' = [booker EXCEPT ![p] = NoJobDeal] /\ booker'[p].at = "idle"
    BY DEF SaveDeal, NoJobDeal
  <2>2. UNCHANGED <<stored, settled, rows, count, repair, halts, overlapped>>
    BY <1>1, <1>2 DEF SaveDeal
  <2>3. JobOK(p)'
    BY <2>1 DEF JobOK
  <2>4. NoJobDeal.at = "idle"
    BY DEF NoJobDeal
  <2> QED
    BY <2>1, <2>2, <2>3, <2>4, NothingTyped, JobStepped
<1>3. CASE count.version = j.version
  <2>1. PICK e : e = j.deal /\ e \in stored /\ e \in Deals /\ e.day \in Days
                   /\ e.day \in Nat /\ e.day \in Nat \ {0}
    BY <1>1, DaysFinite
  <2>2. PICK later : later = IF e.opens THEN Max({count.last, e.day}) ELSE count.last
    OBVIOUS
  <2>3. /\ later \in Days \cup {0} /\ later \in Nat /\ later >= count.last
        /\ later \in {count.last, e.day}
        /\ e.opens => later >= e.day
    BY <2>1, <2>2, LaterIs DEF Count
  <2>4. /\ settled' = settled \cup {e}
        /\ count' = [count EXCEPT !.days = j.days, !.last = later, !.version = @ + 1]
        /\ overlapped' = (overlapped \/ (repair.final /\ "rows" \in repair.have))
        /\ booker' = [booker EXCEPT ![p] = NoJobDeal]
        /\ UNCHANGED <<stored, rows, repair, halts>>
    BY <1>1, <1>3, <2>1, <2>2 DEF SaveDeal
  <2>5. /\ count' \in Count /\ count'.days = j.days /\ count'.last = later
        /\ count'.version = count.version + 1
    <3>1. PICK n : n = count.version + 1 /\ n \in Nat
      OBVIOUS
    <3>2. PICK days : days = j.days /\ days \in 0..Cardinality(Days)
      BY <1>1 DEF Job
    <3>3. count' = [count EXCEPT !.days = days, !.last = later, !.version = n] /\ count \in Count
      BY <2>4, <3>1, <3>2
    <3>4. count' \in Count /\ count'.days = days /\ count'.last = later /\ count'.version = n
      BY <2>3, <3>1, <3>2, <3>3 DEF Count
    <3> QED
      BY <3>1, <3>2, <3>4
  <2>6. /\ booker' \in [Bookers -> Job] /\ booker'[p].at = "idle"
        /\ \A q \in Bookers \ {p} : booker'[q] = booker[q]
    BY <2>4, NothingTyped DEF NoJobDeal
  <2>7. DaysTypeOK'
    BY <2>1, <2>4, <2>5, <2>6 DEF DaysInv, DaysTypeOK
  <2>8. RowsOK' /\ RepairOK'
    BY <2>4 DEF DaysInv, RowsOK, RepairOK
  <2>9. \A q \in Bookers : booker'[q].at # "idle" =>
          booker'[q] = booker[q] /\ booker'[q].version < count'.version
    <3> SUFFICES ASSUME NEW q \in Bookers, booker'[q].at # "idle"
                 PROVE  booker'[q] = booker[q] /\ booker'[q].version < count'.version
      OBVIOUS
    <3>1. booker'[q] = booker[q]
      BY <2>6
    <3>2. booker[q].version <= count.version
      BY <3>1 DEF DaysInv, JobOK
    <3> QED
      BY <3>1, <3>2, <2>5
  <2>10. \A q \in Bookers : JobOK(q)'
    <3> SUFFICES ASSUME NEW q \in Bookers, booker'[q].at # "idle"
                 PROVE  JobOK(q)'
      BY DEF JobOK
    <3>1. booker'[q] = booker[q] /\ booker[q].version < count'.version
      BY <2>9
    <3>2. booker[q].version <= count'.version /\ booker[q].version # count'.version
      BY <3>1, <2>5
    <3> QED
      BY <3>1, <3>2, <2>4 DEF DaysInv, JobOK
  <2>11. \A f : Passed(f)' => Passed(f) \/ (f = e /\ ~e.opens)
    BY <1>1, <2>1, <2>4, <2>6 DEF Passed
  <2>12. \A f : Passed(f)' => Passed(f)
    BY <2>11 DEF Passed
  <2>13. ReadOK'
    <3>1. ~overlapped' /\ repair.final => "rows" \notin repair.have
      BY <2>4
    <3> QED
      BY <3>1, <2>4, <2>12 DEF DaysInv, ReadOK, Safe, Changes
  <2>14. VerifiedOK'
    <3> SUFFICES ASSUME repair.outcome = "verified" PROVE VerifiedOK'
      BY <2>4 DEF VerifiedOK
    <3>1. /\ \A f \in stored : Passed(f) => rows[f.day] # Missing
          /\ \A d \in Recorded(rows) : rows[d] \in stored /\ rows[d].opens
          /\ ~overlapped => CountOK
      BY DEF DaysInv, VerifiedOK
    <3>2. e.opens => e.day \in Recorded(rows)
      BY <1>1, <2>1, <3>1 DEF Passed, Recorded
    <3>3. SettledDays' \subseteq SettledDays \cup {e.day}
      <4>1. SettledDays' = {d \in Recorded(rows) : rows[d] \in settled \cup {e}}
        BY <2>4 DEF SettledDays, Recorded
      <4>2. \A d \in Days : rows[d] = e => d = e.day
        BY <2>1 DEF DaysInv, RowsOK
      <4> QED
        BY <4>1, <4>2 DEF SettledDays, Recorded
    <3>4. ~e.opens => SettledDays' = SettledDays
      BY <2>4, <3>1 DEF SettledDays, Recorded
    <3>5. ASSUME ~overlapped' PROVE CountOK'
      <4>1. CountOK
        BY <3>1, <3>5, <2>4
      <4>2. SettledDays \subseteq Recorded(rows) /\ Recorded(rows) \subseteq Days
        BY DEF SettledDays, Recorded
      <4>3. Between(SettledDays', j.days)
        <5>1. CASE e.opens
          <6>1. Between(SettledDays \cup {e.day}, j.days)
            BY <1>1, <1>3, <2>1, <4>1, <5>1 DEF CountOK
          <6>2. /\ Cardinality(SettledDays') <= Cardinality(SettledDays \cup {e.day})
                /\ Cardinality(SettledDays') \in Nat
                /\ Cardinality(SettledDays \cup {e.day}) \in Nat
            BY <2>1, <3>3, <4>2, SubsetCounts
          <6>3. j.days \in Nat
            BY <1>1
          <6> QED
            BY <6>1, <6>2, <6>3 DEF Between
        <5>2. CASE ~e.opens
          <6>1. j.days = count.days
            BY <1>1, <1>3, <2>1, <5>2 DEF JobOK
          <6> QED
            BY <3>4, <4>1, <5>2, <6>1 DEF CountOK
        <5> QED
          BY <5>1, <5>2
      <4>4. Between(SettledDays, count.days)'
        BY <2>4, <2>5, <4>3 DEF Between
      <4>5. later \in Recorded(rows) \cup {0}
        <5>1. count.last \in Recorded(rows) \cup {0}
          BY <4>1 DEF CountOK
        <5>2. CASE e.opens
          <6>1. later \in {count.last, e.day} /\ e.day \in Recorded(rows)
            <7>1. later \in {count.last, e.day}
              BY <2>3
            <7> QED
              BY <7>1, <3>2, <5>2
          <6> QED
            BY <5>1, <6>1
        <5>3. CASE ~e.opens
          BY <2>2, <5>1, <5>3
        <5> QED
          BY <5>2, <5>3
      <4>6. \A d \in SettledDays' : d <= later
        <5> SUFFICES ASSUME NEW d \in SettledDays' PROVE d <= later
          OBVIOUS
        <5>1. CASE d \in SettledDays
          <6>1. d <= count.last /\ d \in Nat
            BY <4>1, <4>2, <5>1, DaysFinite DEF CountOK
          <6>2. \A m, n \in Nat : d <= m /\ n >= m => d <= n
            BY <6>1
          <6> QED
            BY <2>3, <6>1, <6>2
        <5>2. CASE d = e.day /\ e.opens
          BY <2>1, <2>3, <5>2
        <5>3. d \in SettledDays \/ (d = e.day /\ e.opens)
          BY <3>3, <3>4
        <5> QED
          BY <5>1, <5>2, <5>3
      <4>7. \A q \in Bookers : ~(booker'[q].at = "save" /\ booker'[q].version = count'.version)
        BY <2>9, <2>5
      <4> QED
        BY <2>4, <2>5, <4>4, <4>5, <4>6, <4>7 DEF CountOK
    <3> QED
      BY <2>4, <2>12, <3>1, <3>5 DEF VerifiedOK
  <2> QED
    BY <2>7, <2>8, <2>10, <2>13, <2>14 DEF DaysInv
<1> QED
  BY <1>2, <1>3

-----------------------------------------------------------------------------
(* The script's steps.                                                     *)

(* A step of the script that leaves the rows and the account alone.        *)
LEMMA RepairStepped ==
  ASSUME DaysInv, NEW r \in Repair, repair' = r, overlapped' \in BOOLEAN,
         UNCHANGED <<stored, settled, rows, count, booker, halts>>,
         RepairOK', ReadOK', VerifiedOK'
  PROVE  DaysInv'
<1>1. DaysTypeOK' /\ RowsOK'
  BY DEF DaysInv, DaysTypeOK, RowsOK
<1>2. \A p \in Bookers : JobOK(p)'
  BY DEF DaysInv, JobOK
<1> QED
  BY <1>1, <1>2 DEF DaysInv

(* One that neither ends it nor belongs to its last reading.               *)
LEMMA RepairGoesOn ==
  ASSUME DaysInv, NEW r \in Repair, repair' = r,
         ~r.final, r.outcome # "verified", RepairOK',
         UNCHANGED <<stored, settled, rows, count, booker, halts, overlapped>>
  PROVE  DaysInv'
<1>1. ReadOK' /\ VerifiedOK'
  BY DEF ReadOK, VerifiedOK
<1> QED
  BY <1>1, RepairStepped, DaysFacts

LEMMA RepairEnded ==
  ASSUME NEW outcome \in {"none", "manual", "conflict", "changed", "verified"},
         RepairEnds(outcome)
  PROVE  /\ repair' \in Repair /\ repair'.at = "done" /\ ~repair'.final
         /\ repair'.outcome = outcome /\ RepairOK'
<1>1. PICK r : r = [NoRepair EXCEPT !.at = "done", !.outcome = outcome]
  OBVIOUS
<1>2. /\ r \in Repair /\ r.at = "done" /\ ~r.final /\ r.outcome = outcome
      /\ r.deals = {} /\ r.todo = {}
  BY <1>1, NothingTyped DEF NoRepair, Repair
<1>3. repair' = r
  BY <1>1 DEF RepairEnds
<1> QED
  BY <1>2, <1>3 DEF RepairOK

LEMMA RepairAborted ==
  ASSUME DaysInv, NEW outcome \in {"manual", "conflict", "changed"}, RepairEnds(outcome),
         overlapped' \in BOOLEAN,
         UNCHANGED <<stored, settled, rows, count, booker, halts>>
  PROVE  DaysInv'
<1>1. ReadOK' /\ VerifiedOK'
  BY RepairEnded DEF ReadOK, VerifiedOK
<1> QED
  BY <1>1, RepairStepped, RepairEnded

(* A state of the script that has not ended.                               *)
LEMMA RepairFacts ==
  ASSUME DaysInv
  PROVE  /\ repair.attempt \in Nat /\ repair.attempt <= SyncAttempts /\ SyncAttempts \in Nat
         /\ repair.rows \in [Days -> Row] /\ repair.deals \subseteq Deals
         /\ repair.have \subseteq {"rows", "deals"} /\ repair.todo \subseteq Days
         /\ repair.final \in BOOLEAN /\ repair.version \in Nat
         /\ repair.at # "done" => repair.outcome = "none"
<1>1. repair \in Repair /\ SyncAttempts \in Nat /\ RepairOK
  BY DaysAssumption DEF DaysInv, DaysTypeOK
<1>2. /\ repair.attempt \in 0..SyncAttempts
      /\ repair.rows \in [Days -> Row] /\ repair.deals \subseteq Deals
      /\ repair.have \subseteq {"rows", "deals"} /\ repair.todo \subseteq Days
      /\ repair.final \in BOOLEAN /\ repair.version \in Nat
  BY <1>1 DEF Repair
<1>3. \A n \in 0..SyncAttempts : n \in Nat /\ n <= SyncAttempts
  BY <1>1
<1>4. repair.attempt \in Nat /\ repair.attempt <= SyncAttempts
  BY <1>2, <1>3
<1>5. repair.at # "done" => repair.outcome = "none"
  BY <1>1 DEF RepairOK, Repair
<1> QED
  BY <1>1, <1>2, <1>4, <1>5

LEMMA StartRepairStep == ASSUME DaysInv, StartRepair PROVE DaysInv'
<1> USE DaysFacts
<1>1. PICK r : r = [repair EXCEPT !.at = "read"]
  OBVIOUS
<1>2. /\ r \in Repair /\ r.at = "read" /\ r.final = repair.final /\ r.outcome = repair.outcome
      /\ r.deals = repair.deals /\ r.todo = repair.todo
  BY <1>1 DEF Repair
<1>3. /\ repair' = r /\ repair.at = "start"
      /\ UNCHANGED <<stored, settled, rows, count, booker, halts, overlapped>>
  BY <1>1 DEF StartRepair, RepairTo
<1>4. RepairOK'
  BY <1>2, <1>3, RepairFacts DEF DaysInv, RepairOK
<1>5. ~r.final /\ r.outcome = "none"
  BY <1>2, <1>3, RepairFacts DEF DaysInv, ReadOK
<1> QED
  BY <1>2, <1>3, <1>4, <1>5, RepairGoesOn

(* What has been read is what is stored.                                   *)
LEMMA ReadCanonicalSnapshotStep ==
  ASSUME DaysInv, ReadCanonicalSnapshot
  PROVE  DaysInv'
<1> USE DaysFacts
<1>1. PICK part \in {"rows", "deals"} \ repair.have :
        repair' = [repair EXCEPT
          !.have = @ \cup {part},
          !.rows = IF part = "rows" THEN rows ELSE @,
          !.deals = IF part = "deals" THEN stored ELSE @,
          !.at = IF repair.have = {} THEN "read" ELSE "plan"]
  BY DEF ReadCanonicalSnapshot
<1>2. repair.at = "read" /\ UNCHANGED <<stored, settled, rows, count, booker, halts, overlapped>>
  BY DEF ReadCanonicalSnapshot
<1>3. PICK r : r = repair'
  OBVIOUS
<1>4. /\ r.have = repair.have \cup {part}
      /\ r.rows = IF part = "rows" THEN rows ELSE repair.rows
      /\ r.deals = IF part = "deals" THEN stored ELSE repair.deals
      /\ r.at = IF repair.have = {} THEN "read" ELSE "plan"
      /\ r.final = repair.final /\ r.outcome = repair.outcome /\ r.todo = repair.todo
      /\ r \in Repair
  BY <1>1, <1>3, RepairFacts DEF Repair
<1>5. repair.outcome = "none" /\ repair.todo = {}
  BY <1>2, RepairFacts DEF DaysInv, RepairOK
<1>6. RepairOK' /\ VerifiedOK'
  BY <1>3, <1>4, <1>5, <1>2 DEF DaysInv, RepairOK, VerifiedOK
<1>7. ReadOK'
  <2> SUFFICES ASSUME r.final PROVE ReadOK'
    BY <1>3 DEF ReadOK
  <2>1. r.at \in {"read", "plan"} /\ (r.at # "read" => r.have = {"rows", "deals"})
    BY <1>4, RepairFacts
  <2>2. ASSUME "deals" \in r.have, NEW e \in stored \ r.deals, Passed(e)
        PROVE  rows[e.day] # Missing
    <3>1. part # "deals"
      BY <2>2, <1>4
    <3> QED
      BY <2>2, <3>1, <1>4 DEF DaysInv, ReadOK
  <2>3. ASSUME "rows" \in r.have, NEW d \in Days
        PROVE  /\ r.rows[d] # Missing => rows[d] = r.rows[d]
               /\ rows[d] # r.rows[d] => rows[d] \in stored /\ rows[d].opens
    <3>1. CASE part = "rows"
      BY <3>1, <1>4
    <3>2. CASE part # "rows"
      BY <2>3, <3>2, <1>4 DEF DaysInv, ReadOK
    <3> QED
      BY <3>1, <3>2
  <2>4. ASSUME {"rows", "deals"} \subseteq r.have, NEW e \in Openings(settled \ r.deals)
        PROVE  r.rows[e.day] # Missing
    <3>1. e \in settled \ r.deals /\ e.opens /\ e \in Deals
      BY <2>4 DEF Openings
    <3>2. part = "rows" /\ "deals" \in repair.have
      BY <2>4, <3>1, <1>4
    <3> QED
      BY <3>1, <3>2, <1>4 DEF DaysInv, ReadOK, Passed
  <2> QED
    BY <1>2, <1>3, <2>1, <2>2, <2>3, <2>4 DEF ReadOK, Passed
<1> QED
  BY <1>2, <1>3, <1>4, <1>6, <1>7, RepairStepped

LEMMA ReadingIs ==
  ASSUME NEW r \in Repair, NEW final \in BOOLEAN
  PROVE  LET next == Reading(r, final) IN
           /\ next \in Repair /\ next.at = "read" /\ next.have = {} /\ next.final = final
           /\ next.outcome = r.outcome /\ next.deals = r.deals /\ next.todo = r.todo
BY DEF Reading, Repair

LEMMA PlanStep == ASSUME DaysInv, Plan PROVE DaysInv'
<1> USE DaysFacts
<1>1. /\ repair.at = "plan" /\ ~repair.final
      /\ UNCHANGED <<stored, settled, rows, count, booker, halts, overlapped>>
  BY DEF Plan
<1>2. repair.outcome = "none" /\ repair.todo = {}
  BY <1>1, RepairFacts DEF DaysInv, RepairOK
<1>3. CASE RepairEnds("manual")
  BY <1>1, <1>3, RepairAborted
<1>4. CASE /\ repair.attempt < SyncAttempts
           /\ repair' = [repair EXCEPT !.at = "delete",
                           !.todo = Surplus(repair.rows, repair.deals)]
  <2>1. PICK r : r = [repair EXCEPT !.at = "delete",
                        !.todo = Surplus(repair.rows, repair.deals)]
    OBVIOUS
  <2>2. /\ r \in Repair /\ r.at = "delete" /\ r.final = repair.final /\ r.attempt = repair.attempt
        /\ r.outcome = "none" /\ r.deals = repair.deals
    BY <1>2, <2>1 DEF Repair, Surplus, Recorded
  <2>3. repair' = r
    BY <1>4, <2>1
  <2>4. RepairOK'
    BY <1>1, <1>4, <2>2, <2>3 DEF DaysInv, RepairOK
  <2> QED
    BY <1>1, <2>2, <2>3, <2>4, RepairGoesOn
<1>5. CASE repair' = Reading(repair, TRUE)
  <2>1. PICK r : r = Reading(repair, TRUE)
    OBVIOUS
  <2>2. /\ r \in Repair /\ r.at = "read" /\ r.have = {} /\ r.outcome = "none"
        /\ r.deals = repair.deals /\ r.todo = {}
    BY <1>2, <2>1, ReadingIs
  <2>3. RepairOK' /\ ReadOK' /\ VerifiedOK'
    BY <1>1, <1>5, <2>1, <2>2 DEF DaysInv, RepairOK, ReadOK, VerifiedOK
  <2> QED
    BY <1>1, <1>5, <2>1, <2>2, <2>3, RepairStepped
<1> QED
  BY <1>3, <1>4, <1>5 DEF Plan

(* A row the script writes is of a stored deal.                            *)
LEMMA RowsRepaired ==
  ASSUME DaysInv, ~repair.final, repair.outcome = "none", NEW r \in Repair, repair' = r,
         ~r.final, r.outcome = "none", RepairOK',
         UNCHANGED <<stored, settled, count, booker, halts, overlapped>>,
         rows' \in [Days -> Row], RowsOK'
  PROVE  DaysInv'
<1>1. DaysTypeOK'
  BY DEF DaysInv, DaysTypeOK
<1>2. \A p \in Bookers : JobOK(p)'
  BY DEF DaysInv, JobOK
<1>3. ReadOK' /\ VerifiedOK'
  BY DEF ReadOK, VerifiedOK
<1> QED
  BY <1>1, <1>2, <1>3 DEF DaysInv

LEMMA DeleteStaleRowStep == ASSUME DaysInv, DeleteStaleRow PROVE DaysInv'
<1> USE DaysFacts
<1>1. PICK d \in repair.todo :
        /\ rows' = [rows EXCEPT ![d] = Missing]
        /\ repair' = [repair EXCEPT !.todo = @ \ {d}]
  BY DEF DeleteStaleRow
<1>2. /\ repair.at = "delete"
      /\ UNCHANGED <<stored, settled, count, booker, halts, overlapped>>
  BY DEF DeleteStaleRow
<1>3. ~repair.final /\ repair.outcome = "none" /\ repair.attempt < SyncAttempts
  BY <1>2, RepairFacts DEF DaysInv, RepairOK, ReadOK
<1>4. PICK r : r = repair'
  OBVIOUS
<1>5. /\ r \in Repair /\ r.at = "delete" /\ ~r.final /\ r.outcome = "none"
      /\ r.deals = repair.deals /\ r.todo = repair.todo \ {d} /\ r.attempt = repair.attempt
  BY <1>1, <1>2, <1>3, <1>4 DEF Repair
<1>6. RepairOK'
  BY <1>2, <1>3, <1>4, <1>5 DEF DaysInv, RepairOK
<1>7. /\ rows' \in [Days -> Row]
      /\ \A n \in Days : rows'[n] \in {rows[n], Missing}
  BY <1>1 DEF Row
<1>8. RowsOK'
  BY <1>2, <1>7, DaysAssumption DEF DaysInv, RowsOK
<1> QED
  BY <1>2, <1>3, <1>4, <1>5, <1>6, <1>7, <1>8, RowsRepaired

LEMMA StaleRowsDeletedStep == ASSUME DaysInv, StaleRowsDeleted PROVE DaysInv'
<1> USE DaysFacts
<1>1. PICK r : r = [repair EXCEPT !.at = "upsert", !.todo = CanonicalDays(repair.deals)]
  OBVIOUS
<1>2. /\ repair.at = "delete" /\ repair' = r
      /\ UNCHANGED <<stored, settled, rows, count, booker, halts, overlapped>>
  BY <1>1 DEF StaleRowsDeleted
<1>3. ~repair.final /\ repair.outcome = "none" /\ repair.attempt < SyncAttempts
  BY <1>2, RepairFacts DEF DaysInv, RepairOK, ReadOK
<1>4. CanonicalDays(repair.deals) \subseteq Days
  BY RepairFacts, DaysFinite DEF CanonicalDays, Openings
<1>5. /\ r \in Repair /\ r.at = "upsert" /\ ~r.final /\ r.outcome = "none"
      /\ r.deals = repair.deals /\ r.todo = CanonicalDays(repair.deals)
      /\ r.attempt = repair.attempt
  BY <1>1, <1>3, <1>4 DEF Repair
<1>6. RepairOK'
  BY <1>2, <1>3, <1>5 DEF DaysInv, RepairOK
<1> QED
  BY <1>2, <1>3, <1>5, <1>6, RepairGoesOn

LEMMA UpsertCanonicalRowStep == ASSUME DaysInv, UpsertCanonicalRow PROVE DaysInv'
<1> USE DaysFacts
<1>1. PICK d \in repair.todo :
        /\ rows' = [rows EXCEPT ![d] = Canonical(repair.deals, d)]
        /\ repair' = [repair EXCEPT !.todo = @ \ {d}]
  BY DEF UpsertCanonicalRow
<1>2. PICK e : e = Canonical(repair.deals, d)
  OBVIOUS
<1>3. /\ repair.at = "upsert"
      /\ UNCHANGED <<stored, settled, count, booker, halts, overlapped>>
  BY DEF UpsertCanonicalRow
<1>4. e \in repair.deals /\ e \in stored /\ e \in Deals /\ e.day = d /\ d \in Days
  BY <1>2, <1>3, CanonicalIs, RepairFacts DEF DaysInv, RepairOK, Openings
<1>5. ~repair.final /\ repair.outcome = "none" /\ repair.attempt < SyncAttempts
  BY <1>3, RepairFacts DEF DaysInv, RepairOK, ReadOK
<1>6. PICK r : r = repair'
  OBVIOUS
<1>7. /\ r \in Repair /\ r.at = "upsert" /\ ~r.final /\ r.outcome = "none"
      /\ r.deals = repair.deals /\ r.todo = repair.todo \ {d} /\ r.attempt = repair.attempt
  BY <1>1, <1>3, <1>5, <1>6 DEF Repair
<1>8. RepairOK'
  BY <1>5, <1>3, <1>6, <1>7 DEF DaysInv, RepairOK
<1>9. rows' = [rows EXCEPT ![d] = e] /\ rows' \in [Days -> Row]
  BY <1>1, <1>2, <1>4 DEF Row
<1>10. RowsOK'
  BY <1>4, <1>3, <1>9 DEF DaysInv, RowsOK
<1> QED
  BY <1>3, <1>5, <1>6, <1>7, <1>8, <1>9, <1>10, RowsRepaired

LEMMA ReadAgainStep == ASSUME DaysInv, ReadAgain PROVE DaysInv'
<1> USE DaysFacts
<1>1. /\ repair.at = "upsert" /\ repair.todo = {}
      /\ UNCHANGED <<stored, settled, rows, count, booker, halts, overlapped>>
  BY DEF ReadAgain
<1>2. repair.outcome = "none" /\ repair.attempt < SyncAttempts
  BY <1>1, RepairFacts DEF DaysInv, RepairOK
<1>3. PICK n : n = repair.attempt + 1 /\ n \in 0..SyncAttempts
  BY <1>2, RepairFacts
<1>4. PICK q : q = [repair EXCEPT !.attempt = n]
  OBVIOUS
<1>5. q \in Repair /\ q.outcome = "none" /\ q.deals = repair.deals /\ q.todo = {}
  BY <1>1, <1>2, <1>3, <1>4 DEF Repair
<1>6. PICK r : r = Reading(q, FALSE)
  OBVIOUS
<1>7. /\ r \in Repair /\ r.at = "read" /\ ~r.final /\ r.outcome = "none"
      /\ r.deals = repair.deals /\ r.todo = {}
  BY <1>5, <1>6, ReadingIs
<1>8. repair' = r
  BY <1>3, <1>4, <1>6 DEF ReadAgain
<1>9. RepairOK'
  BY <1>1, <1>7, <1>8 DEF DaysInv, RepairOK
<1> QED
  BY <1>1, <1>7, <1>8, <1>9, RepairGoesOn

(* The last reading stays what it was.                                     *)
LEMMA ReadingKept ==
  ASSUME DaysInv, repair.final, repair.have = {"rows", "deals"}, Safe, ~Changes,
         NEW r \in Repair, repair' = r, r.at \in {"look", "write"}, r.final,
         r.have = repair.have, r.rows = repair.rows, r.deals = repair.deals,
         UNCHANGED <<stored, settled, rows, booker>>, ~overlapped' => ~overlapped
  PROVE  ReadOK'
<1>1. Safe' /\ ~Changes'
  BY DEF Safe, Changes
<1>2. /\ \A e \in stored \ repair.deals : Passed(e) => rows[e.day] # Missing
      /\ \A d \in Days :
           /\ repair.rows[d] # Missing => rows[d] = repair.rows[d]
           /\ rows[d] # repair.rows[d] => rows[d] \in stored /\ rows[d].opens
      /\ ~overlapped =>
           \A e \in Openings(settled \ repair.deals) : repair.rows[e.day] # Missing
  BY DEF DaysInv, ReadOK
<1>3. \A e : Passed(e)' <=> Passed(e)
  BY DEF Passed
<1> QED
  BY <1>1, <1>2, <1>3 DEF ReadOK

LEMMA VerifyStep == ASSUME DaysInv, Verify PROVE DaysInv'
<1> USE DaysFacts
<1>1. /\ repair.at = "plan" /\ repair.final
      /\ UNCHANGED <<stored, settled, rows, count, booker, halts, overlapped>>
  BY DEF Verify
<1>2. CASE Safe /\ ~Changes
  <2>1. PICK r : r = [repair EXCEPT !.at = "look", !.attempt = 0]
    OBVIOUS
  <2>2. /\ r \in Repair /\ r.at = "look" /\ r.final /\ r.outcome = repair.outcome
        /\ r.deals = repair.deals /\ r.todo = repair.todo /\ r.rows = repair.rows
        /\ r.have = repair.have
    <3>1. 0 \in 0..SyncAttempts
      BY RepairFacts
    <3> QED
      BY <1>1, <2>1, <3>1 DEF Repair
  <2>3. repair' = r
    BY <1>2, <2>1 DEF Verify
  <2>4. repair.outcome = "none"
    BY <1>1, RepairFacts
  <2>5. RepairOK' /\ VerifiedOK'
    BY <1>1, <2>2, <2>3, <2>4 DEF DaysInv, RepairOK, VerifiedOK
  <2>6. repair.have = {"rows", "deals"}
    BY <1>1 DEF DaysInv, ReadOK
  <2>7. ReadOK'
    BY <1>1, <1>2, <2>2, <2>3, <2>6, ReadingKept
  <2> QED
    BY <1>1, <2>2, <2>3, <2>5, <2>7, RepairStepped
<1>3. CASE ~(Safe /\ ~Changes)
  BY <1>1, <1>3, RepairAborted DEF Verify
<1> QED
  BY <1>2, <1>3

(* What the last reading, found in order, says of the rows as they are.    *)
LEMMA ReadingHolds ==
  ASSUME DaysInv, repair.at \in {"look", "write"}
  PROVE  /\ \A e \in stored : Passed(e) => rows[e.day] # Missing
         /\ \A d \in Recorded(rows) : rows[d] \in stored /\ rows[d].opens
         /\ Recorded(repair.rows) \subseteq Recorded(rows)
         /\ ~overlapped => SettledDays \subseteq Recorded(repair.rows)
<1> USE DaysFacts, RepairFacts
<1>1. repair.final /\ repair.have = {"rows", "deals"} /\ Safe /\ ~Changes
  BY DEF DaysInv, RepairOK, ReadOK
<1>2. repair.deals \subseteq stored
  BY DEF DaysInv, RepairOK
<1>3. \A e \in Openings(repair.deals) : repair.rows[e.day] \in Openings(repair.deals)
  <2> SUFFICES ASSUME NEW e \in Openings(repair.deals)
               PROVE  repair.rows[e.day] \in Openings(repair.deals)
    OBVIOUS
  <2>1. e.day \in CanonicalDays(repair.deals)
    BY DEF CanonicalDays
  <2>2. repair.rows[e.day] = Canonical(repair.deals, e.day)
    BY <1>1, <2>1 DEF Changes, HasChanges
  <2> QED
    BY <2>1, <2>2, CanonicalIs
<1>4. \A d \in Recorded(repair.rows) : repair.rows[d] \in Openings(repair.deals)
  <2>1. Recorded(repair.rows) \subseteq CanonicalDays(repair.deals)
    BY <1>1 DEF Changes, HasChanges, Surplus
  <2> QED
    BY <1>3, <2>1 DEF CanonicalDays
<1>5. \A d \in Days :
        /\ repair.rows[d] # Missing => rows[d] = repair.rows[d]
        /\ rows[d] # repair.rows[d] => rows[d] \in stored /\ rows[d].opens
  BY <1>1 DEF DaysInv, ReadOK
<1>6. ASSUME NEW e \in stored, Passed(e) PROVE rows[e.day] # Missing
  <2>1. CASE e \in repair.deals
    <3>1. e \in Openings(repair.deals) /\ e.day \in Days
      BY <1>6, <2>1, DaysFinite DEF Openings, Passed
    <3>2. repair.rows[e.day] \in Deals
      BY <1>3, <3>1 DEF Openings
    <3> QED
      BY <1>5, <3>1, <3>2
  <2>2. CASE e \notin repair.deals
    BY <1>1, <1>6, <2>2 DEF DaysInv, ReadOK
  <2> QED
    BY <2>1, <2>2
<1>7. ASSUME NEW d \in Recorded(rows) PROVE rows[d] \in stored /\ rows[d].opens
  <2>1. CASE d \in Recorded(repair.rows)
    BY <1>2, <1>4, <1>5, <2>1 DEF Recorded, Openings
  <2>2. CASE d \notin Recorded(repair.rows)
    BY <1>5, <1>7, <2>2 DEF Recorded
  <2> QED
    BY <2>1, <2>2
<1>8. Recorded(repair.rows) \subseteq Recorded(rows)
  BY <1>5 DEF Recorded
<1>9. ASSUME ~overlapped, NEW d \in SettledDays PROVE d \in Recorded(repair.rows)
  <2>1. d \in Days /\ rows[d] \in settled /\ rows[d] \in Deals /\ rows[d].day = d /\ rows[d].opens
    BY <1>7, <1>9 DEF SettledDays, Recorded, DaysInv, RowsOK
  <2>2. CASE rows[d] \in repair.deals
    <3>1. rows[d] \in Openings(repair.deals)
      BY <2>1, <2>2 DEF Openings
    <3>2. repair.rows[d] \in Deals
      BY <1>3, <2>1, <3>1 DEF Openings
    <3> QED
      BY <2>1, <3>2 DEF Recorded
  <2>3. CASE rows[d] \notin repair.deals
    <3>1. rows[d] \in Openings(settled \ repair.deals)
      BY <2>1, <2>3 DEF Openings
    <3>2. repair.rows[d] # Missing
      BY <1>1, <1>9, <2>1, <3>1 DEF DaysInv, ReadOK
    <3> QED
      BY <2>1, <3>2 DEF Recorded
  <2> QED
    BY <2>2, <2>3
<1> QED
  BY <1>6, <1>7, <1>8, <1>9

(* The count that is read, or written, is that of the rows.                *)
LEMMA RepairVerified ==
  ASSUME DaysInv, repair.at \in {"look", "write"}, RepairEnds("verified"),
         UNCHANGED <<stored, settled, rows, booker, halts>>,
         overlapped' \in BOOLEAN, ~overlapped' => ~overlapped,
         count' \in Count, count'.version \in Nat, count'.version >= count.version,
         count'.days = TradingDaysRead, count'.last = LatestDayRead,
         \A p \in Bookers : JobOK(p)',
         ~overlapped' =>
           \A p \in Bookers :
             ~(booker[p].at = "save" /\ booker[p].deal.opens
                 /\ booker[p].version = count'.version)
  PROVE  DaysInv'
<1> USE DaysFacts, RepairFacts
<1>1. DaysTypeOK' /\ RowsOK' /\ RepairOK' /\ ReadOK'
  BY RepairEnded DEF DaysInv, DaysTypeOK, RowsOK, ReadOK
<1>2. ASSUME ~overlapped' PROVE CountOK'
  <2>1. /\ SettledDays \subseteq Recorded(repair.rows)
        /\ Recorded(repair.rows) \subseteq Recorded(rows)
        /\ Recorded(rows) \subseteq Days
    BY <1>2, ReadingHolds DEF Recorded
  <2>2. SettledDays' = SettledDays
    BY DEF SettledDays
  <2>3. Between(SettledDays', TradingDaysRead)
    BY <2>1, <2>2, SubsetCounts DEF Between, TradingDaysRead
  <2>4. /\ LatestDayRead \in Recorded(rows) \cup {0}
        /\ \A d \in SettledDays : d <= LatestDayRead
    BY <2>1, LastOfIs DEF LatestDayRead
  <2> QED
    BY <1>2, <2>2, <2>3, <2>4 DEF CountOK, Between
<1>3. VerifiedOK'
  <2>1. /\ \A e \in stored : Passed(e) => rows[e.day] # Missing
        /\ \A d \in Recorded(rows) : rows[d] \in stored /\ rows[d].opens
    BY ReadingHolds
  <2> QED
    BY <1>2, <2>1 DEF VerifiedOK, Passed
<1> QED
  BY <1>1, <1>3 DEF DaysInv

LEMMA LookAtAccountStep == ASSUME DaysInv, LookAtAccount PROVE DaysInv'
<1> USE DaysFacts
<1>1. /\ repair.at = "look" /\ overlapped' = (overlapped \/ Counted)
      /\ UNCHANGED <<stored, settled, rows, count, booker, halts>>
      /\ overlapped' \in BOOLEAN
  BY DEF LookAtAccount, Counted
<1>2. CASE RepairEnds("changed") \/ RepairEnds("conflict")
  BY <1>1, <1>2, RepairAborted
<1>3. CASE /\ count.days = TradingDaysRead /\ count.last = LatestDayRead
           /\ RepairEnds("verified")
  <2>1. \A p \in Bookers : JobOK(p)'
    BY <1>1 DEF DaysInv, JobOK
  <2>2. ~overlapped' => \A p \in Bookers : ~(booker[p].at = "save" /\ booker[p].deal.opens)
    BY <1>1 DEF Counted
  <2>3. count'.version >= count.version /\ count'.version \in Nat
    BY <1>1
  <2> QED
    BY <1>1, <1>3, <2>1, <2>2, <2>3, RepairVerified
<1>4. CASE /\ repair.attempt # SyncAttempts
           /\ repair' = [repair EXCEPT !.at = "write", !.version = count.version]
  <2>1. PICK r : r = repair'
    OBVIOUS
  <2>2. /\ r \in Repair /\ r.at = "write" /\ r.final = repair.final /\ r.have = repair.have
        /\ r.outcome = repair.outcome /\ r.attempt = repair.attempt
        /\ r.deals = repair.deals /\ r.todo = repair.todo /\ r.rows = repair.rows
    BY <1>4, <2>1 DEF Repair
  <2>3. repair.attempt < SyncAttempts /\ repair.outcome = "none"
    BY <1>1, <1>4, RepairFacts
  <2>4. RepairOK' /\ VerifiedOK'
    BY <1>1, <2>1, <2>2, <2>3 DEF DaysInv, RepairOK, VerifiedOK
  <2>5. repair.final /\ repair.have = {"rows", "deals"} /\ Safe /\ ~Changes
    BY <1>1 DEF DaysInv, RepairOK, ReadOK
  <2>6. ReadOK'
    BY <1>1, <2>1, <2>2, <2>5, ReadingKept
  <2> QED
    BY <1>1, <2>1, <2>2, <2>4, <2>6, RepairStepped
<1> QED
  BY <1>2, <1>3, <1>4 DEF LookAtAccount

LEMMA WriteProjectionStep == ASSUME DaysInv, WriteProjection PROVE DaysInv'
<1> USE DaysFacts
<1>1. /\ repair.at = "write"
      /\ UNCHANGED <<stored, settled, rows, booker, halts, overlapped>>
  BY DEF WriteProjection
<1>2. CASE count.version = repair.version
  <2>1. PICK days, last, n : days = TradingDaysRead /\ last = LatestDayRead /\ n = count.version + 1
    OBVIOUS
  <2>2. days \in 0..Cardinality(Days) /\ last \in Days \cup {0} /\ n \in Nat
    <3>1. Recorded(repair.rows) \subseteq Days
      BY DEF Recorded
    <3>2. days \in 0..Cardinality(Days)
      BY <2>1, <3>1, SubsetCounts DEF TradingDaysRead
    <3>3. last \in Days \cup {0}
      BY <2>1, <3>1, LastOfIs DEF LatestDayRead
    <3> QED
      BY <2>1, <3>2, <3>3
  <2>3. /\ count' = [count EXCEPT !.days = days, !.last = last, !.version = n]
        /\ RepairEnds("verified")
    BY <1>2, <2>1 DEF WriteProjection
  <2>4. count' \in Count /\ count'.days = days /\ count'.last = last /\ count'.version = n
    BY <2>2, <2>3 DEF Count
  <2>5. \A p \in Bookers : booker[p].at # "idle" =>
          booker[p].version <= count'.version /\ booker[p].version # count'.version
    <3> SUFFICES ASSUME NEW p \in Bookers, booker[p].at # "idle"
                 PROVE  booker[p].version <= count'.version
                          /\ booker[p].version # count'.version
      OBVIOUS
    <3>1. booker[p].version <= count.version
      BY DEF DaysInv, JobOK
    <3> QED
      BY <2>1, <2>4, <3>1
  <2>6. \A p \in Bookers : JobOK(p)'
    BY <1>1, <2>5 DEF DaysInv, JobOK
  <2>7. count'.version >= count.version /\ count'.version \in Nat
    BY <2>1, <2>4
  <2> QED
    BY <1>1, <2>1, <2>3, <2>4, <2>5, <2>6, <2>7, RepairVerified
<1>3. CASE count.version # repair.version
  <2>1. PICK n : n = repair.attempt + 1 /\ n \in 0..SyncAttempts
    BY <1>1, RepairFacts DEF DaysInv, RepairOK
  <2>2. PICK r : r = [repair EXCEPT !.at = "look", !.attempt = n]
    OBVIOUS
  <2>3. /\ r \in Repair /\ r.at = "look" /\ r.final = repair.final /\ r.have = repair.have
        /\ r.outcome = repair.outcome
        /\ r.deals = repair.deals /\ r.todo = repair.todo /\ r.rows = repair.rows
    BY <2>1, <2>2 DEF Repair
  <2>4. repair' = r /\ UNCHANGED count
    BY <1>3, <2>1, <2>2 DEF WriteProjection
  <2>5. RepairOK' /\ VerifiedOK'
    BY <1>1, <2>3, <2>4, RepairFacts DEF DaysInv, RepairOK, VerifiedOK
  <2>6. repair.final /\ repair.have = {"rows", "deals"} /\ Safe /\ ~Changes
    BY <1>1 DEF DaysInv, RepairOK, ReadOK
  <2>7. ReadOK'
    BY <1>1, <2>3, <2>4, <2>6, ReadingKept
  <2> QED
    BY <1>1, <2>3, <2>4, <2>5, <2>7, RepairStepped
<1> QED
  BY <1>2, <1>3

-----------------------------------------------------------------------------
LEMMA DaysInitInductive == DaysInit => DaysInv
<1> SUFFICES ASSUME DaysInit PROVE DaysInv
  OBVIOUS
<1>1. /\ stored \subseteq Deals /\ settled = stored /\ repair = NoRepair /\ halts = 0
      /\ overlapped = FALSE /\ booker = [p \in Bookers |-> NoJobDeal]
      /\ rows \in [Days -> Row]
      /\ \A d \in Days : rows[d] \in Deals => rows[d] \in settled /\ rows[d].day = d
  BY DEF DaysInit
<1>2. count \in Count
  BY DEF DaysInit, Count
<1>3. DaysTypeOK
  <2>1. booker \in [Bookers -> Job] /\ repair \in Repair
    BY <1>1, NothingTyped
  <2>2. halts \in 0..MaxHalts
    BY <1>1, DaysAssumption
  <2> QED
    BY <1>1, <1>2, <2>1, <2>2 DEF DaysTypeOK
<1>4. RowsOK /\ \A p \in Bookers : JobOK(p)
  BY <1>1 DEF RowsOK, JobOK, NoJobDeal
<1>5. RepairOK /\ ReadOK /\ VerifiedOK
  BY <1>1 DEF RepairOK, ReadOK, VerifiedOK, NoRepair
<1> QED
  BY <1>3, <1>4, <1>5 DEF DaysInv

LEMMA DaysStepInductive == DaysInv /\ [DaysNext]_daysVars => DaysInv'
<1> SUFFICES ASSUME DaysInv, [DaysNext]_daysVars PROVE DaysInv'
  OBVIOUS
<1>1. CASE UNCHANGED daysVars
  <2>1. UNCHANGED <<stored, settled, rows, count, booker, repair, halts, overlapped>>
    BY <1>1 DEF daysVars
  <2>2. DaysTypeOK' /\ RowsOK' /\ RepairOK' /\ \A p \in Bookers : JobOK(p)'
    BY <2>1 DEF DaysInv, DaysTypeOK, RowsOK, JobOK, RepairOK
  <2>3. \A e : Passed(e)' <=> Passed(e)
    BY <2>1 DEF Passed
  <2>4. ReadOK'
    BY <2>1, <2>3 DEF DaysInv, ReadOK, Safe, Changes
  <2>5. CountOK => CountOK'
    BY <2>1 DEF CountOK, Between, SettledDays
  <2>6. VerifiedOK'
    BY <2>1, <2>3, <2>5 DEF DaysInv, VerifiedOK
  <2> QED
    BY <2>2, <2>4, <2>6 DEF DaysInv
<1>2. ASSUME NEW p \in Bookers,
             LoadDeal(p) \/ RecordDay(p) \/ CountDays(p) \/ SaveDeal(p) \/ JobHalts(p)
      PROVE  DaysInv'
  BY <1>2, LoadDealStep, RecordDayStep, CountDaysStep, SaveDealStep, JobHaltsStep
<1>3. CASE StoreDeal \/ LeavePhase
  BY <1>3, StoreDealStep, LeavePhaseStep
<1>4. CASE \/ StartRepair \/ ReadCanonicalSnapshot \/ Plan \/ DeleteStaleRow
           \/ StaleRowsDeleted \/ UpsertCanonicalRow \/ ReadAgain \/ Verify \/ LookAtAccount \/ WriteProjection
  BY <1>4, StartRepairStep, ReadCanonicalSnapshotStep, PlanStep, DeleteStaleRowStep,
     StaleRowsDeletedStep, UpsertCanonicalRowStep, ReadAgainStep, VerifyStep,
     LookAtAccountStep, WriteProjectionStep
<1> QED
  BY <1>1, <1>2, <1>3, <1>4 DEF DaysNext

(* The invariant holds in every reachable state of repair and jobs.        *)
THEOREM DaysInductive == DaysSpec => []DaysInv
BY DaysInitInductive, DaysStepInductive, PTL DEF DaysSpec

(* The trading days keep their types: one row a day, of a deal or of one   *)
(* the account has forgotten, and a count of so many days as there are.    *)
THEOREM DaysTyped == DaysSpec => []DaysTypeOK
<1>1. DaysInv => DaysTypeOK
  BY DEF DaysInv
<1> QED
  BY <1>1, DaysInductive, PTL

(* A repair that reports success stands, whatever the engine does beside   *)
(* it and after it, with any number of jobs, deals and attempts.           *)
THEOREM RepairsStand == DaysSpec => []RepairStands
<1>1. DaysInv => RepairStands
  <2> SUFFICES ASSUME DaysInv, repair.outcome = "verified"
               PROVE  /\ RowsFollowDeals
                      /\ settled = stored /\ ~overlapped => CountFollowsRows
    BY DEF RepairStands
  <2>1. /\ \A e \in stored : Passed(e) => rows[e.day] # Missing
        /\ \A d \in Recorded(rows) : rows[d] \in stored /\ rows[d].opens
        /\ ~overlapped => CountOK
    BY DEF DaysInv, VerifiedOK
  <2>2. RowsFollowDeals
    BY <2>1, DaysFacts DEF RowsFollowDeals, Passed
  <2>3. ASSUME settled = stored, ~overlapped PROVE CountFollowsRows
    <3>1. SettledDays = Recorded(rows) /\ Recorded(rows) \subseteq Days
      BY <2>1, <2>3 DEF SettledDays, Recorded
    <3>2. CountOK
      BY <2>1, <2>3
    <3>3. Cardinality(Recorded(rows)) \in Nat
      BY <3>1, SubsetCounts
    <3>4. count.days = Cardinality(Recorded(rows))
      BY <3>1, <3>2, <3>3, DaysFacts DEF CountOK, Between
    <3>5. PICK last : last = LastOf(Recorded(rows))
      OBVIOUS
    <3>6. /\ last \in Recorded(rows) \cup {0} /\ \A d \in Recorded(rows) : d <= last
          /\ count.last \in Recorded(rows) \cup {0}
          /\ \A d \in Recorded(rows) : d <= count.last
      BY <3>1, <3>2, <3>5, LastOfIs DEF CountOK
    <3>7. \A m, n \in Recorded(rows) \cup {0} :
            (\A d \in Recorded(rows) : d <= m /\ d <= n) => m = n
      <4>1. \A d \in Recorded(rows) : d \in Nat /\ d # 0
        BY <3>1, DaysFinite
      <4> QED
        BY <4>1
    <3> QED
      BY <3>4, <3>5, <3>6, <3>7 DEF CountFollowsRows
  <2> QED
    BY <2>2, <2>3
<1> QED
  BY <1>1, DaysInductive, PTL


-----------------------------------------------------------------------------
(* The services side by side.                                              *)

LEMMA StepIsOfAPart == [ServicesNext]_servicesVars =>
  /\ [PaymentNext]_paymentVars /\ [VaultNext]_vaultVars /\ [DeskNext]_deskVars
  /\ [SnapshotNext]_snapshotVars /\ [DaysNext]_daysVars /\ [IdentityNext]_identityVars
BY DEF ServicesNext, servicesVars

(* By the shape of ServicesNext a behaviour of the services side by side   *)
(* is one of each of them.                                                 *)
LEMMA ServicesAreTheirParts ==
  ServicesSpec => /\ PaymentSafetySpec /\ VaultSpec /\ DeskSpec
                  /\ SnapshotSpec /\ DaysSpec /\ IdentitySpec
<1>1. ServicesInit => /\ PaymentInit /\ VaultInit /\ DeskInit
                      /\ SnapshotInit /\ DaysInit /\ IdentityInit
  BY DEF ServicesInit
<1> QED
  BY <1>1, StepIsOfAPart, PTL DEF ServicesSpec, PaymentSafetySpec, VaultSpec, DeskSpec,
     SnapshotSpec, DaysSpec, IdentitySpec

(* The documents, queues, locks and counts of every service stay within    *)
(* their types, whichever of them steps.                                   *)
THEOREM ServicesTyped == ServicesSpec => []ServicesTypeOK
<1>1. IdentityInv => IdentityTypeOK
  BY DEF IdentityInv
<1>2. PaymentTypeOK /\ VaultTypeOK /\ DeskTypeOK /\ SnapshotTypeOK /\ DaysTypeOK
        /\ IdentityTypeOK => ServicesTypeOK
  BY DEF ServicesTypeOK
<1> QED
  BY <1>1, <1>2, ServicesAreTheirParts, PaymentTyped, VaultTyped, DeskTyped,
     SnapshotsTyped, DaysTyped, IdentityInductive, PTL
=============================================================================
