----------------------------- MODULE SupportDesk -----------------------------
(***************************************************************************)
(* The support cases of one sender and one e-mail thread.  Inbound mails   *)
(* arrive as webhooks, which the mail service repeats until they are       *)
(* acknowledged; customers write and ask for a person in the app; admins   *)
(* reply, return a case to the assistant and close it.  Each loads a case, *)
(* works (the assistant's answer takes seconds) and saves what it changed. *)
(*                                                                         *)
(* Abstracted: contents, categories and the knowledge base; a mail is      *)
(* found to need a person or not; of the messages of a case, the mails.    *)
(***************************************************************************)
EXTENDS Naturals, FiniteSets

CONSTANTS
  Mails,       \* inbound mails of the thread
  NoMail,      \* a message written in the app
  Clerks,      \* requests in flight together
  MaxCases,    \* bound on the cases opened
  MaxFailures  \* bound on crashes and mails that could not be sent

ASSUME SupportAssumption ==
  /\ NoMail \notin Mails
  /\ {MaxCases, MaxFailures} \subseteq Nat

VARIABLES
  cases,     \* the SupportConversation documents
  clerk,     \* requests at work
  acked,     \* mails whose webhook was answered with success
  failures   \* crashes and failed sends so far

deskVars == <<cases, clerk, acked, failures>>

CaseStatus == {"ABSENT", "OPEN", "ESCALATED", "CLOSED"}
Case ==
  [status : CaseStatus, email : BOOLEAN,
   ids : SUBSET Mails,        \* email.resendInboundIds
   messages : SUBSET Mails]   \* mails among the messages
NoCase == [status |-> "ABSENT", email |-> FALSE, ids |-> {}, messages |-> {}]

CaseIds == 1..MaxCases
ClerkStep ==
  {"idle", "find", "load", "answer", "reload", "file", "send", "sent",
   "escalate", "reply", "return", "close"}
ClerkWork == [at : ClerkStep, mail : Mails \cup {NoMail}, id : 0..MaxCases, copy : Case]
NoWork == [at |-> "idle", mail |-> NoMail, id |-> 0, copy |-> NoCase]

DeskTypeOK ==
  /\ cases \in [CaseIds -> Case]
  /\ clerk \in [Clerks -> ClerkWork]
  /\ acked \subseteq Mails
  /\ failures \in 0..MaxFailures

DeskInit ==
  /\ cases = [i \in CaseIds |-> NoCase]
  /\ clerk = [c \in Clerks |-> NoWork]
  /\ acked = {}
  /\ failures = 0

-----------------------------------------------------------------------------
ClerkAt(c, step) == clerk[c].at = step
Forward(c, step) == clerk' = [clerk EXCEPT ![c].at = step]
Finished(c) == clerk' = [clerk EXCEPT ![c] = NoWork]
Mine(c) == clerk[c].copy
Opened == {i \in CaseIds : cases[i].status # "ABSENT"}
Fails == failures < MaxFailures /\ failures' = failures + 1

LoadCase(c, i, step) ==
  clerk' = [clerk EXCEPT ![c] = [@ EXCEPT !.at = step, !.id = i, !.copy = cases[i]]]

(* Faulty: the case is written back as it was loaded.                      *)
SaveWhole(c, new) == cases' = [cases EXCEPT ![clerk[c].id] = new]

(* save(): a changed status and a replaced e-mail object are written, a    *)
(* pushed message is appended to what is stored.                           *)
SaveCase(c, new) ==
  cases' = [cases EXCEPT ![clerk[c].id] =
    [status   |-> IF new.status # Mine(c).status THEN new.status ELSE @.status,
     email    |-> @.email \/ new.email,
     ids      |-> IF new.ids # Mine(c).ids THEN new.ids ELSE @.ids,
     messages |-> @.messages \cup (new.messages \ Mine(c).messages)]]

-----------------------------------------------------------------------------
(* The webhook of an inbound mail.                                         *)

ReceiveMail(c) ==
  /\ ClerkAt(c, "idle")
  /\ \E m \in Mails \ acked :
       IF \E i \in Opened : m \in cases[i].ids
       THEN acked' = acked \cup {m} /\ UNCHANGED clerk
       ELSE /\ clerk' = [clerk EXCEPT ![c] = [NoWork EXCEPT !.at = "find", !.mail = m]]
            /\ UNCHANGED acked
  /\ UNCHANGED <<cases, failures>>

(* The open case of the thread; its messages are loaded after that.        *)
FindThread(c) ==
  /\ ClerkAt(c, "find")
  /\ LET thread == {i \in Opened : cases[i].email /\ cases[i].status # "CLOSED"}
     IN clerk' = [clerk EXCEPT ![c] = [@ EXCEPT
          !.at = "load",
          !.id = IF thread = {} THEN 0 ELSE CHOOSE i \in thread : \A j \in thread : i >= j]]
  /\ UNCHANGED <<cases, acked, failures>>

(* getOrCreateConversation.                                                *)
GetOrCreateConversation(c) ==
  /\ ClerkAt(c, "load")
  /\ IF clerk[c].id # 0
     THEN LoadCase(c, clerk[c].id, "answer") /\ UNCHANGED cases
     ELSE \E i \in CaseIds \ Opened :
            /\ \A j \in CaseIds \ Opened : i <= j
            /\ cases' = [cases EXCEPT ![i] = [NoCase EXCEPT !.status = "OPEN"]]
            /\ clerk' = [clerk EXCEPT ![c] =
                 [@ EXCEPT !.at = "answer", !.id = i, !.copy = cases'[i]]]
  /\ UNCHANGED <<acked, failures>>

(* Faulty: the mail is taken for recorded before it is.                    *)
RecordLater(c) ==
  /\ ClerkAt(c, "answer")
  /\ SaveCase(c, [Mine(c) EXCEPT !.email = TRUE, !.ids = @ \cup ({clerk[c].mail} \cap Mails)])
  /\ IF clerk[c].mail = NoMail THEN Finished(c) ELSE Forward(c, "reload")
  /\ UNCHANGED <<acked, failures>>

(* The message of the customer and, unless a person owns the case, the     *)
(* answer of the assistant or its fallback are saved together.             *)
SaveConversation(c) ==
  /\ ClerkAt(c, "answer")
  /\ SaveCase(c, [Mine(c) EXCEPT !.messages = @ \cup ({clerk[c].mail} \cap Mails)])
  /\ IF clerk[c].mail = NoMail THEN Finished(c) ELSE Forward(c, "reload")
  /\ UNCHANGED <<acked, failures>>

ReloadCase(c) ==
  /\ ClerkAt(c, "reload")
  /\ clerk' = [clerk EXCEPT ![c] = [@ EXCEPT
       !.at = IF Mine(c).status = "ESCALATED" THEN "file" ELSE "send",
       !.copy = cases[clerk[c].id]]]
  /\ UNCHANGED <<cases, acked, failures>>

Filed(c, status) ==
  [Mine(c) EXCEPT !.status = status, !.email = TRUE, !.ids = @ \cup {clerk[c].mail}]

(* A case of a person only records the mail.                               *)
FileMail(c) ==
  /\ ClerkAt(c, "file")
  /\ SaveCase(c, Filed(c, Mine(c).status))
  /\ acked' = acked \cup {clerk[c].mail}
  /\ Finished(c)
  /\ UNCHANGED failures

(* The others are answered by mail after the save, and escalated with it   *)
(* if the text or the answer asks for a person.                            *)
FileAndEscalate(c) ==
  /\ ClerkAt(c, "send")
  /\ \E status \in {Mine(c).status, "ESCALATED"} :
       /\ SaveCase(c, Filed(c, status))
       /\ clerk' = [clerk EXCEPT ![c] = [@ EXCEPT !.at = "sent", !.copy = Filed(c, status)]]
  /\ UNCHANGED <<acked, failures>>

SendAutoReply(c) ==
  /\ ClerkAt(c, "sent")
  /\ \/ acked' = acked \cup {clerk[c].mail} /\ UNCHANGED failures
     \/ Fails /\ UNCHANGED acked
  /\ Finished(c)
  /\ UNCHANGED cases

-----------------------------------------------------------------------------
(* The customer in the app, and the admins.                                *)

WriteMessage(c) ==
  /\ ClerkAt(c, "idle")
  /\ \E i \in Opened : LoadCase(c, i, "answer")
  /\ UNCHANGED <<cases, acked, failures>>

AskForPerson(c) ==
  /\ ClerkAt(c, "idle")
  /\ \E i \in Opened : LoadCase(c, i, "escalate")
  /\ UNCHANGED <<cases, acked, failures>>

ReplyToCase(c) ==
  /\ ClerkAt(c, "idle")
  /\ \E i \in Opened : cases[i].status # "CLOSED" /\ LoadCase(c, i, "reply")
  /\ UNCHANGED <<cases, acked, failures>>

(* Asking for a person and a person's reply hand the case to a person.     *)
EscalateCase(c) ==
  /\ clerk[c].at \in {"escalate", "reply"}
  /\ SaveCase(c, [Mine(c) EXCEPT !.status = "ESCALATED"])
  /\ Finished(c)
  /\ UNCHANGED <<acked, failures>>

ReturnToAI(c) ==
  /\ ClerkAt(c, "idle")
  /\ \E i \in Opened : cases[i].status = "ESCALATED" /\ LoadCase(c, i, "return")
  /\ UNCHANGED <<cases, acked, failures>>

SaveReturned(c) ==
  /\ ClerkAt(c, "return")
  /\ SaveCase(c, [Mine(c) EXCEPT !.status = "OPEN"])
  /\ Finished(c)
  /\ UNCHANGED <<acked, failures>>

CloseCase(c) ==
  /\ ClerkAt(c, "idle")
  /\ \E i \in Opened : LoadCase(c, i, "close")
  /\ UNCHANGED <<cases, acked, failures>>

SaveClosedCase(c) ==
  /\ ClerkAt(c, "close")
  /\ SaveCase(c, [Mine(c) EXCEPT !.status = "CLOSED"])
  /\ Finished(c)
  /\ UNCHANGED <<acked, failures>>

(* A request dies, or the mail of an admin's reply cannot be sent, which is *)
(* tried before anything is saved.                                         *)
ClerkCrashes(c) ==
  /\ ~ClerkAt(c, "idle")
  /\ Fails
  /\ Finished(c)
  /\ UNCHANGED <<cases, acked>>

DeskNext ==
  \E c \in Clerks :
    \/ ReceiveMail(c) \/ FindThread(c) \/ GetOrCreateConversation(c)
    \/ SaveConversation(c) \/ ReloadCase(c) \/ FileMail(c)
    \/ FileAndEscalate(c) \/ SendAutoReply(c)
    \/ WriteMessage(c) \/ AskForPerson(c) \/ ReplyToCase(c) \/ EscalateCase(c)
    \/ ReturnToAI(c) \/ SaveReturned(c) \/ CloseCase(c) \/ SaveClosedCase(c)
    \/ ClerkCrashes(c)

DeskSpec == DeskInit /\ [][DeskNext]_deskVars

-----------------------------------------------------------------------------
(* Properties.                                                             *)

(* No mail is lost: one whose webhook was answered with success, at once   *)
(* or as a duplicate of a request that crashed half way, is among the      *)
(* messages of a case.                                                     *)
AckedIsRecorded ==
  \A m \in acked : \E i \in CaseIds : m \in cases[i].messages

(* Human ownership is sticky: no answer of the assistant, no mail and no   *)
(* request loaded before the escalation takes a case back from the person  *)
(* who owns it, only an admin's return or close.                           *)
EscalationIsSticky ==
  [][\A i \in CaseIds :
       cases[i].status = "ESCALATED" /\ cases'[i].status # "ESCALATED"
         => \E c \in Clerks : clerk[c].at \in {"return", "close"} /\ clerk'[c] = NoWork
    ]_deskVars
=============================================================================
