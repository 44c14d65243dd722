--------------------------- MODULE CredentialVault ---------------------------
(***************************************************************************)
(* The native password of one Trader account: Trader keeps a hash, the     *)
(* vault a copy that customers can read and that is mailed to them.  Calls *)
(* that create or rotate it hold a claim on the account, which lapses      *)
(* after two minutes; a worker mails what the vault holds.                 *)
(*                                                                         *)
(* Abstracted: a password is the number of its creation at Trader;         *)
(* encryption, logins, and the answers to those who ask for the password.  *)
(***************************************************************************)
EXTENDS Naturals, FiniteSets

CONSTANTS
  Nobody,
  MaxVaultCalls,   \* bound on calls of ensureTradingCredential
  Postmen,         \* mail jobs in flight together
  MaxLapses        \* bound on crashes, failed calls and taken-over claims

ASSUME VaultAssumption ==
  /\ {MaxVaultCalls, MaxLapses} \subseteq Nat
  /\ Nobody \notin 1..MaxVaultCalls

VARIABLES
  vault,      \* the TradingCredentialSecret
  password,   \* the password at Trader, 0 before there is one
  lease,      \* credentialOperationId and whether it is older than two minutes
  keeper,     \* calls of ensureTradingCredential
  letters,    \* jobs of the mail queue
  postman,    \* jobs at work
  resend,     \* the script that mails every password again
  mailed,     \* the password the customer was mailed last
  lapses,     \* crashes, failures and takeovers so far
  crossed     \* a password was saved while a mail was under way (history)

vaultVars ==
  <<vault, password, lease, keeper, letters, postman, resend, mailed, lapses, crossed>>

Keepers == 1..MaxVaultCalls
Passwords == 0..2 * MaxVaultCalls
Secret == [password : Passwords, delivery : {"NONE", "NOT_QUEUED", "PENDING", "SENT", "FAILED"}]
NoSecret == [password |-> 0, delivery |-> "NONE"]

KeeperCall ==
  [at : {"idle", "returned", "find", "existing", "claim", "refused", "recheck",
         "create", "record", "enqueue", "release"},
   rotate : BOOLEAN, mail : BOOLEAN, copy : Secret, got : Passwords]
PostmanJob == [at : {"idle", "mark", "send", "sent"}, copy : Secret, force : BOOLEAN]
Script == [at : {"idle", "renew", "enqueue", "done"}, copy : Secret, letters : Nat]

NotCalled == [at |-> "idle", rotate |-> FALSE, mail |-> FALSE, copy |-> NoSecret, got |-> 0]
NoJob == [at |-> "idle", copy |-> NoSecret, force |-> FALSE]

VaultTypeOK ==
  /\ vault \in Secret
  /\ {password, mailed} \subseteq Passwords
  /\ lease \in [by : Keepers \cup {Nobody}, stale : BOOLEAN]
  /\ keeper \in [Keepers -> KeeperCall]
  /\ postman \in [Postmen -> PostmanJob]
  /\ resend \in Script
  /\ {letters, lapses} \subseteq Nat
  /\ crossed \in BOOLEAN

VaultInit ==
  /\ vault = NoSecret
  /\ password = 0
  /\ lease = [by |-> Nobody, stale |-> FALSE]
  /\ keeper = [k \in Keepers |-> NotCalled]
  /\ letters = 0
  /\ postman = [p \in Postmen |-> NoJob]
  /\ resend = [at |-> "idle", copy |-> NoSecret, letters |-> 0]
  /\ mailed = 0
  /\ lapses = 0
  /\ crossed = FALSE

-----------------------------------------------------------------------------
KeeperAt(k, step) == keeper[k].at = step
KeeperTo(k, step) == keeper' = [keeper EXCEPT ![k].at = step]
Exists == vault # NoSecret
Working(k) == keeper[k].at \notin {"idle", "returned"}
Lapse == lapses < MaxLapses /\ lapses' = lapses + 1

outbox == <<letters, postman, resend, mailed>>

(* An activation creates, an approval without mailing at first, a customer *)
(* rotates.                                                                *)
EnsureCredential(k) ==
  /\ KeeperAt(k, "idle")
  /\ k > 1 => ~KeeperAt(k - 1, "idle")
  /\ \E rotate, mail \in BOOLEAN :
       /\ rotate => mail
       /\ keeper' = [keeper EXCEPT
            ![k] = [NotCalled EXCEPT !.at = "find", !.rotate = rotate, !.mail = mail]]
  /\ UNCHANGED <<vault, password, lease, outbox, lapses, crossed>>

(* Looked for before the claim, after a refused one, and under it.         *)
FindSecret(k) ==
  /\ keeper[k].at \in {"find", "refused", "recheck"}
  /\ keeper' = [keeper EXCEPT ![k] = [@ EXCEPT
       !.copy = vault,
       !.at = IF Exists /\ ~keeper[k].rotate THEN "existing"
              ELSE CASE keeper[k].at = "find" -> "claim"
                     [] keeper[k].at = "refused" -> "returned"
                     [] keeper[k].at = "recheck" -> "create"]]
  /\ UNCHANGED <<vault, password, lease, outbox, lapses, crossed>>

ReturnExisting(k) ==
  /\ KeeperAt(k, "existing")
  /\ IF keeper[k].mail /\ keeper[k].copy.delivery # "SENT"
     THEN /\ vault' = IF keeper[k].copy.delivery = "PENDING" THEN vault
                      ELSE [vault EXCEPT !.delivery = "PENDING"]
          /\ KeeperTo(k, "enqueue")
     ELSE KeeperTo(k, "release") /\ UNCHANGED vault
  /\ UNCHANGED <<password, lease, outbox, lapses, crossed>>

(* Faulty: the claim does not look at its holder.                          *)
ClaimsAnyway(k) ==
  /\ KeeperAt(k, "claim")
  /\ lease' = [by |-> k, stale |-> FALSE]
  /\ KeeperTo(k, "recheck")
  /\ UNCHANGED <<vault, password, outbox, lapses, crossed>>

ClaimCredential(k) ==
  /\ KeeperAt(k, "claim")
  /\ IF lease.by = Nobody \/ lease.stale
     THEN /\ lease' = [by |-> k, stale |-> FALSE]
          /\ KeeperTo(k, "recheck")
          /\ IF lease.by # Nobody /\ Working(lease.by) THEN Lapse ELSE UNCHANGED lapses
     ELSE KeeperTo(k, "refused") /\ UNCHANGED <<lease, lapses>>
  /\ UNCHANGED <<vault, password, outbox, crossed>>

ClaimLapses ==
  /\ lease.by # Nobody
  /\ ~lease.stale
  /\ lease' = [lease EXCEPT !.stale = TRUE]
  /\ UNCHANGED <<vault, password, keeper, outbox, lapses, crossed>>

(* Trader refuses to create what exists: with no copy in the vault, the    *)
(* only way is to rotate.                                                  *)
CreateNativeCredential(k) ==
  /\ KeeperAt(k, "create")
  /\ IF password # 0 /\ ~keeper[k].rotate
     THEN /\ keeper' = [keeper EXCEPT ![k].rotate = TRUE]
          /\ UNCHANGED <<password, lapses>>
     ELSE \/ /\ password' = password + 1
             /\ keeper' = [keeper EXCEPT ![k] = [@ EXCEPT !.at = "record", !.got = password']]
             /\ UNCHANGED lapses
          \/ /\ password' \in {password, password + 1}
             /\ KeeperTo(k, "release")
             /\ Lapse
  /\ UNCHANGED <<vault, lease, outbox, crossed>>

(* Faulty: what was said of the delivery of the last password is kept.     *)
SaveKeepsDelivery(k) ==
  /\ KeeperAt(k, "record")
  /\ vault' = [password |-> keeper[k].got,
               delivery |-> IF keeper[k].copy = NoSecret THEN "PENDING" ELSE vault.delivery]
  /\ KeeperTo(k, IF keeper[k].mail THEN "enqueue" ELSE "release")
  /\ crossed' = (crossed \/ \E p \in Postmen : postman[p] # NoJob)
  /\ UNCHANGED <<password, lease, outbox, lapses>>

(* A second record of the account is refused by its unique index.          *)
SaveSecret(k) ==
  LET secret == [password |-> keeper[k].got,
                 delivery |-> IF keeper[k].mail THEN "PENDING" ELSE "NOT_QUEUED"]
  IN /\ KeeperAt(k, "record")
     /\ IF keeper[k].copy = NoSecret /\ Exists
        THEN KeeperTo(k, "release") /\ UNCHANGED <<vault, crossed>>
        ELSE /\ vault' = secret
             /\ KeeperTo(k, IF keeper[k].mail THEN "enqueue" ELSE "release")
             /\ crossed' = (crossed \/ \E p \in Postmen : postman[p] # NoJob)
     /\ UNCHANGED <<password, lease, outbox, lapses>>

EnqueueLetter(k) ==
  /\ KeeperAt(k, "enqueue")
  /\ letters' = letters + 1
  /\ KeeperTo(k, "release")
  /\ UNCHANGED <<vault, password, lease, postman, resend, mailed, lapses, crossed>>

ReleaseClaim(k) ==
  /\ KeeperAt(k, "release")
  /\ lease' = IF lease.by = k THEN [by |-> Nobody, stale |-> FALSE] ELSE lease
  /\ keeper' = [keeper EXCEPT ![k] = [NotCalled EXCEPT !.at = "returned"]]
  /\ UNCHANGED <<vault, password, outbox, lapses, crossed>>

KeeperCrashes(k) ==
  /\ Working(k)
  /\ keeper' = [keeper EXCEPT ![k] = [NotCalled EXCEPT !.at = "returned"]]
  /\ Lapse
  /\ UNCHANGED <<vault, password, lease, outbox, crossed>>

-----------------------------------------------------------------------------
(* TradingCredentialEmailWorker: a job works on the copy it has loaded; a  *)
(* forced one mails again what was mailed.                                 *)

TakeLetter(p) ==
  /\ postman[p] = NoJob
  /\ letters > 0
  /\ letters' = letters - 1
  /\ postman' = IF vault.delivery = "SENT" THEN postman
                ELSE [postman EXCEPT ![p] = [at |-> "mark", copy |-> vault, force |-> FALSE]]
  /\ UNCHANGED <<vault, password, lease, keeper, resend, mailed, lapses, crossed>>

TakeForcedLetter(p) ==
  /\ postman[p] = NoJob
  /\ resend.letters > 0
  /\ resend' = [resend EXCEPT !.letters = @ - 1]
  /\ postman' = [postman EXCEPT ![p] = [at |-> "mark", copy |-> vault, force |-> TRUE]]
  /\ UNCHANGED <<vault, password, lease, keeper, letters, mailed, lapses, crossed>>

(* save() writes the delivery where it differs from the loaded one.        *)
SaveDelivery(copy, delivery) ==
  vault' = IF copy.delivery = delivery THEN vault
           ELSE [vault EXCEPT !.delivery = delivery]

MarkPending(p) ==
  /\ postman[p].at = "mark"
  /\ SaveDelivery(postman[p].copy, "PENDING")
  /\ postman' = [postman EXCEPT ![p].at = "send", ![p].copy.delivery = "PENDING"]
  /\ UNCHANGED <<password, lease, keeper, letters, resend, mailed, lapses, crossed>>

(* A job that fails goes back to the queue as it was.                      *)
RetryLetter(p) ==
  IF postman[p].force
  THEN resend' = [resend EXCEPT !.letters = @ + 1] /\ UNCHANGED letters
  ELSE letters' = letters + 1 /\ UNCHANGED resend

SendCredentials(p) ==
  /\ postman[p].at = "send"
  /\ \/ /\ mailed' = postman[p].copy.password
        /\ postman' = [postman EXCEPT ![p].at = "sent"]
        /\ UNCHANGED <<vault, letters, resend, lapses>>
     \/ /\ SaveDelivery(postman[p].copy, "FAILED")
        /\ postman' = [postman EXCEPT ![p] = NoJob]
        /\ RetryLetter(p)
        /\ Lapse
        /\ UNCHANGED mailed
  /\ UNCHANGED <<password, lease, keeper, crossed>>

MarkSent(p) ==
  /\ postman[p].at = "sent"
  /\ SaveDelivery(postman[p].copy, "SENT")
  /\ postman' = [postman EXCEPT ![p] = NoJob]
  /\ UNCHANGED <<password, lease, keeper, letters, resend, mailed, lapses, crossed>>

-----------------------------------------------------------------------------
(* resend-all-trading-credentials: once a call has ensured the secret, the  *)
(* script loads it, marks it pending and queues a forced mail.             *)

LoadForResend ==
  /\ resend.at = "idle"
  /\ Exists
  /\ resend' = [resend EXCEPT !.at = "renew", !.copy = vault]
  /\ UNCHANGED <<vault, password, lease, keeper, letters, postman, mailed, lapses, crossed>>

RenewDelivery ==
  /\ resend.at = "renew"
  /\ SaveDelivery(resend.copy, "PENDING")
  /\ resend' = [resend EXCEPT !.at = "enqueue", !.copy = NoSecret]
  /\ UNCHANGED <<password, lease, keeper, letters, postman, mailed, lapses, crossed>>

ForceLetter ==
  /\ resend.at = "enqueue"
  /\ resend' = [resend EXCEPT !.at = "done", !.letters = @ + 1]
  /\ UNCHANGED <<vault, password, lease, keeper, letters, postman, mailed, lapses, crossed>>

VaultNext ==
  \/ \E k \in Keepers :
       \/ EnsureCredential(k) \/ FindSecret(k) \/ ReturnExisting(k)
       \/ ClaimCredential(k) \/ CreateNativeCredential(k) \/ SaveSecret(k)
       \/ EnqueueLetter(k) \/ ReleaseClaim(k) \/ KeeperCrashes(k)
  \/ ClaimLapses
  \/ \E p \in Postmen :
       \/ TakeLetter(p) \/ TakeForcedLetter(p)
       \/ MarkPending(p) \/ SendCredentials(p) \/ MarkSent(p)
  \/ LoadForResend \/ RenewDelivery \/ ForceLetter

VaultSpec == VaultInit /\ [][VaultNext]_vaultVars

-----------------------------------------------------------------------------
(* Properties.                                                             *)

(* Two callers never leave the vault with a password that Trader no longer *)
(* accepts: once no call is under way, what the vault holds is what Trader *)
(* checks.  It needs that no call crashed, failed at Trader or outlived    *)
(* its claim: a rotation whose answer is lost leaves the old copy.         *)
VaultMatchesTrader ==
  lapses = 0 /\ (\A k \in Keepers : ~Working(k)) => vault.password = password

(* A password marked as sent is the one the customer was mailed last, if   *)
(* none was saved while a mail was under way: the worker's save marks a    *)
(* new password as sent when it has mailed the old one.                    *)
MailedIsCurrent ==
  vault.delivery = "SENT" /\ ~crossed => mailed = vault.password
=============================================================================
