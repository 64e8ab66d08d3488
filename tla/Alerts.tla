-------------------------------- MODULE Alerts --------------------------------
(***************************************************************************)
(* The daily checks that warn (inventory-audit.service.ts and              *)
(* kitchen-alerts.service.ts, which work alike) and the notifications they *)
(* leave (notification.service.ts). The last notification is the memory of *)
(* a check, and it belongs to the people who receive it: they may delete   *)
(* it, and it goes with their account. The rows of one createMany are a    *)
(* batch, equal but for their owner.                                       *)
(***************************************************************************)
EXTENDS Integers, FiniteSets, SequencesExt

CONSTANTS
    Check,              \* the kinds of problem, AUDIT_CHECKS or low, over, expiring, expired
    Problem,            \* what may be wrong; CheckOf gives its kind
    CheckOf(_),
    User, Language,
    MaxChanges,         \* bound on what people do
    MaxAlertFaults      \* bound on restarts and on failed statements

ASSUME AlertAssumption == {MaxChanges, MaxAlertFaults} \subseteq Nat

VARIABLES
    problems,           \* what is wrong now
    accounts,           \* people with an account
    holders,            \* active ones among them with the permission
    language,           \* of the system, in sys_config
    mailTo,             \* EMAIL_NOTIFICATION_RECIPIENTS names somebody
    batches,            \* the notifications of this type: [detail, owners], oldest first
    mails,              \* the last mail that was queued, or NoMail
    checker,            \* the check in progress
    changed, alertFaults,
    forgotten           \* history: something was told that no notification recalls

alertVars == <<problems, accounts, holders, language, mailTo, batches, mails, checker, changed, alertFaults, forgotten>>
people == <<problems, accounts, holders, language, mailTo, changed>>
told == <<batches, mails, forgotten>>

Resting == [pc |-> "idle"]
NoMail == [text |-> {}, language |-> "none"]

(* checks of run(), counts of alerts(): how many problems of each kind.    *)
Counts == [c \in Check |-> Cardinality({p \in problems : CheckOf(p) = c})]
AllRight(counts) == \A c \in Check : counts[c] = 0

(* summary: the counts that are not 0, in a language.                      *)
Summary(counts, lng) == [text |-> {<<c, counts[c]>> : c \in {k \in Check : counts[k] > 0}}, language |-> lng]

(***************************************************************************)
(* checkAndAlert, one await at a time                                      *)
(***************************************************************************)
Goes(step) == checker' = step
Fault == alertFaults < MaxAlertFaults /\ alertFaults' = alertFaults + 1

RunCheck ==
    /\ checker = Resting
    /\ Goes([pc |-> "language", counts |-> Counts])
    /\ UNCHANGED <<people, told, alertFaults>>

(* systemLanguage: when sys_config does not answer, the last language that *)
(* some request read.                                                      *)
ReadLanguage ==
    /\ checker.pc = "language"
    /\ \E lng \in Language :
         /\ IF lng = language THEN UNCHANGED alertFaults ELSE Fault
         /\ Goes([pc |-> "last", ok |-> AllRight(checker.counts), detail |-> Summary(checker.counts, lng)])
    /\ UNCHANGED <<people, told>>

(* Mutant: any notification of the type counts as the same one.            *)
DiffersFromAny(ok, detail) == IF ok THEN batches # <<>> /\ Last(batches).detail.text # {} ELSE batches = <<>>

Differs(ok, detail) == IF batches = <<>> THEN ~ok ELSE Last(batches).detail # detail

ReadLast ==
    /\ checker.pc = "last"
    /\ Goes(IF Differs(checker.ok, checker.detail) THEN [checker EXCEPT !.pc = "recipients"] ELSE Resting)
    /\ UNCHANGED <<people, told, alertFaults>>

AfterNotices == IF checker.ok THEN Resting ELSE [pc |-> "mail", detail |-> checker.detail]

(* recipients; nobody is told anything when there are none.                *)
ReadRecipients ==
    /\ checker.pc = "recipients"
    /\ Goes(IF holders = {} THEN AfterNotices
            ELSE [pc |-> "notify", ok |-> checker.ok, detail |-> checker.detail, owners |-> holders])
    /\ forgotten' = (forgotten \/ holders = {})
    /\ UNCHANGED <<people, batches, mails, alertFaults>>

(* createManyNotifications: one statement, which an account that is gone   *)
(* makes fail; what is pushed to the screens is not awaited.               *)
Notify ==
    /\ checker.pc = "notify"
    /\ IF checker.owners \subseteq accounts
       THEN batches' = Append(batches, [detail |-> checker.detail, owners |-> checker.owners]) /\ Goes(AfterNotices)
       ELSE Goes(Resting) /\ UNCHANGED batches
    /\ UNCHANGED <<people, mails, forgotten, alertFaults>>

(* enqueueNotificationEmail: nothing is queued for nobody, and a mail that *)
(* cannot be queued is only logged.                                        *)
Mail ==
    /\ checker.pc = "mail"
    /\ \/ mails' = (IF mailTo THEN checker.detail ELSE mails) /\ UNCHANGED alertFaults
       \/ Fault /\ UNCHANGED mails
    /\ Goes(Resting)
    /\ UNCHANGED <<people, batches, forgotten>>

(* A statement fails, or the process ends: startDailyCheck begins again.   *)
CheckDies ==
    /\ checker # Resting /\ Fault
    /\ Goes(Resting)
    /\ UNCHANGED <<people, told>>

(***************************************************************************)
(* Everybody else                                                          *)
(***************************************************************************)
Changing == changed < MaxChanges /\ changed' = changed + 1 /\ UNCHANGED <<mails, checker, alertFaults>>

Breaks(p) ==
    /\ Changing
    /\ problems' = IF p \in problems THEN problems \ {p} ELSE problems \cup {p}
    /\ UNCHANGED <<accounts, holders, language, mailTo, batches, forgotten>>

(* A user or a role changes; somebody new has no old notifications.        *)
Appoint(some) ==
    /\ Changing /\ some \subseteq accounts /\ some # holders
    /\ holders' = some
    /\ UNCHANGED <<problems, accounts, language, mailTo, batches, forgotten>>

Configure(lng, somebody) ==
    /\ Changing /\ <<lng, somebody>> # <<language, mailTo>>
    /\ language' = lng /\ mailTo' = somebody
    /\ UNCHANGED <<problems, accounts, holders, batches, forgotten>>

(* A batch is gone when nobody has it.                                     *)
Without(lost, user) ==
    LET left == [n \in DOMAIN batches |-> IF n \in lost THEN [batches[n] EXCEPT !.owners = @ \ {user}] ELSE batches[n]]
    IN  SelectSeq(left, LAMBDA b : b.owners # {})

Loses(lost, user) ==
    /\ batches' = Without(lost, user)
    /\ forgotten' = (forgotten \/ Len(Without(lost, user)) < Len(batches))

(* deleteNotification; reading one leaves what a check looks at.           *)
DeleteNotification(n, user) ==
    /\ user \in batches[n].owners
    /\ Changing /\ Loses({n}, user)
    /\ UNCHANGED <<problems, accounts, holders, language, mailTo>>

(* The notifications of a user go with the account.                        *)
RemoveUser(user) ==
    /\ user \in accounts
    /\ Changing /\ Loses(DOMAIN batches, user)
    /\ accounts' = accounts \ {user} /\ holders' = holders \ {user}
    /\ UNCHANGED <<problems, language, mailTo>>

(***************************************************************************)
(* The specification                                                       *)
(***************************************************************************)
AlertInit ==
    /\ problems = {} /\ accounts = User /\ holders \in SUBSET User /\ language \in Language /\ mailTo \in BOOLEAN
    /\ batches = <<>> /\ mails = NoMail /\ checker = Resting
    /\ changed = 0 /\ alertFaults = 0 /\ forgotten = FALSE

CheckStep == RunCheck \/ ReadLanguage \/ ReadLast \/ ReadRecipients \/ Notify \/ Mail

AlertNext ==
    \/ CheckStep \/ CheckDies
    \/ \E p \in Problem : Breaks(p)
    \/ \E some \in SUBSET User : Appoint(some)
    \/ \E lng \in Language, somebody \in BOOLEAN : Configure(lng, somebody)
    \/ \E user \in User : RemoveUser(user) \/ \E n \in DOMAIN batches : DeleteNotification(n, user)

(* setInterval ticks every day, and every statement ends.                  *)
AlertFairness == WF_alertVars(CheckStep)
AlertSpec == AlertInit /\ [][AlertNext]_alertVars /\ AlertFairness

(***************************************************************************)
(* Properties                                                              *)
(***************************************************************************)
(* checkAndAlert ("solo si el resultado cambió respecto al último aviso"): *)
(* as soon as somebody has the permission for good, the last notification  *)
(* comes to say what is wrong and goes on saying it, whatever was deleted, *)
(* repaired or interrupted; when nothing is, there is none or it says so.  *)
(* And while mail has somebody to go to, unless a check was interrupted or *)
(* what it told is not recalled, the last mail says it as well.            *)
AlertsCatchUp ==
    LET now == Summary(Counts, language)
    IN  /\ <>[](holders # {}) => <>[](IF batches = <<>> THEN AllRight(Counts) ELSE Last(batches).detail = now)
        /\ []mailTo => <>[](holders # {} /\ alertFaults = 0 /\ ~forgotten /\ ~AllRight(Counts) => mails = now)
=============================================================================
