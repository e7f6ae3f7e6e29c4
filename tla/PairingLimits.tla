---------------------------- MODULE PairingLimits ----------------------------
(***************************************************************************)
(* How often a pairing code can be tried: the limit per address and the    *)
(* budget over all addresses of host/src/pairing.rs, for HELLO2s over      *)
(* Wi-Fi without the pairing token. A valid token and the cable pass       *)
(* before either limit changes. LimitsProofs extends two more modules, so  *)
(* the specification's parts have names of their own.                      *)
(*                                                                         *)
(* A definition right above another that it resembles, named for a         *)
(* mistake, is a faulty variant the specification does not use.            *)
(***************************************************************************)
EXTENDS Integers, FiniteSets, Functions

CONSTANTS
  Addresses,     \* the IP addresses that try
  Nonces,        \* nonces of HELLO2s; a retransmission keeps its own
  MaxCode,       \* bound: codes in use
  MaxIps,        \* MAX_IPS: addresses with an entry of their own
  MaxFailures,   \* failures of an entry that start its ban
  Window,        \* WINDOW: how long an entry or a ban lasts
  CodeBudget,    \* CODE_BUDGET
  BudgetWindow,  \* BUDGET_WINDOW
  MaxTime        \* bound: the clock

ASSUME LimitsAssumption ==
  /\ MaxIps \in Nat /\ MaxCode \in Nat \ {0, 1}
  /\ {MaxFailures, Window, CodeBudget, BudgetWindow, MaxTime} \subseteq Nat \ {0}
  /\ Window <= BudgetWindow

Never == -1
Time == 0..MaxTime
Until == {Never} \cup 0..(MaxTime + Window + BudgetWindow)
NoCode == 0

\* FailedRequest: the nonce and what was presented.
Requests == [nonce : Nonces, code : 0..MaxCode]
Attempts == [since : Time, failures : SUBSET Requests, blockedUntil : Until]

VARIABLES
  now,
  code,      \* the code on the screen
  entries,   \* RateLimiter.entries
  overflow,  \* RateLimiter.overflow, as a set of none or one
  spent,     \* CodeBudget.spent; its order is that of the times
  paused,    \* CodeBudget.paused_until
  judged     \* history: guesses compared in the last BudgetWindow, since the last resume

limitsVars == <<now, code, entries, overflow, spent, paused, judged>>

Spent == [at : Time, request : Requests]
Guess == [at : Time, from : Addresses, request : Requests]

LimitsTypeOK ==
  /\ now \in Time
  /\ code \in 1..MaxCode
  /\ DOMAIN entries \subseteq Addresses /\ Cardinality(DOMAIN entries) <= MaxIps
  /\ \A a \in DOMAIN entries : entries[a] \in Attempts
  /\ overflow \subseteq Attempts /\ Cardinality(overflow) <= 1
  /\ spent \subseteq Spent /\ Cardinality(spent) <= CodeBudget
  /\ paused \in Until
  /\ judged \subseteq Guess

NoEntries == [a \in {} |-> {}]

LimitsInit ==
  /\ now = 0 /\ code = 1
  /\ entries = NoEntries /\ overflow = {}
  /\ spent = {} /\ paused = Never
  /\ judged = {}

-----------------------------------------------------------------------------
(* The limit per address.                                                  *)

\* A ban is over when it ends, a count when its window is.
ActiveForWindow(entry) == now < entry.since + Window
Active(entry) ==
  IF entry.blockedUntil = Never THEN now < entry.since + Window ELSE now < entry.blockedUntil

Pruned == RestrictValues(entries, Active)
PrunedOverflow == {entry \in overflow : Active(entry)}

Banned(entry) == entry.blockedUntil # Never /\ now < entry.blockedUntil

\* An address without an entry of its own answers for the shared one.
EntriesOf(a) == IF a \in DOMAIN Pruned THEN {Pruned[a]} ELSE PrunedOverflow
AddressBlocked(a) == \E entry \in EntriesOf(a) : Banned(entry)

Fresh == [since |-> now, failures |-> {}, blockedUntil |-> Never]

\* One more failure, unless it is a retransmission.
WithFailure(entry, request) ==
  IF Banned(entry) \/ request \in entry.failures THEN entry
  ELSE LET failures == entry.failures \cup {request} IN
    [entry EXCEPT !.failures = failures,
                  !.blockedUntil = IF Cardinality(failures) = MaxFailures
                                   THEN now + Window ELSE Never]

\* RateLimiter::fail. A full table shares one entry and evicts none.
FailEvicting(a, request) ==
  LET full == Cardinality(DOMAIN Pruned) >= MaxIps
      kept == IF full /\ a \notin DOMAIN Pruned THEN NoEntries ELSE Pruned
      entry == IF a \in DOMAIN kept THEN kept[a] ELSE Fresh IN
    /\ entries' = [b \in DOMAIN kept \cup {a} |->
                     IF b = a THEN WithFailure(entry, request) ELSE kept[b]]
    /\ overflow' = PrunedOverflow

Fail(a, request) ==
  IF a \in DOMAIN Pruned \/ Cardinality(DOMAIN Pruned) < MaxIps
  THEN LET entry == IF a \in DOMAIN Pruned THEN Pruned[a] ELSE Fresh IN
         /\ entries' = [b \in DOMAIN Pruned \cup {a} |->
                          IF b = a THEN WithFailure(entry, request) ELSE Pruned[b]]
         /\ overflow' = PrunedOverflow
  ELSE /\ entries' = Pruned
       /\ overflow' = {WithFailure(entry, request) :
                         entry \in IF PrunedOverflow = {} THEN {Fresh} ELSE PrunedOverflow}

-----------------------------------------------------------------------------
(* The budget over all addresses.                                          *)

Paused == paused # Never /\ now < paused
PauseOver == paused # Never /\ now >= paused

\* CodeBudget::paused forgets the budget of a pause that is over.
Refreshed ==
  IF PauseOver THEN spent' = {} /\ paused' = Never ELSE UNCHANGED <<spent, paused>>

RotateCode == \E next \in 1..MaxCode \ {code} : code' = next

\* CodeBudget::spend: guesses leave the budget a window after they came.
SpentInAll == spent
SpentRecently ==
  IF PauseOver THEN {} ELSE {one \in spent : now - one.at < BudgetWindow}

Retransmitted(request) == \E one \in SpentRecently : one.request = request
SpentNow(request) == SpentRecently \cup {[at |-> now, request |-> request]}

\* The last guess of the budget pauses pairing and changes the code.
SpendLate(request) ==
  \/ /\ Retransmitted(request) \/ Cardinality(SpentRecently) < CodeBudget
     /\ spent' = IF Retransmitted(request) THEN SpentRecently ELSE SpentNow(request)
     /\ paused' = Never
     /\ UNCHANGED code
  \/ /\ ~Retransmitted(request) /\ Cardinality(SpentRecently) >= CodeBudget
     /\ spent' = SpentRecently
     /\ paused' = now + BudgetWindow
     /\ RotateCode

Spend(request) ==
  \/ /\ Retransmitted(request)
     /\ spent' = SpentRecently /\ paused' = Never
     /\ UNCHANGED code
  \/ /\ ~Retransmitted(request)
     /\ spent' = SpentNow(request)
     /\ IF Cardinality(SpentNow(request)) < CodeBudget
        THEN paused' = Never /\ UNCHANGED code
        ELSE paused' = now + BudgetWindow /\ RotateCode

-----------------------------------------------------------------------------
(* Pairing::authorize without a valid token, over Wi-Fi.                   *)

AddressLimited(a, request) ==
  /\ AddressBlocked(a)
  /\ entries' = Pruned /\ overflow' = PrunedOverflow
  /\ UNCHANGED <<now, code, spent, paused, judged>>

CodeLimited(a, request) ==
  /\ ~AddressBlocked(a)
  /\ request.code # NoCode /\ Paused
  /\ entries' = Pruned /\ overflow' = PrunedOverflow
  /\ UNCHANGED <<now, code, spent, paused, judged>>

\* The session changes a code that paired; a busy host keeps it.
Paired(a, request) ==
  /\ ~AddressBlocked(a) /\ ~Paused
  /\ request.code = code
  /\ RotateCode \/ UNCHANGED code
  /\ entries' = Pruned /\ overflow' = PrunedOverflow
  /\ Refreshed
  /\ UNCHANGED <<now, judged>>

\* No code: only the address counts it.
Asks(a, request) ==
  /\ ~AddressBlocked(a)
  /\ request.code = NoCode
  /\ Fail(a, request)
  /\ UNCHANGED <<now, code, spent, paused, judged>>

\* A retransmission is the same guess, while the window of the first lasts.
Guesses(a, request) ==
  LET recent == {guess \in judged : now - guess.at < BudgetWindow} IN
    IF \E guess \in recent : guess.request = request THEN recent
    ELSE recent \cup {[at |-> now, from |-> a, request |-> request]}

WrongCode(a, request) ==
  /\ ~AddressBlocked(a) /\ ~Paused
  /\ request.code \notin {NoCode, code}
  /\ Fail(a, request)
  /\ Spend(request)
  /\ judged' = Guesses(a, request)
  /\ UNCHANGED now

Authorize(a, request) ==
  \/ AddressLimited(a, request) \/ CodeLimited(a, request)
  \/ Paired(a, request) \/ Asks(a, request) \/ WrongCode(a, request)

\* resume_code_pairing, from the PC.
Resume ==
  /\ RotateCode
  /\ entries' = NoEntries /\ overflow' = {}
  /\ spent' = {} /\ paused' = Never
  /\ judged' = {}
  /\ UNCHANGED now

\* rotate_code and regenerate_token, from the PC: no limit is lifted.
NewCode ==
  /\ RotateCode
  /\ UNCHANGED <<now, entries, overflow, spent, paused, judged>>

Advance ==
  /\ now < MaxTime
  /\ now' = now + 1
  /\ UNCHANGED <<code, entries, overflow, spent, paused, judged>>

LimitsNext ==
  \/ \E a \in Addresses, request \in Requests : Authorize(a, request)
  \/ Resume \/ NewCode \/ Advance

LimitsSpec == LimitsInit /\ [][LimitsNext]_limitsVars

-----------------------------------------------------------------------------
\* docs/pairing.md: "the host takes at most 10 wrong codes in 10 minutes from
\* all addresses together", however they spread over windows, pauses and bans.
BudgetHolds ==
  Cardinality({guess \in judged : now - guess.at < BudgetWindow}) <= CodeBudget

\* "Never evict a live ban": an address that is banned stays banned until that
\* ban ends, whoever else tries and wherever its failures are counted.
BanOf(a) == {entry.blockedUntil : entry \in {e \in EntriesOf(a) : Banned(e)}}
BanHolds ==
  [][~Resume => \A a \in Addresses : \A until \in BanOf(a) :
       now' >= until \/ until \in BanOf(a)']_limitsVars

\* docs/pairing.md: "Five failed authorization attempts from one IP within 60
\* seconds block further code attempts from that IP". The code counts them in
\* a window that starts with the first, so a later one may start over.
FailuresBlock ==
  \A a \in Addresses :
    Cardinality({guess \in judged : guess.from = a /\ now - guess.at < Window}) >= MaxFailures
      => AddressBlocked(a)
=============================================================================
