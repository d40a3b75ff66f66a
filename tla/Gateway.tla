------------------------------- MODULE Gateway -------------------------------
(***************************************************************************)
(* The client of the CardPay API: internal/payment_system/cardpay.go. Its  *)
(* handlers share one cache of access tokens, one per terminal, which is   *)
(* read without and written with a mutex.                                  *)
(*                                                                         *)
(* Time is the client's clock, in the seconds getToken compares. A         *)
(* lifetime 0 stands for one that is zero, negative or missing in the      *)
(* gateway's answer, which is stored like any other. The cache is a Go     *)
(* map: a read while another handler writes may end the process.           *)
(***************************************************************************)
EXTENDS Integers, FiniteSets

CONSTANTS
    Callers,       \* handlers that run at the same time
    Terminals,     \* terminal ids of the payment methods
    NoToken,
    Lifetimes,     \* what the gateway answers: expires_in and refresh_expires_in
    MaxTime,       \* bound on the clock
    MaxTroubles    \* bound on answers that are not JSON and deaths of the process

ASSUME GatewayAssumption ==
    /\ NoToken \notin Terminals
    /\ NoToken \notin [terminal : Terminals, life : Lifetimes, stored : Nat]
    /\ Lifetimes \subseteq [access : Nat, refresh : Nat]
    /\ MaxTime \in Nat /\ MaxTroubles \in Nat

VARIABLES
    now,
    tokens,      \* terminal -> token or NoToken, h.tokens
    mutex,       \* whether h.mu is locked
    caller,      \* handler -> its state
    badAnswers,
    races

gatewayVars == <<now, tokens, mutex, caller, badAnswers, races>>

Token == [terminal : Terminals, life : Lifetimes, stored : Nat]

\* What getToken asks of a token before it returns it, or tries to refresh it.
Usable(token) == token.life.access > 0 /\ token.stored + token.life.access >= now

Refreshable(token) == token.life.refresh > 0 /\ token.stored + token.life.refresh >= now

\* held is when the handler found or stored a token for auth. At the second call of
\* getToken, late says whether the clock had moved since, or its token had no lifetime.
Caller ==
    [pc : {"idle", "get", "refresh", "password", "lock", "write", "take", "send"},
     terminal : Terminals \cup {NoToken}, stage : {"auth", "build"},
     grant : {"refresh", "password"}, token : Token \cup {NoToken}, held : Nat,
     late : BOOLEAN, status : {"none", "created", "rejected", "panic"}]

NoCall ==
    [pc |-> "idle", terminal |-> NoToken, stage |-> "auth", grant |-> "password",
     token |-> NoToken, held |-> 0, late |-> FALSE, status |-> "none"]

GatewayTypeOK ==
    /\ now \in 0 .. MaxTime
    /\ tokens \in [Terminals -> Token \cup {NoToken}]
    /\ mutex \in BOOLEAN
    /\ caller \in [Callers -> Caller]
    /\ badAnswers \in 0 .. MaxTroubles
    /\ races \in 0 .. MaxTroubles

GatewayInit ==
    /\ now = 0
    /\ tokens = [t \in Terminals |-> NoToken]
    /\ mutex = FALSE
    /\ caller = [c \in Callers |-> NoCall]
    /\ badAnswers = 0
    /\ races = 0

-----------------------------------------------------------------------------
Become(c, s) == caller' = [caller EXCEPT ![c] = s]

\* The handler that was in state s returns, and the order has this status.
Ended(s, status) ==
    [NoCall EXCEPT !.late = status = "panic" /\ s.late, !.status = status]

Finish(c, status) == Become(c, Ended(caller[c], status))

\* getCardPayOrder: what is sent, a payment, one whose card is stored, or one with a
\* card that was.
GetCardPayOrder(bankCard, storeData, recurringId) ==
    CASE recurringId                               -> "filing"
      [] ~recurringId /\ bankCard /\ storeData     -> "recurring"
      [] ~recurringId /\ ~(bankCard /\ storeData)  -> "payment"

\* A handler makes a request for an order of terminal t.
CreatePayment(c, t) ==
    /\ caller[c].pc = "idle"
    /\ Become(c, [NoCall EXCEPT !.pc = "get", !.terminal = t])
    /\ UNCHANGED <<now, tokens, mutex, badAnswers, races>>

\* auth ended without an error, or getToken has returned a token to send: in the first
\* case getRequestWithAuth calls getToken again.
Proceed(s, token) ==
    IF s.stage = "auth" THEN [s EXCEPT !.pc = "get", !.stage = "build"]
    ELSE [s EXCEPT !.pc = "send", !.token = token, !.late = FALSE]

\* getToken returned nil: auth asks for a new token, getRequestWithAuth uses it.
Missing(s) ==
    IF s.stage = "auth" THEN [s EXCEPT !.pc = "password", !.grant = "password"]
    ELSE Ended(s, "panic")

\* The second call of getToken, made by getRequestWithAuth, finds this token.
Found(s, token) ==
    IF s.stage = "auth" THEN s
    ELSE [s EXCEPT !.late = now > s.held \/ (token # NoToken /\ token.life.access = 0)]

\* The handler has found a token it can use, or stored one.
Holds(s) == IF s.stage = "auth" THEN [s EXCEPT !.held = now] ELSE s

\* Mistake: auth is satisfied with any token of the terminal.
GetTokenOnce(c) ==
    LET token == tokens[caller[c].terminal]
        s == Found(caller[c], token)
    IN  /\ s.pc = "get"
        /\ Become(c,
             CASE token = NoToken -> Missing(s)
               [] s.stage = "auth" \/ Usable(token) -> Proceed(Holds(s), token)
               [] OTHER -> Missing(s))
        /\ UNCHANGED <<now, tokens, mutex, badAnswers, races>>

\* getToken.
GetToken(c) ==
    LET token == tokens[caller[c].terminal]
        s == Found(caller[c], token)
    IN  /\ s.pc = "get"
        /\ Become(c,
             CASE token # NoToken /\ Usable(token) -> Proceed(Holds(s), token)
               [] token = NoToken \/ (~Usable(token) /\ ~Refreshable(token)) -> Missing(s)
               [] OTHER -> [s EXCEPT !.pc = "refresh", !.grant = "refresh"])
        /\ UNCHANGED <<now, tokens, mutex, badAnswers, races>>

\* The gateway has answered a request for a token with something.
Answered(c) == Become(c, [caller[c] EXCEPT !.pc = "lock"])

\* refresh; if it fails getToken returns nil.
Refresh(c) ==
    /\ caller[c].pc = "refresh"
    /\ Answered(c) \/ Become(c, Missing(caller[c]))
    /\ UNCHANGED <<now, tokens, mutex, badAnswers, races>>

\* auth with the password of the terminal; the handler fails if it fails.
Auth(c) ==
    /\ caller[c].pc = "password"
    /\ Answered(c) \/ Finish(c, "rejected")
    /\ UNCHANGED <<now, tokens, mutex, badAnswers, races>>

\* setToken takes the mutex ...
LockTokens(c) ==
    /\ caller[c].pc = "lock" /\ ~mutex
    /\ mutex' = TRUE
    /\ Become(c, [caller[c] EXCEPT !.pc = "write"])
    /\ UNCHANGED <<now, tokens, badAnswers, races>>

NewToken(s, life) == [terminal |-> s.terminal, life |-> life, stored |-> now]

\* What setToken's caller does after it.
AfterSetToken(s, ok) ==
    CASE ok /\ s.grant = "refresh"    -> [Holds(s) EXCEPT !.pc = "take", !.grant = "password"]
      [] ok /\ s.grant = "password"   -> Proceed(Holds(s), NoToken)
      [] ~ok /\ s.grant = "refresh"   -> Missing(s)
      [] ~ok /\ s.grant = "password"  -> Ended(s, "rejected")

\* An answer that is not JSON is returned as an error with the mutex still locked.
NotJSON(c) ==
    /\ badAnswers + races < MaxTroubles /\ badAnswers' = badAnswers + 1
    /\ Become(c, AfterSetToken(caller[c], FALSE))
    /\ UNCHANGED <<tokens, mutex>>

\* Mistake: the mutex is never unlocked.
SetTokenKeepsMutex(c) ==
    /\ caller[c].pc = "write"
    /\ \/ \E life \in Lifetimes :
             /\ tokens' = [tokens EXCEPT ![caller[c].terminal] = NewToken(caller[c], life)]
             /\ Become(c, AfterSetToken(caller[c], TRUE))
             /\ UNCHANGED <<mutex, badAnswers>>
       \/ NotJSON(c)
    /\ UNCHANGED <<now, races>>

\* Mistake: one token for every terminal.
SetTokenForAll(c) ==
    /\ caller[c].pc = "write"
    /\ \/ \E life \in Lifetimes :
             /\ tokens' = [t \in Terminals |-> NewToken(caller[c], life)]
             /\ mutex' = FALSE
             /\ Become(c, AfterSetToken(caller[c], TRUE))
             /\ UNCHANGED badAnswers
       \/ NotJSON(c)
    /\ UNCHANGED <<now, races>>

\* ... and parses and stores the token, whatever its lifetimes.
SetToken(c) ==
    /\ caller[c].pc = "write"
    /\ \/ \E life \in Lifetimes :
             /\ tokens' = [tokens EXCEPT ![caller[c].terminal] = NewToken(caller[c], life)]
             /\ mutex' = FALSE
             /\ Become(c, AfterSetToken(caller[c], TRUE))
             /\ UNCHANGED badAnswers
       \/ NotJSON(c)
    /\ UNCHANGED <<now, races>>

\* After a refresh getToken returns what the cache has, whatever its lifetime.
TakeToken(c) ==
    /\ caller[c].pc = "take"
    /\ Become(c, Proceed(caller[c], tokens[caller[c].terminal]))
    /\ UNCHANGED <<now, tokens, mutex, badAnswers, races>>

\* Mistake: the order is left without a status.
SendWithoutStatus(c, data) ==
    /\ caller[c].pc = "send"
    /\ Finish(c, "")
    /\ UNCHANGED <<now, tokens, mutex, badAnswers, races>>

\* The request goes out. The order is created if the request was taken and its answer
\* read, and rejected otherwise; one with a stored card must also be told of success.
Send(c, data) ==
    /\ caller[c].pc = "send"
    /\ \E answer \in {"none", "unread", "failed", "success"} :
          Finish(c, IF answer = "success" \/ (answer = "failed" /\ data # "filing")
                    THEN "created" ELSE "rejected")
    /\ UNCHANGED <<now, tokens, mutex, badAnswers, races>>

Tick ==
    /\ now < MaxTime /\ now' = now + 1
    /\ UNCHANGED <<tokens, mutex, caller, badAnswers, races>>

\* A read of the cache while it is written: the process ends and starts again.
MapRace ==
    /\ badAnswers + races < MaxTroubles /\ races' = races + 1
    /\ \E c, d \in Callers : caller[c].pc \in {"get", "take"} /\ caller[d].pc = "write"
    /\ tokens' = [t \in Terminals |-> NoToken]
    /\ mutex' = FALSE
    /\ caller' = [c \in Callers |-> NoCall]
    /\ UNCHANGED <<now, badAnswers>>

CallerStep(c) ==
    \/ GetToken(c)
    \/ Refresh(c)
    \/ Auth(c)
    \/ LockTokens(c)
    \/ SetToken(c)
    \/ TakeToken(c)
    \/ \E data \in {GetCardPayOrder(b, s, r) : b, s, r \in BOOLEAN} : Send(c, data)

GatewayNext ==
    \/ \E c \in Callers : CallerStep(c) \/ \E t \in Terminals : CreatePayment(c, t)
    \/ Tick
    \/ MapRace

\* A handler that can go on does, and the mutex is fair (sync.Mutex).
GatewayFairness ==
    \A c \in Callers : WF_gatewayVars(CallerStep(c)) /\ SF_gatewayVars(LockTokens(c))

GatewaySpec == GatewayInit /\ [][GatewayNext]_gatewayVars /\ GatewayFairness

-----------------------------------------------------------------------------
(* Properties.                                                             *)

\* A request is sent with a token of its own terminal whose time, counted from when it
\* was stored, had not run out by the client's clock when the handler found or stored a
\* token for auth, whoever else has replaced that meanwhile (getToken, getRequestWithAuth).
RequestHasItsToken ==
    \A c \in Callers :
        caller[c].pc = "send" =>
            LET token == caller[c].token
            IN  /\ token # NoToken
                /\ token.terminal = caller[c].terminal
                /\ token.stored + token.life.access >= caller[c].held

\* getRequestWithAuth panics on the nil token it does not look for only if the clock had
\* moved since the handler found or stored a token for auth, or the second call of
\* getToken found one the gateway gave no lifetime: never at once on a token with one.
PanicNeedsExpiry ==
    \A c \in Callers : caller[c].status = "panic" => caller[c].late

\* Every handler ends, unless an answer to a request for a token was not JSON: setToken
\* then returns without unlocking the mutex, and every later setToken waits for ever.
RequestsEnd ==
    \A c \in Callers :
        caller[c].pc # "idle" ~> (caller[c].pc = "idle" \/ badAnswers > 0)
=============================================================================
