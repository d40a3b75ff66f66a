--------------------------- MODULE CardPayProofs ---------------------------
(***************************************************************************)
(* Theorems about the client of the CardPay API (Gateway) and about the    *)
(* recurring payments made with it (Subscription). Handlers of the client  *)
(* that overlap replace each other's tokens; what makes the token one      *)
(* takes from the cache good enough is that a token stored after another   *)
(* ends no earlier than that is stored, and that none is ever taken out.   *)
(* What keeps a charged subscription in the lists is that the handler that *)
(* deletes it knows of the subscription the gateway has. The total of a    *)
(* subscription counts its paid orders if at most two requests overlap:    *)
(* once a payment is counted only one other callback can be there, which   *)
(* read the total either before or after that (Counted).                   *)
(***************************************************************************)
EXTENDS Gateway, Subscription, SequenceTheorems, TLAPS

\* When the time of a token runs out.
Ends(token) == token.stored + token.life.access

\* The cache has a token for the handler in state s that had not ended when the handler
\* found or stored one for auth.
Kept(s) == tokens[s.terminal] # NoToken /\ Ends(tokens[s.terminal]) >= s.held

\* In the second stage, getRequestWithAuth, a token was found or stored before, and a
\* new one is asked for only if that has ended since or had no lifetime.
OwnToken(s) ==
    /\ s.pc # "idle" => s.terminal \in Terminals /\ s.held <= now /\ s.status = "none"
    /\ s.pc = "refresh" => s.grant = "refresh"
    /\ (s.pc = "password" \/ (s.pc \in {"lock", "write"} /\ s.grant = "password"))
          => s.stage = "auth"
    /\ ((s.pc # "idle" /\ s.stage = "build") \/ s.pc = "take") => Kept(s)
    /\ (s.stage = "build" /\ s.pc \in {"refresh", "lock", "write"}) => s.late
    /\ s.pc = "send" =>
          /\ s.token # NoToken /\ s.token.terminal = s.terminal
          /\ Ends(s.token) >= s.held
    /\ s.status = "panic" => s.late

\* A token is kept for the terminal it was given for.
TokensInPlace == \A t \in Terminals : tokens[t] # NoToken => tokens[t].terminal = t

GatewayInv ==
    GatewayTypeOK /\ TokensInPlace /\ \A c \in Callers : OwnToken(caller[c])

LEMMA NoCallType == NoCall \in Caller /\ OwnToken(NoCall)
  BY DEF NoCall, Caller, OwnToken

LEMMA TokenIs == \A k \in Token : k.stored \in Nat /\ k.life.access \in Nat /\ Ends(k) \in Int
  BY GatewayAssumption DEF Token, Ends

LEMMA EndedType ==
  ASSUME NEW s \in Caller, NEW status \in {"none", "created", "rejected", "panic"},
         status = "panic" => s.late
  PROVE  Ended(s, status) \in Caller /\ OwnToken(Ended(s, status))
<1>0. NoCall \in Caller /\ NoCall.pc = "idle" /\ NoCall.stage = "auth"
  BY NoCallType DEF NoCall
<1>1. CASE status = "panic"
  <2>1. Ended(s, status) = [NoCall EXCEPT !.late = TRUE, !.status = status]
    BY <1>1 DEF Ended, Caller
  <2>2. Ended(s, status) \in Caller
    BY <1>0, <2>1 DEF Caller
  <2>3. Ended(s, status).pc = "idle" /\ Ended(s, status).stage = "auth" /\ Ended(s, status).late
    BY <1>0, <2>1 DEF Caller
  <2> QED
    BY <2>2, <2>3 DEF OwnToken
<1>2. CASE status # "panic"
  <2>1. Ended(s, status) = [NoCall EXCEPT !.late = FALSE, !.status = status]
    BY <1>2 DEF Ended
  <2>2. Ended(s, status) \in Caller
    BY <1>0, <2>1 DEF Caller
  <2>3. /\ Ended(s, status).pc = "idle" /\ Ended(s, status).stage = "auth"
        /\ Ended(s, status).status = status
    BY <1>0, <2>1 DEF Caller
  <2> QED
    BY <1>2, <2>2, <2>3 DEF OwnToken
<1> QED
  BY <1>1, <1>2

\* What getToken returns nil for: a new token in the first stage, and the panic of the
\* second one.
LEMMA MissingOwn ==
  ASSUME NEW s \in Caller, OwnToken(s), s.pc # "idle",
         s.stage = "build" => s.late
  PROVE  Missing(s) \in Caller /\ OwnToken(Missing(s))
<1>1. CASE s.stage = "auth"
  BY <1>1 DEF Missing, Caller, OwnToken, Kept
<1>2. CASE s.stage = "build"
  BY <1>2, EndedType DEF Missing
<1> QED
  BY <1>1, <1>2 DEF Caller

LEMMA ProceedOwn ==
  ASSUME NEW s \in Caller, OwnToken(s), s.pc # "idle", Kept(s),
         NEW token \in Token \cup {NoToken},
         s.stage = "build" => /\ token # NoToken /\ token.terminal = s.terminal
                              /\ Ends(token) >= s.held
  PROVE  Proceed(s, token) \in Caller /\ OwnToken(Proceed(s, token))
<1>1. CASE s.stage = "auth"
  BY <1>1 DEF Proceed, Caller, OwnToken, Kept
<1>2. CASE s.stage = "build"
  BY <1>2 DEF Proceed, Caller, OwnToken, Kept
<1> QED
  BY <1>1, <1>2 DEF Caller

\* A step of one handler, or of the clock, keeps GatewayInv if it stores no token that
\* ends before now.
LEMMA CallerChange ==
  ASSUME GatewayInv, GatewayTypeOK', TokensInPlace', now' >= now,
         \A t \in Terminals : \/ tokens'[t] = tokens[t]
                              \/ tokens'[t] # NoToken /\ Ends(tokens'[t]) >= now,
         \A c \in Callers : caller'[c] = caller[c] \/ OwnToken(caller[c])'
  PROVE  GatewayInv'
<1> SUFFICES ASSUME NEW c \in Callers, caller'[c] = caller[c]
             PROVE  OwnToken(caller[c])'
  BY DEF GatewayInv
<1>1. caller[c] \in Caller /\ OwnToken(caller[c]) /\ now \in Int /\ now' \in Int
  BY GatewayAssumption DEF GatewayInv, GatewayTypeOK
<1>2. ASSUME caller[c].pc # "idle", Kept(caller[c])
      PROVE  Kept(caller[c])'
  <2>1. caller[c].terminal \in Terminals /\ caller[c].held \in Int /\ caller[c].held <= now
    BY <1>1, <1>2 DEF OwnToken, Caller
  <2>2. tokens'[caller[c].terminal] \in Token \cup {NoToken}
    BY <2>1 DEF GatewayTypeOK
  <2> QED
    BY <1>1, <1>2, <2>1, <2>2, TokenIs DEF Kept, Ends
<1>3. /\ caller[c].held \in Int
      /\ (caller[c].pc # "idle" /\ caller[c].stage = "build") \/ caller[c].pc = "take"
            => Kept(caller[c])' /\ caller[c].pc # "idle"
  BY <1>1, <1>2 DEF OwnToken, Caller
<1> QED
  BY <1>1, <1>3 DEF OwnToken

\* A step of one handler that leaves the cache and the clock alone.
LEMMA CallerMoves ==
  ASSUME GatewayInv, NEW c \in Callers, NEW s \in Caller, OwnToken(s), Become(c, s),
         UNCHANGED <<now, tokens, races>>, mutex' \in BOOLEAN,
         badAnswers' \in 0 .. MaxTroubles
  PROVE  GatewayInv'
<1>1. GatewayTypeOK' /\ TokensInPlace'
  BY DEF GatewayInv, GatewayTypeOK, TokensInPlace, Become
<1>2. now' >= now
  BY GatewayAssumption DEF GatewayInv, GatewayTypeOK
<1>3. OwnToken(s)'
  BY DEF OwnToken, Kept
<1>4. \A d \in Callers : caller'[d] = IF d = c THEN s ELSE caller[d]
  BY DEF GatewayInv, GatewayTypeOK, Become
<1>5. \A d \in Callers : caller'[d] = caller[d] \/ OwnToken(caller[d])'
  BY <1>3, <1>4
<1> QED
  BY <1>1, <1>2, <1>5, CallerChange

\* What GatewayInv says of one handler.
LEMMA CallerFacts ==
  ASSUME GatewayInv, NEW c \in Callers
  PROVE  /\ caller[c] \in Caller /\ OwnToken(caller[c]) /\ now \in Nat
         /\ mutex \in BOOLEAN /\ badAnswers \in 0 .. MaxTroubles
         /\ caller[c].pc # "idle" =>
               /\ caller[c].terminal \in Terminals
               /\ tokens[caller[c].terminal] \in Token \cup {NoToken}
               /\ tokens[caller[c].terminal] # NoToken =>
                     tokens[caller[c].terminal].terminal = caller[c].terminal
  BY GatewayAssumption DEF GatewayInv, GatewayTypeOK, TokensInPlace, OwnToken

LEMMA CreatePaymentKeeps ==
  ASSUME GatewayInv, NEW c \in Callers, NEW t \in Terminals, CreatePayment(c, t)
  PROVE  GatewayInv'
<1> DEFINE s == [NoCall EXCEPT !.pc = "get", !.terminal = t]
<1>0. /\ NoCall \in Caller /\ NoCall.pc = "idle" /\ NoCall.stage = "auth"
      /\ NoCall.status = "none" /\ NoCall.held = 0
  BY NoCallType DEF NoCall
<1>1. now \in Nat
  BY CallerFacts
<1>3. s \in Caller
  BY <1>0, <1>1 DEF Caller
<1>4. /\ s.pc = "get" /\ s.terminal = t /\ s.held = 0 /\ s.stage = "auth"
      /\ s.status = "none"
  BY <1>0 DEF Caller
<1>5. OwnToken(s)
  BY <1>1, <1>4 DEF OwnToken
<1>2. Become(c, s)
  BY DEF CreatePayment
<1> HIDE DEF s
<1> QED
  BY <1>2, <1>3, <1>5, CallerFacts, CallerMoves DEF CreatePayment

\* The handler with the token it has found is as it was but for late.
LEMMA FoundIs ==
  ASSUME NEW s \in Caller, OwnToken(s), s.pc = "get", NEW token
  PROVE  /\ Found(s, token) \in Caller /\ OwnToken(Found(s, token))
         /\ Found(s, token).pc = "get" /\ Found(s, token).terminal = s.terminal
         /\ Found(s, token).held = s.held /\ Found(s, token).stage = s.stage
         /\ s.stage = "build" =>
               Found(s, token).late =
                   (now > s.held \/ (token # NoToken /\ token.life.access = 0))
<1>1. CASE s.stage = "auth"
  BY <1>1 DEF Found
<1>2. CASE s.stage = "build"
  <2>1. PICK l \in BOOLEAN : l = (now > s.held \/ (token # NoToken /\ token.life.access = 0))
    OBVIOUS
  <2>2. PICK r : r = [s EXCEPT !.late = l]
    OBVIOUS
  <2>3. Found(s, token) = r
    BY <1>2, <2>1, <2>2 DEF Found
  <2>4. /\ r \in Caller /\ r.pc = "get" /\ r.terminal = s.terminal /\ r.held = s.held
        /\ r.stage = s.stage /\ r.late = l /\ r.grant = s.grant /\ r.status = s.status
    BY <2>2 DEF Caller
  <2>5. OwnToken(r)
    BY <2>4 DEF OwnToken, Kept
  <2> QED
    BY <1>2, <2>1, <2>3, <2>4, <2>5
<1> QED
  BY <1>1, <1>2 DEF Caller

LEMMA HoldsIs ==
  ASSUME NEW s \in Caller, now \in Nat
  PROVE  /\ Holds(s) \in Caller
         /\ Holds(s).pc = s.pc /\ Holds(s).terminal = s.terminal
         /\ Holds(s).stage = s.stage /\ Holds(s).grant = s.grant
         /\ Holds(s).late = s.late /\ Holds(s).status = s.status
         /\ Holds(s).held = IF s.stage = "auth" THEN now ELSE s.held
  BY DEF Holds, Caller

LEMMA GetTokenKeeps ==
  ASSUME GatewayInv, NEW c \in Callers, GetToken(c)
  PROVE  GatewayInv'
<1> DEFINE token == tokens[caller[c].terminal]
<1>s. PICK s : s = Found(caller[c], token)
  OBVIOUS
<1> DEFINE next == CASE token # NoToken /\ Usable(token) -> Proceed(Holds(s), token)
                     [] token = NoToken \/ (~Usable(token) /\ ~Refreshable(token)) ->
                            Missing(s)
                     [] OTHER -> [s EXCEPT !.pc = "refresh", !.grant = "refresh"]
<1>a. Become(c, next)
  BY <1>s DEF GetToken
<1>b. /\ caller[c] \in Caller /\ OwnToken(caller[c]) /\ caller[c].pc = "get"
      /\ caller[c].terminal \in Terminals
  <2>1. caller[c].pc = "get"
    <3>1. s.pc = "get"
      BY <1>s DEF GetToken
    <3> QED
      BY <1>s, <3>1, CallerFacts DEF Found, Caller
  <2> QED
    BY <2>1, CallerFacts
<1>0. /\ s \in Caller /\ OwnToken(s) /\ s.pc = "get" /\ s.terminal \in Terminals
      /\ s.terminal = caller[c].terminal
      /\ s.stage = "build" => s.late = (now > s.held \/ (token # NoToken /\ token.life.access = 0))
  BY <1>s, <1>b, FoundIs
<1>1. token \in Token \cup {NoToken} /\ now \in Nat /\ s.held \in Nat
  BY <1>0, <1>b, CallerFacts DEF Caller
<1>2. s.stage = "build" => token # NoToken /\ Ends(token) >= s.held
  BY <1>0 DEF OwnToken, Kept
<1>3. s.held <= now /\ (token # NoToken => token.terminal = s.terminal)
  BY <1>0, <1>b, CallerFacts DEF OwnToken
<1>4. ASSUME NEW q \in Caller, OwnToken(q), Become(c, q)
      PROVE  GatewayInv'
  BY <1>4, CallerFacts, CallerMoves DEF GetToken
<1>5. CASE token # NoToken /\ Usable(token)
  <2>1. next = Proceed(Holds(s), token)
    BY <1>5
  <2>2. token.life.access > 0 /\ Ends(token) >= now /\ Ends(token) \in Int
    BY <1>1, <1>5, TokenIs DEF Usable, Ends
  <2>3. PICK u : u = Holds(s)
    OBVIOUS
  <2>4. /\ u \in Caller /\ u.pc = "get" /\ u.terminal = s.terminal /\ u.stage = s.stage
        /\ u.grant = s.grant /\ u.status = s.status
        /\ u.held = IF s.stage = "auth" THEN now ELSE s.held
    BY <1>0, <1>1, <2>3, HoldsIs
  <2>5. Ends(token) >= u.held /\ u.held <= now
    BY <1>1, <1>3, <2>2, <2>4
  <2>6. OwnToken(u) /\ Kept(u)
    BY <1>0, <1>5, <2>4, <2>5 DEF OwnToken, Kept
  <2>7. Proceed(u, token) \in Caller /\ OwnToken(Proceed(u, token))
    BY <1>1, <1>3, <1>5, <2>4, <2>5, <2>6, ProceedOwn
  <2> QED
    BY <1>a, <1>4, <2>1, <2>3, <2>7
<1>6. CASE ~(token # NoToken /\ Usable(token))
  <2>1. s.stage = "build" => s.late
    <3> SUFFICES ASSUME s.stage = "build" PROVE s.late
      OBVIOUS
    <3>1. token # NoToken /\ token \in Token /\ Ends(token) >= s.held
      BY <1>1, <1>2
    <3>2. token.life.access = 0 \/ Ends(token) < now
      BY <1>1, <1>6, <3>1, TokenIs DEF Usable, Ends
    <3>3. token.life.access = 0 \/ now > s.held
      BY <1>1, <3>1, <3>2, TokenIs
    <3> QED
      BY <1>0, <3>1, <3>3
  <2>2. CASE token = NoToken \/ ~Refreshable(token)
    <3>1. next = Missing(s)
      BY <1>6, <2>2
    <3>2. Missing(s) \in Caller /\ OwnToken(Missing(s))
      BY <1>0, <2>1, MissingOwn
    <3> QED
      BY <1>a, <1>4, <3>1, <3>2
  <2>3. CASE token # NoToken /\ Refreshable(token)
    <3> DEFINE q == [s EXCEPT !.pc = "refresh", !.grant = "refresh"]
    <3>1. next = q
      BY <1>6, <2>3
    <3>2. q \in Caller /\ OwnToken(q)
      BY <1>0, <2>1 DEF Caller, OwnToken, Kept
    <3> QED
      BY <1>a, <1>4, <3>1, <3>2
  <2> QED
    BY <2>2, <2>3
<1> QED
  BY <1>5, <1>6

\* A handler that asked for a token, by refresh or with the password, goes on to store it.
LEMMA AnsweredKeeps ==
  ASSUME GatewayInv, NEW c \in Callers, caller[c].pc \in {"refresh", "password"},
         Answered(c), UNCHANGED <<now, tokens, mutex, badAnswers, races>>
  PROVE  GatewayInv'
<1> DEFINE s == caller[c]
           r == [s EXCEPT !.pc = "lock"]
<1>0. s \in Caller /\ OwnToken(s) /\ mutex \in BOOLEAN /\ badAnswers \in 0 .. MaxTroubles
  BY CallerFacts
<1>1. r \in Caller /\ OwnToken(r)
  BY <1>0 DEF Caller, OwnToken, Kept
<1>2. Become(c, r)
  BY DEF Answered
<1> HIDE DEF r
<1> QED
  BY <1>0, <1>1, <1>2, CallerMoves

LEMMA RefreshKeeps ==
  ASSUME GatewayInv, NEW c \in Callers, Refresh(c)
  PROVE  GatewayInv'
<1>0. /\ caller[c] \in Caller /\ OwnToken(caller[c])
      /\ caller[c].pc = "refresh" /\ mutex \in BOOLEAN /\ badAnswers \in 0 .. MaxTroubles
      /\ UNCHANGED <<now, tokens, mutex, badAnswers, races>>
  BY CallerFacts DEF Refresh
<1>1. CASE Answered(c)
  BY <1>0, <1>1, AnsweredKeeps
<1>2. CASE Become(c, Missing(caller[c]))
  <2>1. Missing(caller[c]) \in Caller /\ OwnToken(Missing(caller[c]))
    <3>1. caller[c].stage = "build" => caller[c].late
      BY <1>0 DEF OwnToken
    <3> QED
      BY <1>0, <3>1, MissingOwn
  <2> QED
    BY <1>0, <1>2, <2>1, CallerMoves
<1> QED
  BY <1>1, <1>2 DEF Refresh

LEMMA AuthKeeps ==
  ASSUME GatewayInv, NEW c \in Callers, Auth(c)
  PROVE  GatewayInv'
<1>0. /\ caller[c] \in Caller /\ mutex \in BOOLEAN
      /\ caller[c].pc = "password" /\ badAnswers \in 0 .. MaxTroubles
      /\ UNCHANGED <<now, tokens, mutex, badAnswers, races>>
  BY CallerFacts DEF Auth
<1>1. CASE Answered(c)
  BY <1>0, <1>1, AnsweredKeeps
<1>2. CASE Finish(c, "rejected")
  <2>1. Ended(caller[c], "rejected") \in Caller /\ OwnToken(Ended(caller[c], "rejected"))
    BY <1>0, EndedType
  <2> QED
    BY <1>0, <1>2, <2>1, CallerMoves DEF Finish
<1> QED
  BY <1>1, <1>2 DEF Auth

LEMMA LockTokensKeeps ==
  ASSUME GatewayInv, NEW c \in Callers, LockTokens(c)
  PROVE  GatewayInv'
<1> DEFINE r == [caller[c] EXCEPT !.pc = "write"]
<1>0. /\ caller[c] \in Caller /\ OwnToken(caller[c]) /\ caller[c].pc = "lock"
      /\ badAnswers \in 0 .. MaxTroubles
  BY CallerFacts DEF LockTokens
<1>1. r \in Caller /\ OwnToken(r)
  BY <1>0 DEF Caller, OwnToken, Kept
<1>2. Become(c, r) /\ UNCHANGED <<now, tokens, races, badAnswers>> /\ mutex' \in BOOLEAN
  BY DEF LockTokens
<1> HIDE DEF r
<1> QED
  BY <1>0, <1>1, <1>2, CallerMoves

\* The token setToken stores is for the terminal of its handler and ends no earlier than now.
LEMMA NewTokenType ==
  ASSUME NEW s \in Caller, s.terminal \in Terminals, NEW life \in Lifetimes, now \in Nat
  PROVE  /\ NewToken(s, life) \in Token /\ NewToken(s, life) # NoToken
         /\ NewToken(s, life).terminal = s.terminal /\ Ends(NewToken(s, life)) >= now
<1>1. life.access \in Nat
  BY GatewayAssumption
<1>2. NewToken(s, life) \in Token
  BY DEF NewToken, Token
<1>3. NewToken(s, life).terminal = s.terminal /\ Ends(NewToken(s, life)) >= now
  BY <1>1 DEF NewToken, Ends
<1> QED
  BY <1>2, <1>3, GatewayAssumption DEF Token

\* An answer that is not JSON: nothing is stored.
LEMMA NothingStored ==
  ASSUME GatewayInv, NEW c \in Callers, caller[c].pc = "write", NotJSON(c),
         UNCHANGED <<now, races>>
  PROVE  GatewayInv'
<1> DEFINE s == caller[c]
<1>0. s \in Caller /\ OwnToken(s) /\ mutex \in BOOLEAN /\ badAnswers \in 0 .. MaxTroubles
  BY CallerFacts
<1>1. Become(c, AfterSetToken(s, FALSE)) /\ UNCHANGED <<tokens, mutex>>
  BY DEF NotJSON
<1>2. badAnswers' \in 0 .. MaxTroubles
  BY <1>0, GatewayAssumption DEF NotJSON, GatewayInv, GatewayTypeOK
<1>4. CASE s.grant = "refresh"
  <2>1. AfterSetToken(s, FALSE) = Missing(s)
    BY <1>4 DEF AfterSetToken
  <2>2. s.stage = "build" => s.late
    BY <1>0 DEF OwnToken
  <2>3. Missing(s) \in Caller /\ OwnToken(Missing(s))
    BY <1>0, <2>2, MissingOwn
  <2> QED
    BY <1>0, <1>1, <1>2, <2>1, <2>3, CallerMoves
<1>5. CASE s.grant = "password"
  <2>1. AfterSetToken(s, FALSE) = Ended(s, "rejected")
    BY <1>5 DEF AfterSetToken
  <2>2. Ended(s, "rejected") \in Caller /\ OwnToken(Ended(s, "rejected"))
    BY <1>0, EndedType
  <2> QED
    BY <1>0, <1>1, <1>2, <2>1, <2>2, CallerMoves
<1> QED
  BY <1>0, <1>4, <1>5 DEF Caller

\* The token is stored and the handler goes on with what the cache has.
LEMMA TokenStored ==
  ASSUME GatewayInv, NEW c \in Callers, caller[c].pc = "write", NEW life \in Lifetimes,
         tokens' = [tokens EXCEPT ![caller[c].terminal] = NewToken(caller[c], life)],
         mutex' = FALSE, Become(c, AfterSetToken(caller[c], TRUE)),
         UNCHANGED <<now, badAnswers, races>>
  PROVE  GatewayInv'
<1> DEFINE s == caller[c]
<1>r. PICK r : r = AfterSetToken(s, TRUE)
  OBVIOUS
<1>k. PICK k : k = NewToken(s, life)
  OBVIOUS
<1>0. /\ s \in Caller /\ OwnToken(s) /\ now \in Nat
      /\ s.terminal \in Terminals /\ s.held <= now /\ s.held \in Nat
  BY CallerFacts DEF OwnToken, Caller
<1>1. /\ tokens' = [tokens EXCEPT ![s.terminal] = k] /\ Become(c, r)
  BY <1>r, <1>k
<1>2. /\ k \in Token /\ k # NoToken /\ Ends(k) \in Int
      /\ k.terminal = s.terminal /\ Ends(k) >= now
  BY <1>0, <1>k, NewTokenType, TokenIs
<1>3. tokens' \in [Terminals -> Token \cup {NoToken}] /\ TokensInPlace'
  BY <1>0, <1>1, <1>2 DEF GatewayInv, GatewayTypeOK, TokensInPlace
<1>4. \A t \in Terminals : \/ tokens'[t] = tokens[t]
                           \/ tokens'[t] # NoToken /\ Ends(tokens'[t]) >= now
  BY <1>0, <1>1, <1>2 DEF GatewayInv, GatewayTypeOK
<1>5. tokens'[s.terminal] = k
  BY <1>0, <1>1 DEF GatewayInv, GatewayTypeOK
<1>u. PICK u : u = Holds(s)
  OBVIOUS
<1>v. /\ u \in Caller /\ u.pc = "write" /\ u.terminal = s.terminal /\ u.stage = s.stage
      /\ u.grant = s.grant /\ u.status = "none"
      /\ u.held \in {now, s.held}
  BY <1>0, <1>u, HoldsIs DEF OwnToken
<1>w. Ends(k) >= u.held /\ u.held <= now
  BY <1>0, <1>2, <1>v
<1>6. r \in Caller /\ OwnToken(r)'
  <2>1. CASE s.grant = "refresh"
    <3>1. r = [u EXCEPT !.pc = "take", !.grant = "password"]
      BY <1>r, <1>u, <2>1 DEF AfterSetToken
    <3>2. /\ r \in Caller /\ r.pc = "take" /\ r.terminal = s.terminal /\ r.held = u.held
          /\ r.status = "none"
      BY <1>v, <3>1 DEF Caller
    <3>3. tokens'[r.terminal] # NoToken /\ Ends(tokens'[r.terminal]) >= r.held
      BY <1>2, <1>w, <1>5, <3>2
    <3>4. Kept(r)'
      BY <3>3 DEF Kept, Ends
    <3> QED
      BY <1>0, <1>w, <3>2, <3>4 DEF OwnToken
  <2>2. CASE s.grant = "password"
    <3>0. s.stage = "auth"
      BY <1>0, <2>2 DEF OwnToken
    <3>1. r = [u EXCEPT !.pc = "get", !.stage = "build"]
      BY <1>r, <1>u, <1>v, <2>2, <3>0 DEF AfterSetToken, Proceed
    <3>2. /\ r \in Caller /\ r.pc = "get" /\ r.terminal = s.terminal /\ r.held = u.held
          /\ r.status = "none"
      BY <1>v, <3>1 DEF Caller
    <3>3. tokens'[r.terminal] # NoToken /\ Ends(tokens'[r.terminal]) >= r.held
      BY <1>2, <1>w, <1>5, <3>2
    <3>4. Kept(r)'
      BY <3>3 DEF Kept, Ends
    <3> QED
      BY <1>0, <1>w, <3>2, <3>4 DEF OwnToken
  <2> QED
    BY <1>0, <2>1, <2>2 DEF Caller
<1>7. GatewayTypeOK'
  BY <1>1, <1>3, <1>6 DEF GatewayInv, GatewayTypeOK, Become
<1>8. \A d \in Callers : caller'[d] = caller[d] \/ OwnToken(caller[d])'
  <2>1. \A d \in Callers : caller'[d] = IF d = c THEN r ELSE caller[d]
    BY <1>1 DEF GatewayInv, GatewayTypeOK, Become
  <2> QED
    BY <1>6, <2>1
<1> QED
  BY <1>0, <1>3, <1>4, <1>7, <1>8, CallerChange

LEMMA SetTokenKeeps ==
  ASSUME GatewayInv, NEW c \in Callers, SetToken(c)
  PROVE  GatewayInv'
<1>1. CASE NotJSON(c)
  BY <1>1, NothingStored DEF SetToken
<1>2. CASE ~NotJSON(c)
  BY <1>2, TokenStored DEF SetToken
<1> QED
  BY <1>1, <1>2

LEMMA TakeTokenKeeps ==
  ASSUME GatewayInv, NEW c \in Callers, TakeToken(c)
  PROVE  GatewayInv'
<1> DEFINE s == caller[c]
           token == tokens[s.terminal]
<1>0. /\ s \in Caller /\ OwnToken(s) /\ s.pc = "take" /\ s.terminal \in Terminals
      /\ token \in Token \cup {NoToken} /\ (token # NoToken => token.terminal = s.terminal)
      /\ mutex \in BOOLEAN /\ badAnswers \in 0 .. MaxTroubles
  BY CallerFacts DEF TakeToken
<1>1. Kept(s)
  BY <1>0 DEF OwnToken
<1>2. Proceed(s, token) \in Caller /\ OwnToken(Proceed(s, token))
  <2>1. token # NoToken /\ Ends(token) >= s.held
    BY <1>1 DEF Kept
  <2> QED
    BY <1>0, <1>1, <2>1, ProceedOwn
<1> QED
  BY <1>0, <1>2, CallerMoves DEF TakeToken

LEMMA SendKeeps ==
  ASSUME GatewayInv, NEW c \in Callers, NEW data, Send(c, data)
  PROVE  GatewayInv'
<1>0. caller[c] \in Caller /\ now \in Int /\ mutex \in BOOLEAN /\ badAnswers \in 0 .. MaxTroubles
  BY CallerFacts
<1>1. \E status \in {"created", "rejected"} : Become(c, Ended(caller[c], status))
  BY DEF Send, Finish
<1>2. PICK status \in {"created", "rejected"} : Become(c, Ended(caller[c], status))
  BY <1>1
<1>3. Ended(caller[c], status) \in Caller /\ OwnToken(Ended(caller[c], status))
  BY <1>0, EndedType
<1> QED
  BY <1>0, <1>2, <1>3, CallerMoves DEF Send

\* The process ends and starts again: no handler runs and no token is known.
LEMMA MapRaceKeeps ==
  ASSUME GatewayInv, MapRace
  PROVE  GatewayInv'
<1>1. \A c \in Callers : caller'[c] = NoCall
  BY DEF MapRace
<1>2. OwnToken(NoCall)'
  BY DEF NoCall, OwnToken
<1>3. races' \in 0 .. MaxTroubles
  BY GatewayAssumption DEF MapRace, GatewayInv, GatewayTypeOK
<1>4. GatewayTypeOK'
  BY <1>3, NoCallType DEF MapRace, GatewayInv, GatewayTypeOK
<1>5. TokensInPlace'
  BY DEF MapRace, TokensInPlace
<1>6. \A c \in Callers : OwnToken(caller[c])'
  BY <1>1, <1>2
<1> QED
  BY <1>4, <1>5, <1>6 DEF GatewayInv

LEMMA TickKeeps ==
  ASSUME GatewayInv, Tick
  PROVE  GatewayInv'
<1>1. now \in Int /\ now' > now /\ now' \in 0 .. MaxTime
  BY GatewayAssumption DEF Tick, GatewayInv, GatewayTypeOK
<1>2. GatewayTypeOK' /\ TokensInPlace'
  BY <1>1 DEF Tick, GatewayInv, GatewayTypeOK, TokensInPlace
<1>3. now' >= now
  BY <1>1, GatewayAssumption
<1> QED
  BY <1>2, <1>3, CallerChange DEF Tick

LEMMA GatewayInvariant == GatewaySpec => []GatewayInv
<1>1. GatewayInit => GatewayInv
  <2> SUFFICES ASSUME GatewayInit
               PROVE  GatewayInv
    OBVIOUS
  <2>1. now \in 0 .. MaxTime /\ badAnswers \in 0 .. MaxTroubles /\ races \in 0 .. MaxTroubles
    BY GatewayAssumption DEF GatewayInit
  <2>2. TokensInPlace
    BY DEF GatewayInit, TokensInPlace
  <2> QED
    BY <2>1, <2>2, NoCallType DEF GatewayInit, GatewayInv, GatewayTypeOK
<1>2. GatewayInv /\ [GatewayNext]_gatewayVars => GatewayInv'
  <2> SUFFICES ASSUME GatewayInv, [GatewayNext]_gatewayVars
               PROVE  GatewayInv'
    OBVIOUS
  <2>1. CASE UNCHANGED gatewayVars
    BY <2>1 DEF GatewayInv, GatewayTypeOK, TokensInPlace, OwnToken, Kept, gatewayVars
  <2>2. ASSUME NEW c \in Callers, CallerStep(c)
        PROVE  GatewayInv'
    <3>1. CASE SetToken(c)
      BY <3>1, SetTokenKeeps
    <3>2. CASE \E data \in {GetCardPayOrder(b, s, r) : b, s, r \in BOOLEAN} : Send(c, data)
      BY <3>2, SendKeeps
    <3> QED
      BY <2>2, <3>1, <3>2, GetTokenKeeps, RefreshKeeps, AuthKeeps, LockTokensKeeps,
         TakeTokenKeeps DEF CallerStep
  <2>3. ASSUME NEW c \in Callers, NEW t \in Terminals, CreatePayment(c, t)
        PROVE  GatewayInv'
    BY <2>3, CreatePaymentKeeps
  <2> QED
    BY <2>1, <2>2, <2>3, TickKeeps, MapRaceKeeps DEF GatewayNext
<1> QED
  BY <1>1, <1>2, PTL DEF GatewaySpec

-----------------------------------------------------------------------------

\* The clock, the cache, the mutex and every handler keep their types, for any number of
\* handlers and terminals and any lifetimes of tokens (cardpay.go, setToken).
THEOREM GatewayTypeCorrect == GatewaySpec => []GatewayTypeOK
<1>1. GatewayInv => GatewayTypeOK
  BY DEF GatewayInv
<1> QED
  BY <1>1, GatewayInvariant, PTL

\* However handlers that overlap replace the tokens of a terminal, and whatever lifetimes
\* the gateway gives them, each handler sends its own terminal's, whose time had not run out
\* when the handler found or stored one for auth (getToken, getRequestWithAuth).
THEOREM TokensAreTheirOwn == GatewaySpec => []RequestHasItsToken
<1>1. GatewayInv => RequestHasItsToken
  BY DEF GatewayInv, OwnToken, Ends, RequestHasItsToken
<1> QED
  BY <1>1, GatewayInvariant, PTL

\* The panic on the second, nil token comes only when the clock has moved since the handler
\* found or stored a token for auth, or when the token then in the cache has no lifetime
\* (getRequestWithAuth): refused or unreadable answers alone do not cause it.
THEOREM PanicsAreLate == GatewaySpec => []PanicNeedsExpiry
<1>1. GatewayInv => PanicNeedsExpiry
  BY DEF GatewayInv, OwnToken, PanicNeedsExpiry
<1> QED
  BY <1>1, GatewayInvariant, PTL

-----------------------------------------------------------------------------
(* Recurring payments.                                                     *)

HandlerType(q) == q \in HandlerDoc /\ (q.pc # "idle" => q.id \in Subs)

SubTypeInv ==
    /\ subs \in [Subs -> SubDoc]
    /\ remote \in [Subs -> {"none", "active", "cancelled"}]
    /\ charges \in [Subs -> Seq(Verdicts)]
    /\ \A s \in Subs : Len(charges[s]) <= MaxCharges
    /\ parent \in [Subs -> ParentDoc]
    /\ copies \in [Subs -> Nat]
    /\ savedCards \subseteq Cards
    /\ h = [p \in Handlers |-> h[p]]
    /\ \A p \in Handlers : HandlerType(h[p])
    /\ subFailures \in 0 .. MaxSubFailures

\* A step of the handler p that leaves it in the state q.
Handler(p, q) == h' = [h EXCEPT ![p] = q]

LEMMA NoRequestIs ==
    /\ HandlerType(NoRequest) /\ NoRequest.pc = "idle" /\ NoRequest.id = Nobody
    /\ NoDoc \in SubDoc /\ NoRequest.doc = NoDoc /\ NoDoc.stored = "no"
BY DEF NoRequest, HandlerType, HandlerDoc, NoDoc, SubDoc, Verdicts

LEMMA HandlerTyped ==
    ASSUME SubTypeInv, NEW p \in Handlers, NEW q, HandlerType(q), Handler(p, q)
    PROVE  /\ h' = [o \in Handlers |-> h'[o]] /\ \A o \in Handlers : HandlerType(h'[o])
           /\ h'[p] = q /\ \A o \in Handlers : o # p => h'[o] = h[o]
<1>1. /\ h' = [o \in Handlers |-> h'[o]]
      /\ h'[p] = q /\ \A o \in Handlers : o # p => h'[o] = h[o]
  BY DEF SubTypeInv, Handler
<1>2. \A o \in Handlers : HandlerType(h'[o])
  BY <1>1 DEF SubTypeInv
<1> QED BY <1>1, <1>2

\* What a handler that goes on is.
LEMMA HandlerIs ==
    ASSUME SubTypeInv, NEW p \in Handlers, h[p].pc # "idle"
    PROVE  h[p] \in HandlerDoc /\ h[p].doc \in SubDoc /\ h[p].id \in Subs
BY DEF SubTypeInv, HandlerType, HandlerDoc

LEMMA AddSubscriptionIs ==
    ASSUME SubTypeInv, NEW p \in Handlers, NEW s \in Subs, AddSubscription(p, s)
    PROVE  \E q : /\ Handler(p, q) /\ HandlerType(q) /\ q.pc = "plan" /\ q.id = s
                  /\ q.doc \in SubDoc
                  /\ q.doc.stored = "yes" /\ subs' = [subs EXCEPT ![s] = q.doc]
                  /\ q.doc.linked = subs[s].linked
<1>1. PICK doc : doc = [subs[s] EXCEPT !.stored = "yes"]
  OBVIOUS
<1>2. subs[s] \in SubDoc
  BY DEF SubTypeInv
<1>3. doc \in SubDoc /\ doc.stored = "yes" /\ doc.linked = subs[s].linked
  BY <1>1, <1>2 DEF SubDoc
<1>4. subs' = [subs EXCEPT ![s] = doc]
  BY <1>1 DEF AddSubscription
<1>5. subs'[s] = doc
  BY <1>4 DEF SubTypeInv
<1>6. PICK z : z = NoRequest
  OBVIOUS
<1>7. PICK q : q = [z EXCEPT !.pc = "plan", !.id = s, !.doc = doc]
  OBVIOUS
<1>8. z \in HandlerDoc
  BY <1>6, NoRequestIs DEF HandlerType
<1>9. HandlerType(q) /\ q.pc = "plan" /\ q.id = s /\ q.doc = doc
  BY <1>3, <1>7, <1>8 DEF HandlerType, HandlerDoc
<1>10. Handler(p, q)
  BY <1>5, <1>6, <1>7 DEF AddSubscription, Handler
<1> HIDE <1>1, <1>5, <1>6, <1>7
<1> QED BY <1>3, <1>4, <1>9, <1>10

LEMMA CreateSubscriptionIs ==
    ASSUME SubTypeInv, NEW p \in Handlers, CreateRecurringSubscription(p)
    PROVE  \E q : /\ Handler(p, q) /\ HandlerType(q) /\ q.pc = "store" /\ q.id = h[p].id
                  /\ q.doc.stored = h[p].doc.stored /\ q.doc.linked
<1>1. PICK doc : doc = [h[p].doc EXCEPT !.linked = TRUE]
  OBVIOUS
<1>2. PICK q : q = [h[p] EXCEPT !.pc = "store", !.doc = doc]
  OBVIOUS
<1>3. h[p] \in HandlerDoc /\ h[p].doc \in SubDoc /\ h[p].id \in Subs
  BY DEF SubTypeInv, HandlerType, HandlerDoc, CreateRecurringSubscription
<1>4. doc \in SubDoc /\ doc.stored = h[p].doc.stored /\ doc.linked
  BY <1>1, <1>3 DEF SubDoc
<1>5. HandlerType(q) /\ q.pc = "store" /\ q.id = h[p].id /\ q.doc = doc
  BY <1>2, <1>3, <1>4 DEF HandlerType, HandlerDoc
<1>6. Handler(p, q)
  BY <1>1, <1>2, <1>3 DEF CreateRecurringSubscription, Handler, HandlerDoc
<1> QED BY <1>4, <1>5, <1>6

LEMMA StoreSubscriptionIs ==
    ASSUME SubTypeInv, NEW p \in Handlers, StoreSubscription(p)
    PROVE  \E q : /\ Handler(p, q) /\ HandlerType(q)
                  /\ \/ q = NoRequest /\ UNCHANGED subs
                     \/ /\ q.pc = "order" /\ q.id = h[p].id /\ q.doc = h[p].doc
                        /\ subs' = [subs EXCEPT ![h[p].id] = h[p].doc]
<1>1. CASE subs[h[p].id].stored = "yes"
  <2>1. PICK q : q = [h[p] EXCEPT !.pc = "order"]
    OBVIOUS
  <2>2. HandlerType(q) /\ q.pc = "order" /\ q.id = h[p].id /\ q.doc = h[p].doc
    BY <2>1, HandlerIs DEF StoreSubscription, HandlerType, HandlerDoc
  <2>3. Handler(p, q) /\ subs' = [subs EXCEPT ![h[p].id] = h[p].doc]
    BY <1>1, <2>1 DEF StoreSubscription, Handler
  <2> QED BY <2>2, <2>3
<1>2. CASE subs[h[p].id].stored # "yes"
  BY <1>2, NoRequestIs DEF StoreSubscription, Handler, Answer
<1> QED BY <1>1, <1>2

LEMMA PaymentCallbackIs ==
    ASSUME SubTypeInv, NEW p \in Handlers, NEW s \in Subs, NEW v \in Verdicts,
           PaymentCallback(p, s, v)
    PROVE  \E q : Handler(p, q) /\ HandlerType(q) /\ q.pc = "get" /\ q.id = s
<1>1. PICK z : z = NoRequest
  OBVIOUS
<1>2. PICK q : q = [z EXCEPT !.pc = "get", !.id = s, !.verdict = v]
  OBVIOUS
<1>3. z \in HandlerDoc
  BY <1>1, NoRequestIs DEF HandlerType
<1>4. HandlerType(q) /\ q.pc = "get" /\ q.id = s
  BY <1>2, <1>3 DEF HandlerType, HandlerDoc
<1> QED BY <1>1, <1>2, <1>4 DEF PaymentCallback, Handler

LEMMA GetSubscriptionIs ==
    ASSUME SubTypeInv, NEW p \in Handlers, GetSubscription(p)
    PROVE  \E q : /\ Handler(p, q) /\ HandlerType(q)
                  /\ \/ q = NoRequest
                     \/ /\ subs[h[p].id].stored = "yes" /\ q.doc = subs[h[p].id]
                        /\ q.pc \in {"copy", "replace"} /\ q.id = h[p].id
<1>1. CASE subs[h[p].id].stored # "yes"
  BY <1>1, NoRequestIs DEF GetSubscription, Handler, Answer
<1>2. CASE subs[h[p].id].stored = "yes"
  <2>0. PICK pc \in {"copy", "replace"} :
           h' = [h EXCEPT ![p].doc = subs[h[p].id], ![p].pc = pc]
    BY <1>2 DEF GetSubscription
  <2>1. PICK q : q = [h[p] EXCEPT !.doc = subs[h[p].id], !.pc = pc] /\ Handler(p, q)
    BY <2>0 DEF Handler, SubTypeInv
  <2>2. h[p] \in HandlerDoc /\ h[p].id \in Subs /\ subs[h[p].id] \in SubDoc
    BY DEF SubTypeInv, HandlerType, GetSubscription
  <2>3. HandlerType(q) /\ q.doc = subs[h[p].id] /\ q.pc = pc /\ q.id = h[p].id
    BY <2>1, <2>2 DEF HandlerType, HandlerDoc
  <2> QED BY <1>2, <2>1, <2>3
<1> QED BY <1>1, <1>2

LEMMA CopyOrderIs ==
    ASSUME SubTypeInv, NEW p \in Handlers, CopyOrder(p)
    PROVE  \E q : /\ Handler(p, q) /\ HandlerType(q) /\ q.pc = "replace" /\ q.id = h[p].id
                  /\ q.doc = h[p].doc
<1>1. PICK q : q = [h[p] EXCEPT !.pc = "replace", !.copied = TRUE]
  OBVIOUS
<1>2. h[p] \in HandlerDoc /\ h[p].id \in Subs
  BY DEF SubTypeInv, HandlerType, CopyOrder
<1>3. HandlerType(q) /\ q.pc = "replace" /\ q.id = h[p].id /\ q.doc = h[p].doc
  BY <1>1, <1>2 DEF HandlerType, HandlerDoc
<1>4. Handler(p, q)
  BY <1>1 DEF CopyOrder, Handler
<1> QED BY <1>3, <1>4

LEMMA ReplaceOrderIs ==
    ASSUME SubTypeInv, NEW p \in Handlers, ReplaceOrder(p)
    PROVE  /\ \E q : /\ Handler(p, q) /\ HandlerType(q) /\ q.pc \in {"count", "stop"}
                     /\ q.id = h[p].id /\ q.doc = h[p].doc
           /\ \/ UNCHANGED parent
              \/ parent' = [parent EXCEPT ![h[p].id].status = h[p].verdict]
           /\ copies' \in [Subs -> Nat]
<1>1. PICK pc \in {"count", "stop"} : h' = [h EXCEPT ![p].pc = pc]
  BY DEF ReplaceOrder
<1>2. PICK q : q = [h[p] EXCEPT !.pc = pc]
  OBVIOUS
<1>4. HandlerType(q) /\ q.pc = pc /\ q.id = h[p].id /\ q.doc = h[p].doc
  BY <1>2, HandlerIs DEF ReplaceOrder, HandlerType, HandlerDoc
<1>5. Handler(p, q)
  BY <1>1, <1>2 DEF Handler
<1>3. copies' \in [Subs -> Nat]
  BY DEF ReplaceOrder, SubTypeInv, HandlerType
<1> QED BY <1>3, <1>4, <1>5 DEF ReplaceOrder

\* The count of a payment is written over what the handler read.
LEMMA CountPaymentIs ==
    ASSUME SubTypeInv, NEW p \in Handlers, CountPayment(p)
    PROVE  /\ Handler(p, NoRequest)
           /\ \/ UNCHANGED subs
              \/ \E d \in SubDoc : /\ subs' = [subs EXCEPT ![h[p].id] = d]
                                   /\ subs[h[p].id].stored = "yes"
                                   /\ d.stored = h[p].doc.stored /\ d.linked = h[p].doc.linked
                                   /\ d.total = h[p].doc.total + 1
<1>1. PICK s : s = h[p].id
  OBVIOUS
<1>2. PICK total : total = h[p].doc.total + 1
  OBVIOUS
<1>d. PICK d : d = [h[p].doc EXCEPT !.active = TRUE, !.paidBefore = TRUE, !.total = total]
  OBVIOUS
<1>3. h[p].doc \in SubDoc /\ s \in Subs
  BY <1>1, HandlerIs DEF CountPayment
<1>n. total \in Int
  BY <1>2, <1>3 DEF SubDoc
<1>4. /\ d \in SubDoc /\ d.stored = h[p].doc.stored /\ d.linked = h[p].doc.linked
      /\ d.total = h[p].doc.total + 1
  <2>1. d \in SubDoc
    BY <1>d, <1>3, <1>n DEF SubDoc
  <2>2. d.stored = h[p].doc.stored
    BY <1>d, <1>3 DEF SubDoc
  <2>3. d.linked = h[p].doc.linked
    BY <1>d, <1>3 DEF SubDoc
  <2>4. d.total = total
    BY <1>d, <1>3 DEF SubDoc
  <2> QED BY <1>2, <2>1, <2>2, <2>3, <2>4
<1>5. Handler(p, NoRequest)
  BY DEF CountPayment, Handler, Answer
<1>6. subs' = [subs EXCEPT ![s] = IF subs[s].stored = "yes" THEN d ELSE subs[s]]
  BY <1>1, <1>2, <1>d DEF CountPayment
<1>7. subs = [z \in Subs |-> subs[z]]
  BY DEF SubTypeInv
<1>8. subs[s].stored # "yes" => subs' = subs
  BY <1>3, <1>6, <1>7
<1> QED BY <1>1, <1>4, <1>5, <1>6, <1>8

LEMMA DeleteRequestIs ==
    ASSUME SubTypeInv, NEW p \in Handlers, NEW s \in Subs, NEW cookie, NEW merchant,
           DeleteRecurringSubscription(p, s, cookie, merchant)
    PROVE  \E q : /\ Handler(p, q) /\ HandlerType(q) /\ q.pc = "cancel" /\ q.id = s
                  /\ q.doc = subs[s]
<1>1. subs[s] \in SubDoc
  BY DEF SubTypeInv
<1>2. PICK z : z = NoRequest
  OBVIOUS
<1>3. PICK q : q = [z EXCEPT !.pc = "cancel", !.id = s, !.doc = subs[s]]
  OBVIOUS
<1>4. z \in HandlerDoc
  BY <1>2, NoRequestIs DEF HandlerType
<1>5. HandlerType(q) /\ q.pc = "cancel" /\ q.id = s /\ q.doc = subs[s]
  BY <1>1, <1>3, <1>4 DEF HandlerType, HandlerDoc
<1> QED BY <1>2, <1>3, <1>5 DEF DeleteRecurringSubscription, Handler

LEMMA CancelIs ==
    ASSUME SubTypeInv, NEW s \in Subs, NEW doc, UpdateRecurringSubscription(s, doc)
    PROVE  /\ remote' \in [Subs -> {"none", "active", "cancelled"}]
           /\ \A z \in Subs : remote'[z] = "active" => remote[z] = "active"
           /\ doc.linked => remote'[s] # "active"
BY DEF UpdateRecurringSubscription, SubTypeInv

LEMMA StopIs ==
    ASSUME SubTypeInv, NEW p \in Handlers, StopAfterFailedCharge(p) \/ CancelAtGateway(p)
    PROVE  /\ h[p].id \in Subs /\ UpdateRecurringSubscription(h[p].id, h[p].doc)
           /\ \E q : /\ Handler(p, q) /\ HandlerType(q)
                     /\ h[p].pc = "stop" => q = NoRequest
                     /\ h[p].pc = "cancel" => /\ q.pc = "delete" /\ q.id = h[p].id
                                              /\ q.doc = h[p].doc
<1>1. h[p].id \in Subs /\ UpdateRecurringSubscription(h[p].id, h[p].doc)
  BY DEF SubTypeInv, HandlerType, StopAfterFailedCharge, CancelAtGateway
<1>2. CASE StopAfterFailedCharge(p)
  BY <1>1, <1>2, NoRequestIs DEF StopAfterFailedCharge, Handler, Answer
<1>3. CASE CancelAtGateway(p)
  <2>1. PICK q : q = [h[p] EXCEPT !.pc = "delete"]
    OBVIOUS
  <2>2. HandlerType(q) /\ q.pc = "delete" /\ q.id = h[p].id /\ q.doc = h[p].doc
    BY <1>3, <2>1, HandlerIs DEF CancelAtGateway, HandlerType, HandlerDoc
  <2>3. Handler(p, q) /\ h[p].pc = "cancel"
    BY <1>3, <2>1 DEF CancelAtGateway, Handler
  <2> QED BY <1>1, <2>2, <2>3
<1> QED BY <1>1, <1>2, <1>3

LEMMA DeleteIs ==
    ASSUME SubTypeInv, NEW p \in Handlers, DeleteSubscription(p)
    PROVE  /\ Handler(p, NoRequest) /\ h[p].id \in Subs
           /\ \E d \in SubDoc : /\ subs' = [subs EXCEPT ![h[p].id] = d]
                                /\ d.stored = "deleted" /\ d.linked = subs[h[p].id].linked
<1>1. h[p].id \in Subs /\ subs[h[p].id] \in SubDoc
  BY DEF SubTypeInv, HandlerType, DeleteSubscription
<1>2. PICK d : d = [subs[h[p].id] EXCEPT !.stored = "deleted"]
  OBVIOUS
<1>3. d \in SubDoc /\ d.stored = "deleted" /\ d.linked = subs[h[p].id].linked
  BY <1>1, <1>2 DEF SubDoc
<1> QED BY <1>1, <1>2, <1>3 DEF DeleteSubscription, Handler, Answer

\* A step of the handler p leaves every variable of its type.
LEMMA TypedAfter ==
    ASSUME SubTypeInv, NEW p \in Handlers, NEW q, HandlerType(q), Handler(p, q),
           subs' \in [Subs -> SubDoc], remote' \in [Subs -> {"none", "active", "cancelled"}],
           parent' \in [Subs -> ParentDoc], copies' \in [Subs -> Nat],
           UNCHANGED <<charges, savedCards>>, subFailures' \in 0 .. MaxSubFailures
    PROVE  SubTypeInv'
<1>1. h' = [o \in Handlers |-> h'[o]] /\ \A o \in Handlers : HandlerType(h'[o])
  BY HandlerTyped
<1>2. \A o \in Handlers : HandlerType(h[o])'
  BY <1>1 DEF HandlerType
<1> QED BY <1>1, <1>2 DEF SubTypeInv

LEMMA HandlerStepTyped ==
    ASSUME SubTypeInv, NEW p \in Handlers, HandlerStep(p)
    PROVE  SubTypeInv'
<1>0. /\ subs \in [Subs -> SubDoc] /\ remote \in [Subs -> {"none", "active", "cancelled"}]
      /\ parent \in [Subs -> ParentDoc] /\ copies \in [Subs -> Nat]
      /\ subFailures \in 0 .. MaxSubFailures
  BY DEF SubTypeInv
<1>1. CASE CreateRecurringPlan(p)
  <2>1. PICK q : q = [h[p] EXCEPT !.pc = "subscribe"]
    OBVIOUS
  <2>2. HandlerType(q)
    BY <1>1, <2>1, HandlerIs DEF CreateRecurringPlan, HandlerType, HandlerDoc
  <2>3. Handler(p, q)
    BY <1>1, <2>1 DEF CreateRecurringPlan, Handler
  <2> QED BY <1>0, <1>1, <2>2, <2>3, TypedAfter DEF CreateRecurringPlan
<1>2. CASE CreateRecurringSubscription(p)
  <2>1. PICK q : Handler(p, q) /\ HandlerType(q)
    BY <1>2, CreateSubscriptionIs
  <2>2. remote' \in [Subs -> {"none", "active", "cancelled"}]
    BY <1>0, <1>2 DEF CreateRecurringSubscription
  <2> QED BY <1>0, <1>2, <2>1, <2>2, TypedAfter DEF CreateRecurringSubscription
<1>3. CASE StoreSubscription(p)
  <2>1. PICK q : /\ Handler(p, q) /\ HandlerType(q)
                 /\ UNCHANGED subs \/ subs' = [subs EXCEPT ![h[p].id] = h[p].doc]
    BY <1>3, StoreSubscriptionIs
  <2>2. subs' \in [Subs -> SubDoc]
    BY <1>0, <1>3, <2>1, HandlerIs DEF StoreSubscription
  <2> QED BY <1>0, <1>3, <2>1, <2>2, TypedAfter DEF StoreSubscription
<1>4. CASE StoreOrder(p)
  <2>1. Handler(p, NoRequest)
    BY <1>4 DEF StoreOrder, Handler, Answer
  <2>2. [status |-> "InProgress", recurring |-> TRUE] \in ParentDoc
    BY DEF ParentDoc
  <2>3. parent' \in [Subs -> ParentDoc]
    BY <1>0, <1>4, <2>2 DEF StoreOrder
  <2> QED BY <1>0, <1>4, <2>1, <2>3, NoRequestIs, TypedAfter DEF StoreOrder
<1>5. CASE GetSubscription(p)
  <2>1. PICK q : Handler(p, q) /\ HandlerType(q)
    BY <1>5, GetSubscriptionIs
  <2> QED BY <1>0, <1>5, <2>1, TypedAfter DEF GetSubscription
<1>6. CASE CopyOrder(p)
  <2>1. PICK q : Handler(p, q) /\ HandlerType(q)
    BY <1>6, CopyOrderIs
  <2> QED BY <1>0, <1>6, <2>1, TypedAfter DEF CopyOrder
<1>7. CASE ReplaceOrder(p)
  <2>1. PICK q : Handler(p, q) /\ HandlerType(q)
    BY <1>7, ReplaceOrderIs
  <2>2. h[p].verdict \in Verdicts /\ h[p].id \in Subs
    BY <1>7, HandlerIs DEF ReplaceOrder, HandlerDoc
  <2>3. PICK doc : doc = [parent[h[p].id] EXCEPT !.status = h[p].verdict]
    OBVIOUS
  <2>4. doc \in ParentDoc
    BY <1>0, <2>2, <2>3 DEF ParentDoc, Verdicts
  <2>5. UNCHANGED parent \/ parent' = [parent EXCEPT ![h[p].id] = doc]
    BY <1>7, <2>3, ReplaceOrderIs
  <2>6. parent' \in [Subs -> ParentDoc] /\ copies' \in [Subs -> Nat]
    BY <1>0, <1>7, <2>4, <2>5, ReplaceOrderIs
  <2> QED BY <1>0, <1>7, <2>1, <2>6, TypedAfter DEF ReplaceOrder
<1>8. CASE CountPayment(p)
  <2>1. Handler(p, NoRequest) /\ subs' \in [Subs -> SubDoc]
    BY <1>0, <1>8, CountPaymentIs
  <2> QED BY <1>0, <1>8, <2>1, NoRequestIs, TypedAfter DEF CountPayment
<1>9. CASE StopAfterFailedCharge(p) \/ CancelAtGateway(p)
  <2>1. PICK q : Handler(p, q) /\ HandlerType(q)
    BY <1>9, StopIs
  <2>2. remote' \in [Subs -> {"none", "active", "cancelled"}]
    BY <1>9, StopIs, CancelIs
  <2> QED BY <1>0, <1>9, <2>1, <2>2, TypedAfter DEF StopAfterFailedCharge, CancelAtGateway
<1>10. CASE DeleteSubscription(p)
  <2>1. Handler(p, NoRequest) /\ subs' \in [Subs -> SubDoc]
    BY <1>0, <1>10, DeleteIs
  <2> QED BY <1>0, <1>10, <2>1, NoRequestIs, TypedAfter DEF DeleteSubscription
<1> QED
  BY <1>1, <1>2, <1>3, <1>4, <1>5, <1>6, <1>7, <1>8, <1>9, <1>10 DEF HandlerStep

LEMMA SubNextTyped ==
    ASSUME SubTypeInv, [SubNext]_subVars
    PROVE  SubTypeInv'
<1>0. /\ subs \in [Subs -> SubDoc] /\ remote \in [Subs -> {"none", "active", "cancelled"}]
      /\ parent \in [Subs -> ParentDoc] /\ copies \in [Subs -> Nat]
      /\ subFailures \in 0 .. MaxSubFailures
  BY DEF SubTypeInv
<1>1. ASSUME NEW p \in Handlers, FailRequest(p) PROVE SubTypeInv'
  <2>1. Handler(p, NoRequest)
    BY <1>1 DEF FailRequest, Handler, Answer
  <2>2. subFailures' \in 0 .. MaxSubFailures
    BY <1>0, <1>1, SubscriptionAssumption DEF FailRequest
  <2> QED BY <1>0, <1>1, <2>1, <2>2, NoRequestIs, TypedAfter DEF FailRequest
<1>2. ASSUME NEW p \in Handlers, NEW s \in Subs, AddSubscription(p, s) PROVE SubTypeInv'
  <2>1. PICK q : /\ Handler(p, q) /\ HandlerType(q) /\ q.doc \in SubDoc
                 /\ subs' = [subs EXCEPT ![s] = q.doc]
    BY <1>2, AddSubscriptionIs
  <2>2. subs' \in [Subs -> SubDoc]
    BY <1>0, <2>1
  <2> QED BY <1>0, <1>2, <2>1, <2>2, TypedAfter DEF AddSubscription
<1>3. ASSUME NEW s \in Subs, NEW v \in Verdicts, Charge(s, v) PROVE SubTypeInv'
  <2>1. charges[s] \in Seq(Verdicts) /\ Len(charges[s]) < MaxCharges
    BY <1>3 DEF Charge, SubTypeInv
  <2>2. PICK c : c = Append(charges[s], v)
    OBVIOUS
  <2>3. c \in Seq(Verdicts) /\ Len(c) <= MaxCharges
    BY <2>1, <2>2, SubscriptionAssumption, AppendProperties
  <2>4. charges' = [charges EXCEPT ![s] = c]
    BY <1>3, <2>2 DEF Charge
  <2>5. /\ charges' \in [Subs -> Seq(Verdicts)]
        /\ \A z \in Subs : Len(charges'[z]) <= MaxCharges
    BY <2>3, <2>4 DEF SubTypeInv
  <2> QED BY <1>3, <2>5 DEF Charge, SubTypeInv, HandlerType
<1>4. ASSUME NEW p \in Handlers, NEW s \in Subs, NEW v \in Verdicts, PaymentCallback(p, s, v)
      PROVE  SubTypeInv'
  <2>1. PICK q : Handler(p, q) /\ HandlerType(q)
    BY <1>4, PaymentCallbackIs
  <2> QED BY <1>0, <1>4, <2>1, TypedAfter DEF PaymentCallback
<1>5. ASSUME NEW p \in Handlers, NEW s \in Subs, NEW cookie, NEW merchant,
             DeleteRecurringSubscription(p, s, cookie, merchant)
      PROVE  SubTypeInv'
  <2>1. PICK q : Handler(p, q) /\ HandlerType(q)
    BY <1>5, DeleteRequestIs
  <2> QED BY <1>0, <1>5, <2>1, TypedAfter DEF DeleteRecurringSubscription
<1>6. ASSUME NEW card \in Cards, NEW customer, NEW virtual,
             DeleteSavedCard(card, customer, virtual)
      PROVE  SubTypeInv'
  BY <1>6 DEF DeleteSavedCard, SubTypeInv, HandlerType
<1>7. CASE UNCHANGED subVars
  BY <1>7 DEF subVars, SubTypeInv, HandlerType
<1> QED BY <1>1, <1>2, <1>3, <1>4, <1>5, <1>6, <1>7, HandlerStepTyped DEF SubNext

LEMMA SubInitTyped == SubInit => SubTypeInv
<1> SUFFICES ASSUME SubInit PROVE SubTypeInv
  OBVIOUS
<1>1. PICK e \in Seq(Verdicts) : e = <<>>
  BY EmptySeq
<1>2. Len(e) <= MaxCharges
  BY <1>1, EmptySeq, SubscriptionAssumption
<1>3. [status |-> "New", recurring |-> FALSE] \in ParentDoc
  BY DEF ParentDoc
<1>4. charges \in [Subs -> Seq(Verdicts)] /\ \A s \in Subs : Len(charges[s]) <= MaxCharges
  BY <1>1, <1>2 DEF SubInit
<1>5. /\ subs \in [Subs -> SubDoc] /\ parent \in [Subs -> ParentDoc]
      /\ h = [p \in Handlers |-> h[p]] /\ \A p \in Handlers : HandlerType(h[p])
  BY <1>3, NoRequestIs DEF SubInit
<1> QED BY <1>4, <1>5, SubscriptionAssumption DEF SubInit, SubTypeInv

LEMMA SubTypeInvHolds == SubSpec => []SubTypeInv
<1>1. SubInit => SubTypeInv
  BY SubInitTyped
<1>2. SubTypeInv /\ [SubNext]_subVars => SubTypeInv'
  BY SubNextTyped
<1> QED BY <1>1, <1>2, PTL DEF SubSpec

\* Subscriptions, orders and handlers keep their types and the charges their bound, for any
\* number of handlers and subscriptions (recurring.go and the callbacks of order.go).
THEOREM SubTypeCorrect == SubSpec => []SubTypeOK
<1>1. SubTypeInv => SubTypeOK
  BY DEF SubTypeInv, SubTypeOK, HandlerType
<1> QED BY <1>1, SubTypeInvHolds, PTL

-----------------------------------------------------------------------------
(* A subscription the gateway charges is in the lists of its customer and  *)
(* its merchant, unless it is deleted while it is being created. The       *)
(* handler that deletes it knows the gateway's id of it (linked), because  *)
(* the document had it before the order said there is one.                 *)

Creators == {h[o].id : o \in {u \in Handlers : h[u].pc \in Creating}}

Knows(q) ==
    /\ q.pc # "idle" => subs[q.id].stored # "no"
    /\ q.pc \in Creating => q.doc.stored = "yes"
    /\ q.pc \in {"store", "order"} => q.doc.linked
    /\ q.pc = "order" => subs[q.id].linked
    /\ q.pc \in {"get", "copy", "replace", "count", "stop"} => parent[q.id].recurring
    /\ q.pc \in {"copy", "replace", "count", "stop"} => q.doc.stored = "yes" /\ q.doc.linked
    /\ q.pc \in {"cancel", "delete"} => /\ q.id \notin Creators
                                        /\ parent[q.id].recurring => q.doc.linked
    /\ q.pc = "delete" /\ parent[q.id].recurring => remote[q.id] # "active"

Listed(s) ==
    /\ charges[s] # <<>> => parent[s].recurring
    /\ parent[s].recurring => subs[s].linked /\ subs[s].stored # "no"
    /\ subs[s].stored = "deleted" => /\ s \notin Creators
                                     /\ parent[s].recurring => remote[s] # "active"

ListedInv ==
    SubTypeInv /\ (\A o \in Handlers : Knows(h[o])) /\ \A s \in Subs : Listed(s)

\* How a step may change what handlers know: only a subscription that is being created becomes
\* active or recurring, and only one that is not stored yet begins to be created.
Evolves ==
    \A s \in Subs :
        /\ subs[s].stored # "no" => subs'[s].stored # "no"
        /\ subs[s].linked => subs'[s].linked
        /\ parent[s].recurring => parent'[s].recurring
        /\ parent'[s].recurring => parent[s].recurring \/ s \in Creators
        /\ remote'[s] = "active" => remote[s] = "active" \/ s \in Creators
        /\ s \in Creators' => s \in Creators \/ subs[s].stored = "no"

LEMMA KnowsStays ==
    ASSUME NEW q, HandlerType(q), Knows(q), Evolves
    PROVE  Knows(q)'
<1>1. q.pc # "idle" => q.id \in Subs
  BY DEF HandlerType
<1> HIDE DEF Creators
<1> QED BY <1>1 DEF Knows, Evolves, Creating

LEMMA ListedAfter ==
    ASSUME ListedInv, SubTypeInv', NEW p \in Handlers, NEW q, HandlerType(q), Handler(p, q),
           Knows(q)', Evolves, UNCHANGED charges,
           \A s \in Subs : parent'[s].recurring /\ ~parent[s].recurring =>
                              subs'[s].linked /\ subs'[s].stored # "no",
           \A s \in Subs : subs'[s].stored = "deleted" /\ subs[s].stored # "deleted" =>
                              /\ s \notin Creators'
                              /\ parent'[s].recurring => remote'[s] # "active"
    PROVE  ListedInv'
<1>1. h'[p] = q /\ \A o \in Handlers : o # p => h'[o] = h[o]
  BY HandlerTyped DEF ListedInv
<1>2. ASSUME NEW o \in Handlers PROVE Knows(h[o])'
  <2>1. CASE o = p
    BY <1>1, <2>1
  <2>2. CASE o # p
    <3>1. PICK z : z = h[o]
      OBVIOUS
    <3>2. Knows(z) /\ HandlerType(z)
      BY <3>1 DEF ListedInv, SubTypeInv
    <3>3. Knows(z)'
      BY <3>2, KnowsStays
    <3> QED BY <1>1, <2>2, <3>1, <3>3
  <2> QED BY <2>1, <2>2
<1>3. ASSUME NEW s \in Subs PROVE Listed(s)'
  BY DEF ListedInv, Listed, Evolves
<1> QED BY <1>2, <1>3 DEF ListedInv

\* A step of the handler p that creates nothing new.
LEMMA CreatorsStay ==
    ASSUME SubTypeInv, NEW p \in Handlers, NEW q, HandlerType(q), Handler(p, q),
           NEW s, s \in Creators'
    PROVE  s \in Creators \/ (q.pc \in Creating /\ s = q.id)
<1>1. h'[p] = q /\ \A o \in Handlers : o # p => h'[o] = h[o]
  BY HandlerTyped
<1>2. PICK o \in Handlers : h'[o].pc \in Creating /\ s = h'[o].id
  BY DEF Creators
<1> QED BY <1>1, <1>2 DEF Creators

LEMMA CreatesIs ==
    ASSUME NEW p \in Handlers, h[p].pc \in Creating
    PROVE  h[p].id \in Creators
BY DEF Creators

\* A handler that creates nothing leaves the subscription alone that it does not know.
LEMMA QuietStep ==
    ASSUME ListedInv, SubTypeInv', NEW p \in Handlers, NEW q, HandlerType(q), Handler(p, q),
           Knows(q)', q.pc \in Creating => h[p].pc \in Creating /\ q.id = h[p].id,
           UNCHANGED <<subs, charges>>,
           \A s \in Subs : parent'[s].recurring = parent[s].recurring,
           \A s \in Subs : remote'[s] = "active" => remote[s] = "active" \/ s \in Creators
    PROVE  ListedInv'
<1>1. \A s \in Creators' : s \in Creators
  BY CreatorsStay, CreatesIs DEF ListedInv
<1>2. Evolves
  BY <1>1 DEF Evolves
<1> QED BY <1>2, ListedAfter

LEMMA NoRequestKnows == Knows(NoRequest)'
BY NoRequestIs DEF Knows, Creating

LEMMA FailRequestLists ==
    ASSUME ListedInv, SubTypeInv', NEW p \in Handlers, FailRequest(p)
    PROVE  ListedInv'
<1>1. Handler(p, NoRequest) /\ NoRequest.pc \notin Creating
  BY NoRequestIs DEF FailRequest, Handler, Answer, Creating
<1> QED BY <1>1, NoRequestIs, NoRequestKnows, QuietStep DEF FailRequest

LEMMA AddSubscriptionLists ==
    ASSUME ListedInv, SubTypeInv', NEW p \in Handlers, NEW s \in Subs, AddSubscription(p, s)
    PROVE  ListedInv'
<1>1. PICK q : /\ Handler(p, q) /\ HandlerType(q) /\ q.pc = "plan" /\ q.id = s
               /\ q.doc \in SubDoc
               /\ q.doc.stored = "yes" /\ subs' = [subs EXCEPT ![s] = q.doc]
               /\ q.doc.linked = subs[s].linked
  BY AddSubscriptionIs DEF ListedInv
<1>2. subs[s].stored = "no" /\ UNCHANGED <<remote, charges, parent>>
  BY DEF AddSubscription
<1>3. \A z \in Subs : subs'[z] = IF z = s THEN q.doc ELSE subs[z]
  BY <1>1 DEF ListedInv, SubTypeInv
<1>4. \A z \in Creators' : z \in Creators \/ z = s
  BY <1>1, CreatorsStay DEF ListedInv
<1>5. Evolves
  BY <1>1, <1>2, <1>3, <1>4 DEF Evolves
<1>6. Knows(q)'
  BY <1>1, <1>3 DEF Knows, Creating
<1> QED BY <1>1, <1>2, <1>3, <1>5, <1>6, ListedAfter

LEMMA CreatePlanLists ==
    ASSUME ListedInv, SubTypeInv', NEW p \in Handlers, CreateRecurringPlan(p)
    PROVE  ListedInv'
<1>1. PICK q : q = [h[p] EXCEPT !.pc = "subscribe"]
  OBVIOUS
<1>2. /\ HandlerType(q) /\ q.pc = "subscribe" /\ q.id = h[p].id /\ q.doc = h[p].doc
      /\ h[p].pc = "plan"
  BY <1>1, HandlerIs DEF CreateRecurringPlan, HandlerType, HandlerDoc, ListedInv
<1>3. Handler(p, q) /\ UNCHANGED <<subs, remote, charges, parent>>
  BY <1>1 DEF CreateRecurringPlan, Handler
<1>4. Knows(q)'
  BY <1>2, <1>3 DEF Knows, Creating, ListedInv
<1> QED BY <1>2, <1>3, <1>4, QuietStep DEF Creating

LEMMA CreateSubscriptionLists ==
    ASSUME ListedInv, SubTypeInv', NEW p \in Handlers, CreateRecurringSubscription(p)
    PROVE  ListedInv'
<1>1. PICK q : /\ Handler(p, q) /\ HandlerType(q) /\ q.pc = "store" /\ q.id = h[p].id
               /\ q.doc.stored = h[p].doc.stored /\ q.doc.linked
  BY CreateSubscriptionIs DEF ListedInv
<1>2. h[p].pc = "subscribe" /\ UNCHANGED <<subs, charges, parent>>
  BY DEF CreateRecurringSubscription
<1>3. h[p].id \in Creators
  BY <1>2, CreatesIs DEF Creating
<1>4. \A s \in Subs : remote'[s] = "active" => remote[s] = "active" \/ s \in Creators
  BY <1>3 DEF CreateRecurringSubscription, ListedInv, SubTypeInv
<1>5. Knows(q)'
  BY <1>1, <1>2 DEF Knows, Creating, ListedInv
<1> QED BY <1>1, <1>2, <1>4, <1>5, QuietStep DEF Creating

LEMMA StoreSubscriptionLists ==
    ASSUME ListedInv, SubTypeInv', NEW p \in Handlers, StoreSubscription(p)
    PROVE  ListedInv'
<1>1. PICK q : /\ Handler(p, q) /\ HandlerType(q)
               /\ \/ q = NoRequest /\ UNCHANGED subs
                  \/ /\ q.pc = "order" /\ q.id = h[p].id /\ q.doc = h[p].doc
                     /\ subs' = [subs EXCEPT ![h[p].id] = h[p].doc]
  BY StoreSubscriptionIs DEF ListedInv
<1>2. h[p].pc = "store" /\ UNCHANGED <<remote, charges, parent>>
  BY DEF StoreSubscription
<1>3. CASE q = NoRequest /\ UNCHANGED subs
  <2>1. q.pc \notin Creating
    BY <1>3, NoRequestIs DEF Creating
  <2> QED BY <1>1, <1>2, <1>3, <2>1, NoRequestKnows, QuietStep
<1>4. CASE /\ q.pc = "order" /\ q.id = h[p].id /\ q.doc = h[p].doc
           /\ subs' = [subs EXCEPT ![h[p].id] = h[p].doc]
  <2>1. /\ h[p].id \in Subs /\ h[p].id \in Creators
        /\ h[p].doc.stored = "yes" /\ h[p].doc.linked
    BY <1>2, HandlerIs, CreatesIs DEF ListedInv, Knows, Creating
  <2>2. \A s \in Subs : subs'[s] = IF s = q.id THEN q.doc ELSE subs[s]
    BY <1>4, <2>1 DEF ListedInv, SubTypeInv
  <2>3. \A s \in Creators' : s \in Creators
    BY <1>1, <1>4, <2>1, CreatorsStay DEF ListedInv
  <2>4. Evolves
    BY <1>2, <1>4, <2>1, <2>2, <2>3 DEF Evolves
  <2>5. Knows(q)'
    BY <1>4, <2>1, <2>2 DEF Knows, Creating
  <2> QED BY <1>1, <1>2, <1>4, <2>1, <2>2, <2>4, <2>5, ListedAfter
<1> QED BY <1>1, <1>3, <1>4

LEMMA StoreOrderLists ==
    ASSUME ListedInv, SubTypeInv', NEW p \in Handlers, StoreOrder(p)
    PROVE  ListedInv'
<1>1. /\ Handler(p, NoRequest) /\ NoRequest.pc \notin Creating
      /\ h[p].pc = "order" /\ UNCHANGED <<subs, remote, charges>>
  BY NoRequestIs DEF StoreOrder, Handler, Answer, Creating
<1>2. /\ h[p].id \in Subs /\ h[p].id \in Creators
      /\ subs[h[p].id].linked /\ subs[h[p].id].stored # "no"
  BY <1>1, HandlerIs, CreatesIs DEF ListedInv, Knows, Creating
<1>3. \A s \in Subs : IF s = h[p].id THEN parent'[s].recurring ELSE parent'[s] = parent[s]
  BY <1>2 DEF StoreOrder, ListedInv, SubTypeInv
<1>4. \A s \in Creators' : s \in Creators
  BY <1>1, NoRequestIs, CreatorsStay DEF ListedInv
<1>5. Evolves
  BY <1>1, <1>2, <1>3, <1>4 DEF Evolves
<1> QED BY <1>1, <1>2, <1>3, <1>5, NoRequestIs, NoRequestKnows, ListedAfter

LEMMA ChargeLists ==
    ASSUME ListedInv, SubTypeInv', NEW s \in Subs, NEW v \in Verdicts, Charge(s, v)
    PROVE  ListedInv'
<1>1. /\ UNCHANGED <<subs, remote, parent, h>> /\ parent[s].recurring
      /\ \A z \in Subs : z # s => charges'[z] = charges[z]
  BY DEF Charge, ListedInv, SubTypeInv
<1>2. Creators' = Creators
  BY <1>1 DEF Creators
<1>3. ASSUME NEW z \in Subs PROVE Listed(z)'
  BY <1>1, <1>2 DEF ListedInv, Listed
<1>4. ASSUME NEW o \in Handlers PROVE Knows(h[o])'
  BY <1>1, <1>2 DEF ListedInv, Knows
<1> QED BY <1>3, <1>4 DEF ListedInv

LEMMA PaymentCallbackLists ==
    ASSUME ListedInv, SubTypeInv', NEW p \in Handlers, NEW s \in Subs, NEW v \in Verdicts,
           PaymentCallback(p, s, v)
    PROVE  ListedInv'
<1>1. PICK q : Handler(p, q) /\ HandlerType(q) /\ q.pc = "get" /\ q.id = s
  BY PaymentCallbackIs DEF ListedInv
<1>2. charges[s] # <<>> /\ UNCHANGED <<subs, remote, charges, parent>>
  BY DEF PaymentCallback
<1>3. Knows(q)'
  BY <1>1, <1>2 DEF Knows, Creating, ListedInv, Listed
<1> QED BY <1>1, <1>2, <1>3, QuietStep DEF Creating

LEMMA GetSubscriptionLists ==
    ASSUME ListedInv, SubTypeInv', NEW p \in Handlers, GetSubscription(p)
    PROVE  ListedInv'
<1>1. PICK q : /\ Handler(p, q) /\ HandlerType(q)
               /\ \/ q = NoRequest
                  \/ /\ subs[h[p].id].stored = "yes" /\ q.doc = subs[h[p].id]
                     /\ q.pc \in {"copy", "replace"} /\ q.id = h[p].id
  BY GetSubscriptionIs DEF ListedInv
<1>2. h[p].pc = "get" /\ UNCHANGED <<subs, remote, charges, parent>> /\ h[p].id \in Subs
  BY HandlerIs DEF GetSubscription, ListedInv
<1>3. Knows(q)'
  <2>1. CASE q = NoRequest
    BY <2>1, NoRequestKnows
  <2>2. CASE /\ subs[h[p].id].stored = "yes" /\ q.doc = subs[h[p].id]
             /\ q.pc \in {"copy", "replace"} /\ q.id = h[p].id
    BY <1>2, <2>2 DEF Knows, Creating, ListedInv, Listed
  <2> QED BY <1>1, <2>1, <2>2
<1>4. q.pc \notin Creating
  BY <1>1, NoRequestIs DEF Creating
<1> QED BY <1>1, <1>2, <1>3, <1>4, QuietStep

LEMMA CopyOrderLists ==
    ASSUME ListedInv, SubTypeInv', NEW p \in Handlers, CopyOrder(p)
    PROVE  ListedInv'
<1>1. PICK q : /\ Handler(p, q) /\ HandlerType(q) /\ q.pc = "replace" /\ q.id = h[p].id
               /\ q.doc = h[p].doc
  BY CopyOrderIs DEF ListedInv
<1>2. h[p].pc = "copy" /\ UNCHANGED <<subs, remote, charges, parent>>
  BY DEF CopyOrder
<1>3. Knows(q)'
  BY <1>1, <1>2 DEF Knows, Creating, ListedInv
<1> QED BY <1>1, <1>2, <1>3, QuietStep DEF Creating

LEMMA ReplaceOrderLists ==
    ASSUME ListedInv, SubTypeInv', NEW p \in Handlers, ReplaceOrder(p)
    PROVE  ListedInv'
<1>1. PICK q : /\ Handler(p, q) /\ HandlerType(q) /\ q.pc \in {"count", "stop"}
               /\ q.id = h[p].id /\ q.doc = h[p].doc
  BY ReplaceOrderIs DEF ListedInv
<1>2. h[p].pc = "replace" /\ UNCHANGED <<subs, remote, charges>> /\ h[p].id \in Subs
  BY HandlerIs DEF ReplaceOrder, ListedInv
<1>3. PICK doc : doc = [parent[h[p].id] EXCEPT !.status = h[p].verdict]
  OBVIOUS
<1>4. doc.recurring = parent[h[p].id].recurring
  BY <1>2, <1>3 DEF ListedInv, SubTypeInv, ParentDoc
<1>5. UNCHANGED parent \/ parent' = [parent EXCEPT ![h[p].id] = doc]
  BY <1>3, ReplaceOrderIs DEF ListedInv
<1>6. \A s \in Subs : parent'[s].recurring = parent[s].recurring
  BY <1>4, <1>5 DEF ListedInv, SubTypeInv
<1>7. Knows(q)'
  BY <1>1, <1>2, <1>6 DEF Knows, Creating, ListedInv
<1> QED BY <1>1, <1>2, <1>6, <1>7, QuietStep DEF Creating

LEMMA CountPaymentLists ==
    ASSUME ListedInv, SubTypeInv', NEW p \in Handlers, CountPayment(p)
    PROVE  ListedInv'
<1>1. /\ Handler(p, NoRequest) /\ NoRequest.pc \notin Creating
      /\ h[p].pc = "count" /\ UNCHANGED <<remote, charges, parent>> /\ h[p].id \in Subs
  BY HandlerIs, CountPaymentIs, NoRequestIs DEF CountPayment, ListedInv, Creating
<1>2. CASE UNCHANGED subs
  BY <1>1, <1>2, NoRequestIs, NoRequestKnows, QuietStep
<1>3. CASE subs' # subs
  <2>1. PICK d \in SubDoc : /\ subs' = [subs EXCEPT ![h[p].id] = d]
                            /\ subs[h[p].id].stored = "yes"
                            /\ d.stored = h[p].doc.stored /\ d.linked = h[p].doc.linked
    BY <1>3, CountPaymentIs DEF ListedInv
  <2>2. h[p].doc.stored = "yes" /\ h[p].doc.linked
    BY <1>1 DEF ListedInv, Knows
  <2>3. \A s \in Subs : subs'[s] = IF s = h[p].id THEN d ELSE subs[s]
    BY <1>1, <2>1 DEF ListedInv, SubTypeInv
  <2>4. \A s \in Creators' : s \in Creators
    BY <1>1, NoRequestIs, CreatorsStay DEF ListedInv
  <2>5. Evolves
    BY <1>1, <2>1, <2>2, <2>3, <2>4 DEF Evolves
  <2> QED BY <1>1, <2>1, <2>2, <2>3, <2>5, NoRequestIs, NoRequestKnows, ListedAfter
<1> QED BY <1>2, <1>3

LEMMA StopLists ==
    ASSUME ListedInv, SubTypeInv', NEW p \in Handlers,
           StopAfterFailedCharge(p) \/ CancelAtGateway(p)
    PROVE  ListedInv'
<1>1. PICK q : /\ Handler(p, q) /\ HandlerType(q)
               /\ h[p].pc = "stop" => q = NoRequest
               /\ h[p].pc = "cancel" => /\ q.pc = "delete" /\ q.id = h[p].id
                                        /\ q.doc = h[p].doc
  BY StopIs DEF ListedInv
<1>2. h[p].pc \in {"stop", "cancel"} /\ UNCHANGED <<subs, charges, parent>>
  BY DEF StopAfterFailedCharge, CancelAtGateway
<1>3. h[p].id \in Subs /\ UpdateRecurringSubscription(h[p].id, h[p].doc)
  BY StopIs DEF ListedInv
<1>4. /\ \A z \in Subs : remote'[z] = "active" => remote[z] = "active"
      /\ h[p].doc.linked => remote'[h[p].id] # "active"
  BY <1>3, CancelIs DEF ListedInv
<1>5. CASE h[p].pc = "stop"
  <2>1. q = NoRequest /\ q.pc \notin Creating
    BY <1>1, <1>5, NoRequestIs DEF Creating
  <2> QED BY <1>1, <1>2, <1>4, <2>1, NoRequestKnows, QuietStep
<1>6. CASE h[p].pc = "cancel"
  <2>1. q.pc \notin Creating
    BY <1>1, <1>6 DEF Creating
  <2>2. \A s \in Creators' : s \in Creators
    BY <1>1, <2>1, CreatorsStay DEF ListedInv
  <2>3. Knows(h[p])
    BY DEF ListedInv
  <2>4. /\ subs[q.id].stored # "no" /\ q.id \notin Creators
        /\ parent[q.id].recurring => q.doc.linked
    <3> HIDE DEF Creators
    <3> QED BY <1>1, <1>6, <2>3 DEF Knows
  <2>5. q.id \notin Creators'
    BY <2>2, <2>4
  <2>6. Knows(q)'
    <3> HIDE DEF Creators
    <3> QED BY <1>1, <1>2, <1>4, <1>6, <2>4, <2>5 DEF Knows, Creating
  <2> QED BY <1>1, <1>2, <1>4, <2>1, <2>6, QuietStep
<1> QED BY <1>2, <1>5, <1>6

LEMMA DeleteLists ==
    ASSUME ListedInv, SubTypeInv', NEW p \in Handlers, DeleteSubscription(p)
    PROVE  ListedInv'
<1>1. /\ Handler(p, NoRequest) /\ NoRequest.pc \notin Creating
      /\ h[p].pc = "delete" /\ UNCHANGED <<remote, charges, parent>> /\ h[p].id \in Subs
  BY DeleteIs, NoRequestIs DEF DeleteSubscription, ListedInv, Creating
<1>2. PICK d \in SubDoc : /\ subs' = [subs EXCEPT ![h[p].id] = d]
                          /\ d.stored = "deleted" /\ d.linked = subs[h[p].id].linked
  BY DeleteIs DEF ListedInv
<1>3. \A s \in Subs : subs'[s] = IF s = h[p].id THEN d ELSE subs[s]
  BY <1>1, <1>2 DEF ListedInv, SubTypeInv
<1>4. \A s \in Creators' : s \in Creators
  BY <1>1, NoRequestIs, CreatorsStay DEF ListedInv
<1>5. Evolves
  BY <1>1, <1>2, <1>3, <1>4 DEF Evolves
<1>6. /\ h[p].id \notin Creators
      /\ parent[h[p].id].recurring => remote[h[p].id] # "active"
  BY <1>1 DEF ListedInv, Knows
<1>7. \A s \in Subs : subs'[s].stored = "deleted" /\ subs[s].stored # "deleted" =>
                         /\ s \notin Creators'
                         /\ parent'[s].recurring => remote'[s] # "active"
  BY <1>1, <1>3, <1>4, <1>6
<1> QED BY <1>1, <1>5, <1>7, NoRequestIs, NoRequestKnows, ListedAfter

LEMMA DeleteRequestLists ==
    ASSUME EarlyDelete = FALSE, ListedInv, SubTypeInv', NEW p \in Handlers, NEW s \in Subs,
           NEW cookie, NEW merchant, DeleteRecurringSubscription(p, s, cookie, merchant)
    PROVE  ListedInv'
<1>1. PICK q : /\ Handler(p, q) /\ HandlerType(q) /\ q.pc = "cancel" /\ q.id = s
               /\ q.doc = subs[s]
  BY DeleteRequestIs DEF ListedInv
<1>2. subs[s].stored = "yes" /\ UNCHANGED <<subs, remote, charges, parent>>
  BY DEF DeleteRecurringSubscription
<1>3. s \notin Creators
  BY DEF DeleteRecurringSubscription, Creators
<1>4. q.pc \notin Creating
  BY <1>1 DEF Creating
<1>5. s \notin Creators'
  BY <1>1, <1>3, <1>4, CreatorsStay DEF ListedInv
<1>6. parent[s].recurring => subs[s].linked
  BY DEF ListedInv, Listed
<1>7. Knows(q)'
  <2> HIDE DEF Creators
  <2> QED BY <1>1, <1>2, <1>5, <1>6 DEF Knows, Creating
<1> QED BY <1>1, <1>2, <1>4, <1>7, QuietStep

LEMMA ListedInvHolds == ASSUME EarlyDelete = FALSE PROVE SubSpec => []ListedInv
<1>1. SubInit => ListedInv
  <2> SUFFICES ASSUME SubInit PROVE ListedInv
    OBVIOUS
  <2>1. SubTypeInv
    BY SubInitTyped
  <2>2. \A o \in Handlers : Knows(h[o])
    BY NoRequestIs DEF SubInit, Knows, Creating
  <2>3. \A s \in Subs : Listed(s)
    BY NoRequestIs DEF SubInit, Listed
  <2> QED BY <2>1, <2>2, <2>3 DEF ListedInv
<1>2. ListedInv /\ [SubNext]_subVars => ListedInv'
  <2> SUFFICES ASSUME ListedInv, [SubNext]_subVars PROVE ListedInv'
    OBVIOUS
  <2>0. SubTypeInv'
    BY SubNextTyped DEF ListedInv
  <2>1. ASSUME NEW p \in Handlers, HandlerStep(p) PROVE ListedInv'
    BY <2>0, <2>1, CreatePlanLists, CreateSubscriptionLists, StoreSubscriptionLists,
       StoreOrderLists, GetSubscriptionLists, CopyOrderLists, ReplaceOrderLists,
       CountPaymentLists, StopLists, DeleteLists, Zenon DEF HandlerStep
  <2>2. ASSUME NEW p \in Handlers, FailRequest(p) PROVE ListedInv'
    BY <2>0, <2>2, FailRequestLists
  <2>3. ASSUME NEW p \in Handlers, NEW s \in Subs, AddSubscription(p, s) PROVE ListedInv'
    BY <2>0, <2>3, AddSubscriptionLists
  <2>4. ASSUME NEW s \in Subs, NEW v \in Verdicts, Charge(s, v) PROVE ListedInv'
    BY <2>0, <2>4, ChargeLists
  <2>5. ASSUME NEW p \in Handlers, NEW s \in Subs, NEW v \in Verdicts,
               PaymentCallback(p, s, v)
        PROVE  ListedInv'
    BY <2>0, <2>5, PaymentCallbackLists
  <2>6. ASSUME NEW p \in Handlers, NEW s \in Subs, NEW cookie, NEW merchant,
               DeleteRecurringSubscription(p, s, cookie, merchant)
        PROVE  ListedInv'
    BY <2>0, <2>6, DeleteRequestLists
  <2>7. CASE \/ UNCHANGED subVars
             \/ \E card \in Cards, customer, virtual \in Customers \cup {Nobody} :
                   DeleteSavedCard(card, customer, virtual)
    <3>1. UNCHANGED <<subs, remote, charges, parent, h>>
      BY <2>7 DEF subVars, DeleteSavedCard
    <3>2. Creators' = Creators
      BY <3>1 DEF Creators
    <3>3. ASSUME NEW o \in Handlers PROVE Knows(h[o])'
      BY <3>1, <3>2 DEF ListedInv, Knows
    <3>4. ASSUME NEW s \in Subs PROVE Listed(s)'
      BY <3>1, <3>2 DEF ListedInv, Listed
    <3> QED BY <2>0, <3>3, <3>4 DEF ListedInv
  <2> QED BY <2>1, <2>2, <2>3, <2>4, <2>5, <2>6, <2>7 DEF SubNext
<1> QED BY <1>1, <1>2, PTL DEF SubSpec

\* Whatever fails, and in whatever order callbacks, cancellations and deletions come, a
\* subscription the gateway charges is one its customer and its merchant find
\* (DeleteRecurringSubscription), if none is deleted while it is being created.
THEOREM ChargedAreListed == ASSUME EarlyDelete = FALSE PROVE SubSpec => []ChargedIsListed
<1>1. ListedInv => ChargedIsListed
  <2> SUFFICES ASSUME ListedInv, NEW s \in Subs, remote[s] = "active", parent[s].recurring
               PROVE  s \in FindSubscriptions(OwnerOf(s), MerchantOf(s))
    BY DEF ChargedIsListed
  <2>1. subs[s].stored \in {"no", "yes", "deleted"}
    BY DEF ListedInv, SubTypeInv, SubDoc
  <2>2. subs[s].stored = "yes"
    BY <2>1 DEF ListedInv, Listed
  <2>3. OwnerOf(s) # Nobody /\ MerchantOf(s) # Nobody
    BY SubscriptionAssumption
  <2> QED BY <2>2, <2>3 DEF FindSubscriptions
<1> QED BY <1>1, ListedInvHolds, PTL

-----------------------------------------------------------------------------
(* What a subscription says was paid is what its orders say, with two      *)
(* requests at the same time. Callbacks are taken while the order waits    *)
(* for its payment, so all of them are about the first charge; the first   *)
(* that is counted was read before any was, and the other may have been    *)
(* read before or after that.                                              *)

Paying == {"get", "copy", "replace", "count", "stop"}

Pays(q, s) == q.pc \in Paying /\ q.id = s
Creates(q, s) == q.pc \in Creating /\ q.id = s

Total(doc, n) == doc.total = n /\ (doc.paidBefore <=> n > 0)

\* A callback that has not read the subscription; one that read it before a payment was
\* counted and pays the order; and one that read it after and pays a copy.
Asks(q) == q.pc = "get" /\ ~q.copied
PaysOrder(q) == q.pc \in {"replace", "count"} /\ ~q.copied /\ q.doc.total = 0
PaysCopy(q) == (q.pc = "copy" \/ (q.pc = "replace" /\ q.copied)) /\ q.doc.total = 1
CopyPaid(q) == q.pc = "count" /\ q.doc.total = 1

\* All callbacks of a subscription are about its first charge.
FirstCharge(s) ==
    \A o \in Handlers : Pays(h[o], s) =>
        /\ charges[s] # <<>> /\ h[o].verdict = charges[s][1]
        /\ h[o].pc # "get" => h[o].doc.stored = "yes"

\* The order is made by one handler, and is not paid before.
New(s) ==
    /\ charges[s] = <<>> /\ ~parent[s].recurring /\ copies[s] = 0
    /\ \A o \in Handlers : Creates(h[o], s) =>
          subs[s].stored # "no" /\ h[o].doc.stored = "yes" /\ Total(h[o].doc, 0)
    /\ \A o, z \in Handlers : Creates(h[o], s) /\ Creates(h[z], s) => o = z
    /\ subs[s].stored \in {"no", "yes"} => Total(subs[s], 0)

Made(s) == subs[s].stored # "no" /\ \A o \in Handlers : ~Creates(h[o], s)

Waits(s) ==
    /\ Made(s) /\ Len(charges[s]) <= 1 /\ copies[s] = 0
    /\ subs[s].stored = "yes" => Total(subs[s], 0)
    /\ \A o \in Handlers : Pays(h[o], s) =>
          Asks(h[o]) \/ (h[o].pc = "replace" /\ PaysOrder(h[o]))

Failed(s) ==
    /\ Made(s) /\ charges[s] # <<>> /\ charges[s][1] = "Declined" /\ copies[s] = 0
    /\ subs[s].stored = "yes" => Total(subs[s], 0)
    /\ \A o \in Handlers : Pays(h[o], s) =>
          Asks(h[o]) \/ h[o].pc = "stop" \/ (h[o].pc = "replace" /\ ~h[o].copied)

\* Somebody has paid the order and not counted it; one is counted; the copy is paid but
\* not counted; both are counted.
Paid(s) ==
    /\ Total(subs[s], 0) /\ copies[s] = 0
    /\ \A o \in Handlers : Pays(h[o], s) => Asks(h[o]) \/ PaysOrder(h[o])
    /\ \E o \in Handlers : Pays(h[o], s) /\ h[o].pc = "count"
OnceCounted(s) ==
    /\ Total(subs[s], 1) /\ copies[s] = 0
    /\ \A o \in Handlers : Pays(h[o], s) => Asks(h[o]) \/ PaysOrder(h[o]) \/ PaysCopy(h[o])
    /\ \A o, z \in Handlers : Pays(h[o], s) /\ Pays(h[z], s) => o = z
CopyIsPaid(s) ==
    /\ Total(subs[s], 1) /\ copies[s] = 1
    /\ \E o \in Handlers : Pays(h[o], s) /\ CopyPaid(h[o])
    /\ \A o, z \in Handlers : Pays(h[o], s) /\ Pays(h[z], s) => o = z
TwiceCounted(s) ==
    /\ Total(subs[s], 2) /\ copies[s] = 1
    /\ \A o \in Handlers : ~Pays(h[o], s)

Succeeded(s) ==
    /\ Made(s) /\ charges[s] # <<>> /\ charges[s][1] = "Complete"
    /\ subs[s].stored = "yes" =>
          Paid(s) \/ OnceCounted(s) \/ CopyIsPaid(s) \/ TwiceCounted(s)

Counted(s) ==
    /\ FirstCharge(s)
    /\ parent[s].status = "New" => New(s)
    /\ parent[s].status = "InProgress" => Waits(s)
    /\ parent[s].status = "Declined" => Failed(s)
    /\ parent[s].status = "Complete" => Succeeded(s)

LEMMA CountedStays ==
    ASSUME NEW s \in Subs, Counted(s),
           subs'[s] = subs[s], parent'[s] = parent[s], charges'[s] = charges[s],
           copies'[s] = copies[s],
           \A o \in Handlers : \/ h'[o] = h[o]
                               \/ /\ ~Pays(h'[o], s) /\ ~Creates(h'[o], s)
                                  /\ ~(Pays(h[o], s) /\ h[o].pc = "count")
    PROVE  Counted(s)'
<1>1. FirstCharge(s)' BY DEF Counted, FirstCharge
<1>2. Made(s) => Made(s)' BY DEF Made
<1>3. New(s) => New(s)' BY DEF New
<1>4. Waits(s) => Waits(s)' BY <1>2 DEF Waits
<1>5. Failed(s) => Failed(s)' BY <1>2 DEF Failed
<1>6. Paid(s) => Paid(s)' BY DEF Paid
<1>7. OnceCounted(s) => OnceCounted(s)' BY DEF OnceCounted
<1>8. CopyIsPaid(s) => CopyIsPaid(s)' BY DEF CopyIsPaid, CopyPaid
<1>9. TwiceCounted(s) => TwiceCounted(s)' BY DEF TwiceCounted
<1>10. Succeeded(s) => Succeeded(s)'
  BY <1>2, <1>6, <1>7, <1>8, <1>9 DEF Succeeded
<1> QED BY <1>1, <1>3, <1>4, <1>5, <1>10 DEF Counted

CountAll == \A s \in Subs : Counted(s)

\* A step of a handler that is not about the subscription z, or leaves it alone and counts
\* nothing.
LEMMA LeftAlone ==
    ASSUME SubTypeInv, NEW p \in Handlers, NEW q, HandlerType(q), Handler(p, q),
           NEW z \in Subs, Counted(z),
           subs'[z] = subs[z], parent'[z] = parent[z], charges'[z] = charges[z],
           copies'[z] = copies[z],
           ~Pays(q, z), ~Creates(q, z), ~(Pays(h[p], z) /\ h[p].pc = "count")
    PROVE  Counted(z)'
<1>1. h'[p] = q /\ \A o \in Handlers : o # p => h'[o] = h[o] BY HandlerTyped
<1> QED BY <1>1, CountedStays

LEMMA IdleIs ==
    ASSUME NEW q, NEW s, q.pc \in {"idle", "cancel", "delete"}
    PROVE  ~Pays(q, s) /\ ~Creates(q, s)
BY DEF Pays, Creates, Paying, Creating

LEMMA ElseIs ==
    ASSUME NEW q, NEW s, q.id # s
    PROVE  ~Pays(q, s) /\ ~Creates(q, s)
BY DEF Pays, Creates

\* Who creates a subscription does so before its order is in progress, and nothing is paid.
LEMMA CreatorFacts ==
    ASSUME SubTypeInv, CountAll, NEW p \in Handlers, h[p].pc \in Creating
    PROVE  /\ h[p].id \in Subs /\ Creates(h[p], h[p].id) /\ ~Pays(h[p], h[p].id)
           /\ parent[h[p].id].status = "New" /\ New(h[p].id)
<1>1. h[p].id \in Subs BY HandlerIs DEF Creating
<1>2. Creates(h[p], h[p].id) /\ ~Pays(h[p], h[p].id) BY DEF Creates, Pays, Paying, Creating
<1>3. parent[h[p].id].status \in {"New", "InProgress", "Complete", "Declined"}
  BY <1>1 DEF SubTypeInv, ParentDoc
<1>4. ~Made(h[p].id) BY <1>2 DEF Made
<1>5. parent[h[p].id].status = "New"
  BY <1>1, <1>3, <1>4 DEF CountAll, Counted, Waits, Failed, Succeeded
<1> QED BY <1>1, <1>2, <1>5 DEF CountAll, Counted

\* The creator goes on, with what it knows of the subscription.
LEMMA CreatorGoesOn ==
    ASSUME SubTypeInv, CountAll, NEW p \in Handlers, h[p].pc \in Creating,
           NEW q, HandlerType(q), Handler(p, q), q.pc \in Creating, q.id = h[p].id,
           q.doc.stored = h[p].doc.stored, q.doc.total = h[p].doc.total,
           q.doc.paidBefore = h[p].doc.paidBefore,
           \/ subs' = subs
           \/ subs' = [subs EXCEPT ![h[p].id] = h[p].doc],
           UNCHANGED <<charges, parent, copies>>
    PROVE  CountAll'
<1>0. PICK s : s = h[p].id OBVIOUS
<1>1. s \in Subs /\ Creates(h[p], s) /\ parent[s].status = "New" /\ New(s)
  BY <1>0, CreatorFacts
<1>2. h'[p] = q /\ \A o \in Handlers : o # p => h'[o] = h[o] BY HandlerTyped
<1>3. ~Pays(q, s) /\ Creates(q, s) BY <1>0 DEF Pays, Creates, Paying, Creating
<1>4. \A z \in Subs : z # s => subs'[z] = subs[z] BY <1>0, <1>1 DEF SubTypeInv
<1>5. subs'[s] = subs[s] \/ subs'[s] = h[p].doc BY <1>0, <1>1 DEF SubTypeInv
<1>6. h[p].doc.stored = "yes" /\ Total(h[p].doc, 0) /\ Total(q.doc, 0) BY <1>1 DEF New, Total
<1>7. ASSUME NEW z \in Subs, z # s PROVE Counted(z)'
  BY <1>0, <1>4, <1>7, ElseIs, LeftAlone DEF CountAll
<1>8. Counted(s)'
  <2>1. FirstCharge(s)' BY <1>1, <1>2, <1>3 DEF FirstCharge, CountAll, Counted
  <2>2. \A o \in Handlers : Creates(h'[o], s) => Creates(h[o], s) BY <1>1, <1>2
  <2>3. subs'[s].stored # "no" BY <1>1, <1>5, <1>6 DEF New
  <2>4. subs'[s].stored \in {"no", "yes"} => Total(subs'[s], 0) BY <1>1, <1>5, <1>6 DEF New
  <2>5. \A o \in Handlers : Creates(h'[o], s) => h'[o].doc.stored = "yes" /\ Total(h'[o].doc, 0)
    BY <1>1, <1>2, <1>6 DEF New
  <2>6. New(s)' BY <1>1, <2>2, <2>3, <2>4, <2>5 DEF New
  <2> QED BY <1>1, <2>1, <2>6 DEF Counted
<1> QED BY <1>7, <1>8 DEF CountAll

LEMMA AddSubscriptionCounts ==
    ASSUME SubTypeInv, CountAll, NEW p \in Handlers, NEW s \in Subs, AddSubscription(p, s)
    PROVE  CountAll'
<1>1. PICK q : /\ Handler(p, q) /\ HandlerType(q) /\ q.pc = "plan" /\ q.id = s
               /\ q.doc.stored = "yes" /\ subs' = [subs EXCEPT ![s] = q.doc]
               /\ q.doc.total = subs[s].total /\ q.doc.paidBefore = subs[s].paidBefore
  <2>1. PICK q : /\ Handler(p, q) /\ HandlerType(q) /\ q.pc = "plan" /\ q.id = s
                 /\ q.doc.stored = "yes" /\ subs' = [subs EXCEPT ![s] = q.doc]
    BY AddSubscriptionIs
  <2>2. PICK doc : doc = [subs[s] EXCEPT !.stored = "yes"] OBVIOUS
  <2>3. subs[s] \in SubDoc BY DEF SubTypeInv
  <2>4. doc.total = subs[s].total BY <2>2, <2>3 DEF SubDoc
  <2>5. doc.paidBefore = subs[s].paidBefore BY <2>2, <2>3 DEF SubDoc
  <2>6. subs' = [subs EXCEPT ![s] = doc] BY <2>2 DEF AddSubscription
  <2>7. q.doc = doc BY <2>1, <2>6 DEF SubTypeInv
  <2> QED BY <2>1, <2>4, <2>5, <2>7
<1>2. /\ h[p].pc = "idle" /\ subs[s].stored = "no"
      /\ charges' = charges /\ parent' = parent /\ copies' = copies
  BY DEF AddSubscription
<1>3. h'[p] = q /\ \A o \in Handlers : o # p => h'[o] = h[o] BY <1>1, HandlerTyped
<1>4. \A z \in Subs : subs'[z] = IF z = s THEN q.doc ELSE subs[z] BY <1>1 DEF SubTypeInv
<1>5. parent[s].status = "New" /\ New(s)
  <2>1. parent[s].status \in {"New", "InProgress", "Complete", "Declined"}
    BY DEF SubTypeInv, ParentDoc
  <2> QED BY <1>2, <2>1 DEF CountAll, Counted, Waits, Failed, Succeeded, Made
<1>6. ASSUME NEW z \in Subs, z # s PROVE Counted(z)'
  BY <1>1, <1>2, <1>4, <1>6, ElseIs, IdleIs, LeftAlone DEF CountAll
<1>7. Counted(s)'
  <2>1. ~Pays(q, s) /\ Creates(q, s) /\ \A o \in Handlers : ~Creates(h[o], s)
    BY <1>1, <1>2, <1>5 DEF Pays, Creates, Paying, Creating, New
  <2>2. FirstCharge(s)' BY <1>2, <1>3, <2>1 DEF FirstCharge, CountAll, Counted
  <2>3. Total(q.doc, 0) BY <1>1, <1>2, <1>5 DEF New, Total
  <2>4. \A o \in Handlers : Creates(h'[o], s) => o = p BY <1>3, <2>1
  <2>5. New(s)' BY <1>1, <1>2, <1>3, <1>4, <1>5, <2>3, <2>4 DEF New
  <2> QED BY <1>2, <1>5, <2>2, <2>5 DEF Counted
<1> QED BY <1>6, <1>7 DEF CountAll

LEMMA CreatePlanCounts ==
    ASSUME SubTypeInv, CountAll, NEW p \in Handlers, CreateRecurringPlan(p)
    PROVE  CountAll'
<1>1. PICK q : q = [h[p] EXCEPT !.pc = "subscribe"] OBVIOUS
<1>2. /\ HandlerType(q) /\ q.pc = "subscribe" /\ q.id = h[p].id /\ q.doc = h[p].doc
      /\ h[p].pc = "plan"
  BY <1>1, HandlerIs DEF CreateRecurringPlan, HandlerType, HandlerDoc
<1>3. Handler(p, q) /\ UNCHANGED <<subs, charges, parent, copies>>
  BY <1>1 DEF CreateRecurringPlan, Handler
<1> QED BY <1>2, <1>3, CreatorGoesOn DEF Creating

LEMMA CreateSubscriptionCounts ==
    ASSUME SubTypeInv, CountAll, NEW p \in Handlers, CreateRecurringSubscription(p)
    PROVE  CountAll'
<1>1. PICK doc : doc = [h[p].doc EXCEPT !.linked = TRUE] OBVIOUS
<1>2. PICK q : q = [h[p] EXCEPT !.pc = "store", !.doc = doc] OBVIOUS
<1>3. h[p] \in HandlerDoc /\ h[p].doc \in SubDoc /\ h[p].id \in Subs /\ h[p].pc = "subscribe"
  BY HandlerIs DEF CreateRecurringSubscription
<1>4. doc \in SubDoc /\ doc.stored = h[p].doc.stored /\ doc.total = h[p].doc.total
  BY <1>1, <1>3 DEF SubDoc
<1>5. doc.paidBefore = h[p].doc.paidBefore BY <1>1, <1>3 DEF SubDoc
<1>6. HandlerType(q) /\ q.pc = "store" /\ q.id = h[p].id /\ q.doc = doc
  BY <1>2, <1>3, <1>4 DEF HandlerType, HandlerDoc
<1>7. Handler(p, q) /\ UNCHANGED <<subs, charges, parent, copies>>
  BY <1>1, <1>2, <1>3 DEF CreateRecurringSubscription, Handler, HandlerDoc
<1> QED BY <1>3, <1>4, <1>5, <1>6, <1>7, CreatorGoesOn DEF Creating

\* A step that answers, is not about a payment that is counted and changes nothing.
LEMMA AnswerCounts ==
    ASSUME SubTypeInv, CountAll, NEW p \in Handlers, Handler(p, NoRequest), h[p].pc # "count",
           UNCHANGED <<subs, charges, parent, copies>>
    PROVE  CountAll'
<1>1. \A z \in Subs : ~Pays(NoRequest, z) /\ ~Creates(NoRequest, z) BY IdleIs, NoRequestIs
<1> QED BY <1>1, NoRequestIs, LeftAlone DEF CountAll

LEMMA StoreSubscriptionCounts ==
    ASSUME SubTypeInv, CountAll, NEW p \in Handlers, StoreSubscription(p)
    PROVE  CountAll'
<1>1. PICK q : /\ Handler(p, q) /\ HandlerType(q)
               /\ \/ q = NoRequest /\ UNCHANGED subs
                  \/ /\ q.pc = "order" /\ q.id = h[p].id /\ q.doc = h[p].doc
                     /\ subs' = [subs EXCEPT ![h[p].id] = h[p].doc]
  BY StoreSubscriptionIs
<1>2. h[p].pc = "store" /\ charges' = charges /\ parent' = parent /\ copies' = copies
  BY DEF StoreSubscription
<1>3. ASSUME q = NoRequest, subs' = subs PROVE CountAll' BY <1>1, <1>2, <1>3, AnswerCounts
<1>4. ASSUME q.pc = "order", q.id = h[p].id, q.doc = h[p].doc,
             subs' = [subs EXCEPT ![h[p].id] = h[p].doc]
      PROVE  CountAll'
  BY <1>1, <1>2, <1>4, CreatorGoesOn DEF Creating
<1> QED BY <1>1, <1>3, <1>4

LEMMA StoreOrderCounts ==
    ASSUME SubTypeInv, CountAll, NEW p \in Handlers, StoreOrder(p)
    PROVE  CountAll'
<1>0. PICK s : s = h[p].id OBVIOUS
<1>1. /\ Handler(p, NoRequest) /\ h[p].pc = "order"
      /\ subs' = subs /\ charges' = charges /\ copies' = copies
      /\ parent' = [parent EXCEPT ![s] = [status |-> "InProgress", recurring |-> TRUE]]
  BY <1>0 DEF StoreOrder, Handler, Answer
<1>2. s \in Subs /\ Creates(h[p], s) /\ New(s) BY <1>0, <1>1, CreatorFacts DEF Creating
<1>3. h'[p] = NoRequest /\ \A o \in Handlers : o # p => h'[o] = h[o]
  BY <1>1, HandlerTyped, NoRequestIs
<1>4. /\ parent'[s].status = "InProgress" /\ \A z \in Subs : z # s => parent'[z] = parent[z]
  BY <1>1, <1>2 DEF SubTypeInv
<1>5. \A z : ~Pays(NoRequest, z) /\ ~Creates(NoRequest, z) BY IdleIs, NoRequestIs
<1>6. ASSUME NEW z \in Subs, z # s PROVE Counted(z)'
  <2>1. ~Pays(h[p], z) BY <1>0, <1>6, ElseIs
  <2> QED BY <1>1, <1>4, <1>5, <1>6, <2>1, NoRequestIs, LeftAlone DEF CountAll
<1>7. Counted(s)'
  <2>1. \A o \in Handlers : ~Pays(h[o], s) BY <1>2 DEF New, FirstCharge, CountAll, Counted
  <2>2. \A o \in Handlers : ~Pays(h'[o], s) BY <1>3, <1>5, <2>1
  <2>3. \A o \in Handlers : ~Creates(h'[o], s) BY <1>2, <1>3, <1>5 DEF New
  <2>4. subs[s].stored # "no" BY <1>2 DEF New
  <2>5. Len(charges[s]) <= 1 BY <1>2 DEF New
  <2>6. Made(s)' BY <1>1, <2>3, <2>4 DEF Made
  <2>7. Waits(s)' BY <1>1, <1>2, <2>2, <2>5, <2>6 DEF Waits, New
  <2> QED BY <1>4, <2>2, <2>7 DEF Counted, FirstCharge
<1> QED BY <1>6, <1>7 DEF CountAll

\* A callback comes after the order was made.
LEMMA PayerFacts ==
    ASSUME SubTypeInv, CountAll, NEW p \in Handlers, h[p].pc \in Paying
    PROVE  /\ h[p].id \in Subs /\ Pays(h[p], h[p].id) /\ ~Creates(h[p], h[p].id)
           /\ charges[h[p].id] # <<>> /\ h[p].verdict = charges[h[p].id][1]
           /\ h[p].pc # "get" => h[p].doc.stored = "yes"
           /\ \/ parent[h[p].id].status = "InProgress" /\ Waits(h[p].id)
              \/ parent[h[p].id].status = "Declined" /\ Failed(h[p].id)
              \/ parent[h[p].id].status = "Complete" /\ Succeeded(h[p].id)
<1>1. h[p].id \in Subs BY HandlerIs DEF Paying
<1>2. Pays(h[p], h[p].id) /\ ~Creates(h[p], h[p].id) BY DEF Creates, Pays, Paying, Creating
<1>3. /\ charges[h[p].id] # <<>> /\ h[p].verdict = charges[h[p].id][1]
      /\ h[p].pc # "get" => h[p].doc.stored = "yes"
  BY <1>1, <1>2 DEF CountAll, Counted, FirstCharge
<1>4. parent[h[p].id].status \in {"New", "InProgress", "Complete", "Declined"}
  BY <1>1 DEF SubTypeInv, ParentDoc
<1>5. parent[h[p].id].status # "New"
  BY <1>1, <1>3 DEF CountAll, Counted, New
<1> QED BY <1>1, <1>2, <1>3, <1>4, <1>5 DEF CountAll, Counted

LEMMA ChargeCounts ==
    ASSUME SubTypeInv, CountAll, NEW s \in Subs, NEW v \in Verdicts, Charge(s, v)
    PROVE  CountAll'
<1>1. /\ subs' = subs /\ parent' = parent /\ copies' = copies /\ h' = h
      /\ charges' = [charges EXCEPT ![s] = Append(charges[s], v)]
      /\ parent[s].recurring
      /\ charges[s] # <<>> => parent[s].status # "InProgress"
  BY DEF Charge
<1>2. charges[s] \in Seq(Verdicts) BY DEF SubTypeInv
<1>3. PICK c : c = Append(charges[s], v) OBVIOUS
<1>4. c # <<>> /\ (charges[s] = <<>> => Len(c) = 1) /\ (charges[s] # <<>> => c[1] = charges[s][1])
  BY <1>2, <1>3, AppendProperties, EmptySeq
<1>5. charges'[s] = c /\ \A z \in Subs : z # s => charges'[z] = charges[z]
  BY <1>1, <1>3 DEF SubTypeInv
<1>6. ASSUME NEW z \in Subs, z # s PROVE Counted(z)'
  BY <1>1, <1>5, <1>6, CountedStays DEF CountAll
<1>7. Counted(s)'
  <2>1. FirstCharge(s)' BY <1>1, <1>4, <1>5 DEF FirstCharge, CountAll, Counted
  <2>2. parent[s].status # "New" BY <1>1 DEF CountAll, Counted, New
  <2>3. Made(s) => Made(s)' BY <1>1 DEF Made
  <2>4. Waits(s) /\ charges[s] = <<>> => Waits(s)' BY <1>1, <1>4, <1>5, <2>3 DEF Waits
  <2>5. Failed(s) => Failed(s)' BY <1>1, <1>4, <1>5, <2>3 DEF Failed
  <2>6. Succeeded(s) => Succeeded(s)'
    <3>1. Paid(s) => Paid(s)' BY <1>1 DEF Paid
    <3>2. OnceCounted(s) => OnceCounted(s)' BY <1>1 DEF OnceCounted
    <3>3. CopyIsPaid(s) => CopyIsPaid(s)' BY <1>1 DEF CopyIsPaid
    <3>4. TwiceCounted(s) => TwiceCounted(s)' BY <1>1 DEF TwiceCounted
    <3> QED BY <1>1, <1>4, <1>5, <2>3, <3>1, <3>2, <3>3, <3>4 DEF Succeeded
  <2> QED BY <1>1, <2>1, <2>2, <2>4, <2>5, <2>6 DEF CountAll, Counted
<1> QED BY <1>6, <1>7 DEF CountAll

LEMMA PaymentCallbackCounts ==
    ASSUME SubTypeInv, CountAll, NEW p \in Handlers, NEW s \in Subs, NEW v \in Verdicts,
           PaymentCallback(p, s, v)
    PROVE  CountAll'
<1>1. PICK q : /\ Handler(p, q) /\ HandlerType(q) /\ q.pc = "get" /\ q.id = s
               /\ q.verdict = v /\ q.copied = FALSE
  <2>1. PICK z : z = NoRequest OBVIOUS
  <2>2. PICK q : q = [z EXCEPT !.pc = "get", !.id = s, !.verdict = v] OBVIOUS
  <2>3. z \in HandlerDoc /\ z.copied = FALSE BY <2>1, NoRequestIs DEF HandlerType, NoRequest
  <2>4. HandlerType(q) /\ q.pc = "get" /\ q.id = s /\ q.verdict = v
    BY <2>2, <2>3 DEF HandlerType, HandlerDoc
  <2>5. q.copied = FALSE BY <2>2, <2>3 DEF HandlerDoc
  <2> QED BY <2>1, <2>2, <2>4, <2>5 DEF PaymentCallback, Handler
<1>2. /\ h[p].pc = "idle" /\ parent[s].status = "InProgress"
      /\ subs' = subs /\ parent' = parent /\ copies' = copies /\ charges' = charges
  BY DEF PaymentCallback, AcceptsCallback
<1>3. h'[p] = q /\ \A o \in Handlers : o # p => h'[o] = h[o] BY <1>1, HandlerTyped
<1>4. Waits(s) BY <1>2 DEF CountAll, Counted
<1>5. charges[s] # <<>> /\ v = charges[s][1]
  <2>1. charges[s] \in Seq(Verdicts) /\ Len(charges[s]) <= 1 BY <1>4 DEF Waits, SubTypeInv
  <2>2. PICK i \in DOMAIN charges[s] : charges[s][i] = v BY DEF PaymentCallback
  <2>3. DOMAIN charges[s] = 1 .. Len(charges[s]) /\ Len(charges[s]) \in Nat
    BY <2>1, LenProperties
  <2>n. PICK n : n = Len(charges[s]) OBVIOUS
  <2>i. i \in 1 .. n /\ n \in Nat /\ n <= 1 BY <2>1, <2>2, <2>3, <2>n
  <2>4. i = 1 BY <2>i
  <2>5. charges[s] # <<>> BY <2>2, <2>3, <2>i, <2>n, EmptySeq
  <2> QED BY <2>2, <2>4, <2>5
<1>6. Pays(q, s) /\ ~Creates(q, s) /\ Asks(q)
  BY <1>1 DEF Pays, Creates, Paying, Creating, Asks
<1>7. ASSUME NEW z \in Subs, z # s PROVE Counted(z)'
  BY <1>1, <1>2, <1>7, ElseIs, IdleIs, LeftAlone DEF CountAll
<1>8. Counted(s)'
  <2>1. FirstCharge(s)' BY <1>1, <1>2, <1>3, <1>5 DEF FirstCharge, CountAll, Counted
  <2>2. Made(s)' BY <1>2, <1>3, <1>4, <1>6 DEF Waits, Made
  <2>3. Waits(s)' BY <1>2, <1>3, <1>4, <1>6, <2>2 DEF Waits
  <2> QED BY <1>2, <2>1, <2>3 DEF Counted
<1> QED BY <1>7, <1>8 DEF CountAll

LEMMA PayerMoves ==
    ASSUME SubTypeInv, CountAll, NEW p \in Handlers, NEW s \in Subs, Pays(h[p], s),
           NEW q, HandlerType(q), Handler(p, q), q.pc \in Paying, q.id = s,
           q.verdict = h[p].verdict, q.doc.stored = "yes", subs' = subs, charges' = charges,
           \A z \in Subs : z # s => parent'[z] = parent[z] /\ copies'[z] = copies[z]
    PROVE  /\ h'[p] = q /\ \A o \in Handlers : o # p => h'[o] = h[o]
           /\ Pays(q, s) /\ FirstCharge(s)' /\ (Made(s) => Made(s)')
           /\ \A z \in Subs : z # s => Counted(z)'
<1>1. h'[p] = q /\ \A o \in Handlers : o # p => h'[o] = h[o] BY HandlerTyped
<1>2. Pays(q, s) /\ ~Creates(q, s) BY DEF Pays, Creates, Paying, Creating
<1>3. FirstCharge(s)' BY <1>1, <1>2 DEF FirstCharge, CountAll, Counted
<1>4. Made(s) => Made(s)' BY <1>1, <1>2 DEF Made
<1>5. ASSUME NEW z \in Subs, z # s PROVE Counted(z)'
  <2>1. ~Pays(h[p], z) /\ ~Pays(q, z) /\ ~Creates(q, z) BY <1>5, ElseIs DEF Pays
  <2> QED BY <1>5, <2>1, LeftAlone DEF CountAll
<1> QED BY <1>1, <1>2, <1>3, <1>4, <1>5

\* The subscription is read: a payment was counted before, or none was.
LEMMA GetSubscriptionCounts ==
    ASSUME SubTypeInv, CountAll, NEW p \in Handlers, GetSubscription(p)
    PROVE  CountAll'
<1>0. PICK s : s = h[p].id OBVIOUS
<1>1. /\ h[p].pc = "get" /\ subs' = subs /\ parent' = parent /\ copies' = copies
      /\ charges' = charges /\ h[p].pc \in Paying
  BY DEF GetSubscription, Paying
<1>2. /\ s \in Subs /\ Pays(h[p], s)
      /\ \/ parent[s].status = "InProgress" /\ Waits(s)
         \/ parent[s].status = "Declined" /\ Failed(s)
         \/ parent[s].status = "Complete" /\ Succeeded(s)
  BY <1>0, <1>1, PayerFacts
<1>3. ASSUME subs[s].stored # "yes" PROVE CountAll'
  <2>1. Handler(p, NoRequest) BY <1>0, <1>3 DEF GetSubscription, Handler, Answer
  <2> QED BY <1>1, <2>1, AnswerCounts
<1>4. ASSUME subs[s].stored = "yes" PROVE CountAll'
  <2>1. PICK pc : pc = IF subs[s].paidBefore THEN "copy" ELSE "replace" OBVIOUS
  <2>2. PICK q : q = [h[p] EXCEPT !.doc = subs[s], !.pc = pc] OBVIOUS
  <2>3. h[p] \in HandlerDoc /\ subs[s] \in SubDoc BY <1>1, <1>2, HandlerIs DEF SubTypeInv
  <2>4. Handler(p, q)
    BY <1>0, <1>4, <2>1, <2>2 DEF GetSubscription, Handler
  <2>5. HandlerType(q) /\ q.doc = subs[s] /\ q.pc = pc /\ q.id = s /\ q.verdict = h[p].verdict
    BY <1>0, <1>2, <2>1, <2>2, <2>3 DEF HandlerType, HandlerDoc
  <2>6. q.copied = h[p].copied BY <2>2, <2>3 DEF HandlerDoc
  <2>7. q.pc \in Paying BY <2>1, <2>5 DEF Paying
  <2>8. /\ h'[p] = q /\ \A o \in Handlers : o # p => h'[o] = h[o]
        /\ Pays(q, s) /\ FirstCharge(s)' /\ (Made(s) => Made(s)')
        /\ \A z \in Subs : z # s => Counted(z)'
    BY <1>1, <1>2, <1>4, <2>4, <2>5, <2>7, PayerMoves
  <2>9. ASSUME Total(subs[s], 0), ~h[p].copied PROVE q.pc = "replace" /\ ~q.copied /\ PaysOrder(q)
    BY <2>1, <2>5, <2>6, <2>9 DEF Total, PaysOrder
  <2>10. ASSUME Total(subs[s], 1) PROVE PaysCopy(q)
    BY <2>1, <2>5, <2>10 DEF Total, PaysCopy
  <2>11. ASSUME Waits(s) PROVE Waits(s)'
    <3>1. ~h[p].copied /\ Total(subs[s], 0)
      BY <1>1, <1>2, <1>4, <2>11 DEF Waits, Asks, PaysOrder
    <3> QED BY <1>1, <2>8, <2>9, <2>11, <3>1 DEF Waits
  <2>12. ASSUME Failed(s) PROVE Failed(s)'
    <3>1. ~h[p].copied /\ Total(subs[s], 0)
      BY <1>1, <1>2, <1>4, <2>12 DEF Failed, Asks
    <3> QED BY <1>1, <2>8, <2>9, <2>12, <3>1 DEF Failed
  <2>13. ASSUME Succeeded(s) PROVE Succeeded(s)'
    <3>1. ASSUME Paid(s) PROVE Paid(s)'
      <4>1. ~h[p].copied /\ Total(subs[s], 0)
        BY <1>1, <1>2, <3>1 DEF Paid, Asks, PaysOrder
      <4> QED BY <1>1, <2>8, <2>9, <3>1, <4>1 DEF Paid
    <3>2. ASSUME OnceCounted(s) PROVE OnceCounted(s)'
      <4>1. Total(subs[s], 1) BY <3>2 DEF OnceCounted
      <4> QED BY <1>1, <1>2, <2>8, <2>10, <3>2, <4>1 DEF OnceCounted
    <3>3. ~CopyIsPaid(s) BY <1>1, <1>2 DEF CopyIsPaid, CopyPaid
    <3>4. ~TwiceCounted(s) BY <1>2 DEF TwiceCounted
    <3> QED BY <1>1, <1>4, <2>8, <2>13, <3>1, <3>2, <3>3, <3>4 DEF Succeeded
  <2>14. Counted(s)' BY <1>1, <1>2, <2>8, <2>11, <2>12, <2>13 DEF Counted
  <2> QED BY <2>8, <2>14 DEF CountAll
<1> QED BY <1>3, <1>4

LEMMA CopyOrderCounts ==
    ASSUME SubTypeInv, CountAll, NEW p \in Handlers, CopyOrder(p)
    PROVE  CountAll'
<1>0. PICK s : s = h[p].id OBVIOUS
<1>1. /\ h[p].pc = "copy" /\ subs' = subs /\ parent' = parent /\ copies' = copies
      /\ charges' = charges /\ h[p].pc \in Paying
  BY DEF CopyOrder, Paying
<1>2. /\ s \in Subs /\ Pays(h[p], s) /\ h[p].doc.stored = "yes"
      /\ \/ parent[s].status = "InProgress" /\ Waits(s)
         \/ parent[s].status = "Declined" /\ Failed(s)
         \/ parent[s].status = "Complete" /\ Succeeded(s)
  BY <1>0, <1>1, PayerFacts
<1>3. ~Waits(s) /\ ~Failed(s) BY <1>1, <1>2 DEF Waits, Failed, Asks, PaysOrder
<1>4. PICK q : q = [h[p] EXCEPT !.pc = "replace", !.copied = TRUE] OBVIOUS
<1>5. h[p] \in HandlerDoc BY <1>1, HandlerIs
<1>6. /\ HandlerType(q) /\ q.pc = "replace" /\ q.id = s /\ q.doc = h[p].doc
      /\ q.verdict = h[p].verdict
  BY <1>0, <1>2, <1>4, <1>5 DEF HandlerType, HandlerDoc
<1>7. q.copied = TRUE BY <1>4, <1>5 DEF HandlerDoc
<1>8. Handler(p, q) BY <1>4 DEF CopyOrder, Handler
<1>9. /\ h'[p] = q /\ \A o \in Handlers : o # p => h'[o] = h[o]
      /\ Pays(q, s) /\ FirstCharge(s)' /\ (Made(s) => Made(s)')
      /\ \A z \in Subs : z # s => Counted(z)'
  BY <1>1, <1>2, <1>6, <1>8, PayerMoves DEF Paying
<1>10. ASSUME OnceCounted(s) PROVE OnceCounted(s)'
  <2>1. PaysCopy(q) BY <1>1, <1>2, <1>6, <1>7, <1>10 DEF OnceCounted, Asks, PaysOrder, PaysCopy
  <2> QED BY <1>1, <1>2, <1>9, <1>10, <2>1 DEF OnceCounted
<1>11. ~Paid(s) /\ ~CopyIsPaid(s) /\ ~TwiceCounted(s)
  BY <1>1, <1>2 DEF Paid, Asks, PaysOrder, CopyIsPaid, CopyPaid, TwiceCounted
<1>12. Succeeded(s)' BY <1>1, <1>2, <1>3, <1>9, <1>10, <1>11 DEF Succeeded
<1>13. Counted(s)' BY <1>1, <1>2, <1>3, <1>9, <1>12 DEF Counted
<1> QED BY <1>9, <1>13 DEF CountAll

\* The order, or its copy, is replaced by what the callback says.
LEMMA ReplaceOrderCounts ==
    ASSUME SubTypeInv, CountAll, NEW p \in Handlers, ReplaceOrder(p)
    PROVE  CountAll'
<1>0. PICK s : s = h[p].id OBVIOUS
<1>1. /\ h[p].pc = "replace" /\ subs' = subs /\ charges' = charges /\ h[p].pc \in Paying
  BY DEF ReplaceOrder, Paying
<1>2. /\ s \in Subs /\ Pays(h[p], s) /\ h[p].doc.stored = "yes"
      /\ charges[s] # <<>> /\ h[p].verdict = charges[s][1]
      /\ \/ parent[s].status = "InProgress" /\ Waits(s)
         \/ parent[s].status = "Declined" /\ Failed(s)
         \/ parent[s].status = "Complete" /\ Succeeded(s)
  BY <1>0, <1>1, PayerFacts
<1>3. h[p] \in HandlerDoc /\ h[p].verdict \in Verdicts BY <1>1, HandlerIs DEF HandlerDoc
<1>4. PICK q : q = [h[p] EXCEPT !.pc = IF h[p].verdict = "Complete" THEN "count" ELSE "stop"]
  OBVIOUS
<1>5. /\ HandlerType(q) /\ q.id = s /\ q.doc = h[p].doc /\ q.verdict = h[p].verdict
      /\ q.pc = (IF h[p].verdict = "Complete" THEN "count" ELSE "stop")
  BY <1>0, <1>2, <1>3, <1>4 DEF HandlerType, HandlerDoc
<1>6. q.copied = h[p].copied BY <1>3, <1>4 DEF HandlerDoc
<1>7. Handler(p, q) BY <1>4 DEF ReplaceOrder, Handler
<1>8. /\ h[p].copied => /\ parent' = parent
                        /\ copies' = [copies EXCEPT ![s] = IF h[p].verdict = "Complete"
                                                           THEN copies[s] + 1 ELSE copies[s]]
      /\ ~h[p].copied => /\ parent' = [parent EXCEPT ![s].status = h[p].verdict]
                         /\ copies' = copies
  BY <1>0 DEF ReplaceOrder
<1>9. \A z \in Subs : z # s => parent'[z] = parent[z] /\ copies'[z] = copies[z]
  BY <1>2, <1>8 DEF SubTypeInv
<1>10. /\ h'[p] = q /\ \A o \in Handlers : o # p => h'[o] = h[o]
       /\ Pays(q, s) /\ FirstCharge(s)' /\ (Made(s) => Made(s)')
       /\ \A z \in Subs : z # s => Counted(z)'
  BY <1>1, <1>2, <1>5, <1>7, <1>9, PayerMoves DEF Paying
<1>11. ASSUME ~h[p].copied PROVE parent'[s].status = h[p].verdict /\ copies'[s] = copies[s]
  <2>1. parent[s] \in ParentDoc BY <1>2 DEF SubTypeInv
  <2>2. PICK doc : doc = [parent[s] EXCEPT !.status = h[p].verdict] OBVIOUS
  <2>3. doc.status = h[p].verdict BY <2>1, <2>2 DEF ParentDoc
  <2>4. parent' = [parent EXCEPT ![s] = doc] /\ copies' = copies BY <1>8, <1>11, <2>2
  <2>5. parent'[s] = doc BY <1>2, <2>4 DEF SubTypeInv
  <2> QED BY <2>3, <2>4, <2>5
<1>12. ASSUME h[p].verdict = "Declined" PROVE Counted(s)'
  <2>1. ~(parent[s].status = "Complete" /\ Succeeded(s)) BY <1>2, <1>12 DEF Succeeded
  <2>2. /\ ~h[p].copied /\ Made(s) /\ copies[s] = 0 /\ (subs[s].stored = "yes" => Total(subs[s], 0))
        /\ \A o \in Handlers : Pays(h[o], s) =>
              Asks(h[o]) \/ h[o].pc = "stop" \/ (h[o].pc = "replace" /\ ~h[o].copied)
    BY <1>1, <1>2, <2>1 DEF Waits, Failed, Asks, PaysOrder
  <2>3. q.pc = "stop" /\ parent'[s].status = "Declined" /\ copies'[s] = 0
    BY <1>5, <1>11, <1>12, <2>2
  <2>4. Failed(s)' BY <1>1, <1>2, <1>10, <1>12, <2>2, <2>3 DEF Failed
  <2> QED BY <1>10, <2>3, <2>4 DEF Counted
<1>13. ASSUME h[p].verdict = "Complete" PROVE Counted(s)'
  <2>1. ~(parent[s].status = "Declined" /\ Failed(s)) BY <1>2, <1>13 DEF Failed
  <2>2. q.pc = "count" BY <1>5, <1>13
  <2>3. parent'[s].status = "Complete"
    <3>1. CASE h[p].copied
      <4>1. ~Waits(s) BY <1>1, <1>2, <3>1 DEF Waits, Asks, PaysOrder
      <4> QED BY <1>2, <1>8, <2>1, <3>1, <4>1
    <3>2. CASE ~h[p].copied BY <1>11, <1>13, <3>2
    <3> QED BY <3>1, <3>2
  <2>4. Made(s) BY <1>2, <2>1 DEF Waits, Succeeded
  <2>5. ASSUME PaysOrder(h[p]) PROVE PaysOrder(q) /\ copies'[s] = copies[s]
    BY <1>5, <1>6, <1>11, <2>2, <2>5 DEF PaysOrder
  <2>6. ASSUME Waits(s), subs[s].stored = "yes" PROVE Paid(s)'
    <3>1. PaysOrder(h[p]) BY <1>1, <1>2, <2>6 DEF Waits, Asks
    <3> QED BY <1>1, <1>10, <2>2, <2>5, <2>6, <3>1 DEF Waits, Paid
  <2>7. ASSUME Paid(s) PROVE Paid(s)'
    <3>1. PaysOrder(h[p]) BY <1>1, <1>2, <2>7 DEF Paid, Asks
    <3> QED BY <1>1, <1>10, <2>2, <2>5, <2>7, <3>1 DEF Paid
  <2>8. ASSUME OnceCounted(s) PROVE OnceCounted(s)' \/ CopyIsPaid(s)'
    <3>1. PaysOrder(h[p]) \/ PaysCopy(h[p]) BY <1>1, <1>2, <2>8 DEF OnceCounted, Asks
    <3>2. \A o, z \in Handlers : Pays(h'[o], s) /\ Pays(h'[z], s) => o = z
      BY <1>2, <1>10, <2>8 DEF OnceCounted
    <3>3. ASSUME PaysOrder(h[p]) PROVE OnceCounted(s)'
      BY <1>1, <1>10, <2>5, <2>8, <3>2, <3>3 DEF OnceCounted
    <3>4. ASSUME PaysCopy(h[p]) PROVE CopyIsPaid(s)'
      <4>1. h[p].copied /\ CopyPaid(q) BY <1>1, <1>5, <2>2, <3>4 DEF PaysCopy, CopyPaid
      <4>2. copies'[s] = copies[s] + 1 BY <1>2, <1>8, <1>13, <4>1 DEF SubTypeInv
      <4>3. Total(subs[s], 1)' /\ copies'[s] = 1 BY <1>1, <2>8, <4>2 DEF OnceCounted
      <4> QED BY <1>1, <1>10, <3>2, <4>1, <4>3 DEF CopyIsPaid
    <3> QED BY <3>1, <3>3, <3>4
  <2>9. ~CopyIsPaid(s) BY <1>1, <1>2 DEF CopyIsPaid, CopyPaid
  <2>10. ~TwiceCounted(s) BY <1>2 DEF TwiceCounted
  <2>11. Succeeded(s)'
    BY <1>1, <1>2, <1>10, <1>13, <2>1, <2>4, <2>6, <2>7, <2>8, <2>9, <2>10 DEF Succeeded
  <2> QED BY <1>10, <2>3, <2>11 DEF Counted
<1>14. Counted(s)' BY <1>3, <1>12, <1>13 DEF Verdicts
<1> QED BY <1>10, <1>14 DEF CountAll

\* At most two requests are handled at the same time.
TwoHandlers == \E a, b : Handlers \subseteq {a, b}

\* UpdateSubscription, with one payment more than was read. The first payment that is
\* counted leaves one request, which may have read the subscription before.
LEMMA CountPaymentCounts ==
    ASSUME TwoHandlers, SubTypeInv, CountAll, NEW p \in Handlers, CountPayment(p)
    PROVE  CountAll'
<1>0. PICK s : s = h[p].id OBVIOUS
<1>1. /\ h[p].pc = "count" /\ parent' = parent /\ copies' = copies /\ charges' = charges
      /\ h[p].pc \in Paying /\ Handler(p, NoRequest)
  BY DEF CountPayment, Paying, Handler, Answer
<1>2. /\ s \in Subs /\ Pays(h[p], s) /\ h[p].doc.stored = "yes"
      /\ \/ parent[s].status = "InProgress" /\ Waits(s)
         \/ parent[s].status = "Declined" /\ Failed(s)
         \/ parent[s].status = "Complete" /\ Succeeded(s)
  BY <1>0, <1>1, PayerFacts
<1>3. parent[s].status = "Complete" /\ Succeeded(s)
  BY <1>1, <1>2 DEF Waits, Failed, Asks
<1>4. h'[p] = NoRequest /\ \A o \in Handlers : o # p => h'[o] = h[o]
  BY <1>1, HandlerTyped, NoRequestIs
<1>5. \A z : ~Pays(NoRequest, z) /\ ~Creates(NoRequest, z) BY IdleIs, NoRequestIs
<1>6. PICK d : d = [h[p].doc EXCEPT !.active = TRUE, !.paidBefore = TRUE,
                                    !.total = h[p].doc.total + 1]
  OBVIOUS
<1>7. subs' = [subs EXCEPT ![s] = IF subs[s].stored = "yes" THEN d ELSE subs[s]]
  BY <1>0, <1>6 DEF CountPayment
<1>8. h[p].doc \in SubDoc /\ h[p].doc.total \in Int BY <1>1, HandlerIs DEF SubDoc
<1>9. d.stored = "yes" /\ d.total = h[p].doc.total + 1
  <2>1. d.stored = "yes" BY <1>2, <1>6, <1>8 DEF SubDoc
  <2>2. d.total = h[p].doc.total + 1 BY <1>6, <1>8 DEF SubDoc
  <2> QED BY <2>1, <2>2
<1>10. d.paidBefore = TRUE BY <1>6, <1>8 DEF SubDoc
<1>11. subs'[s] = (IF subs[s].stored = "yes" THEN d ELSE subs[s])
       /\ \A z \in Subs : z # s => subs'[z] = subs[z]
  BY <1>2, <1>7 DEF SubTypeInv
<1>12. ASSUME NEW z \in Subs, z # s PROVE Counted(z)'
  <2>1. ~Pays(h[p], z) BY <1>0, <1>12, ElseIs
  <2> QED BY <1>1, <1>5, <1>11, <1>12, <2>1, NoRequestIs, LeftAlone DEF CountAll
<1>13. Counted(s)'
  <2>1. \A o \in Handlers : Pays(h'[o], s) => o # p /\ h'[o] = h[o] /\ Pays(h[o], s)
    BY <1>4, <1>5
  <2>2. FirstCharge(s)' BY <1>1, <1>2, <2>1 DEF FirstCharge, CountAll, Counted
  <2>3. Made(s)' BY <1>3, <1>4, <1>5, <1>9, <1>11 DEF Made, Succeeded
  <2>4. ASSUME PaysOrder(h[p]) PROVE Total(d, 1)
    BY <1>9, <1>10, <2>4 DEF PaysOrder, Total
  <2>5. ASSUME Paid(s), subs[s].stored = "yes" PROVE OnceCounted(s)'
    <3>1. PaysOrder(h[p]) BY <1>1, <1>2, <2>5 DEF Paid, Asks
    <3>2. Total(subs[s], 1)' /\ copies'[s] = 0 BY <1>1, <1>11, <2>4, <2>5, <3>1 DEF Paid
    <3>3. \A o, z \in Handlers : o # p /\ z # p => o = z BY DEF TwoHandlers
    <3> QED BY <2>1, <2>5, <3>2, <3>3 DEF Paid, OnceCounted
  <2>6. ASSUME OnceCounted(s), subs[s].stored = "yes" PROVE OnceCounted(s)'
    <3>1. PaysOrder(h[p]) BY <1>1, <1>2, <2>6 DEF OnceCounted, Asks, PaysCopy
    <3>2. Total(subs[s], 1)' /\ copies'[s] = 0 BY <1>1, <1>11, <2>4, <2>6, <3>1 DEF OnceCounted
    <3> QED BY <2>1, <2>6, <3>2 DEF OnceCounted
  <2>7. ASSUME CopyIsPaid(s), subs[s].stored = "yes" PROVE TwiceCounted(s)'
    <3>1. CopyPaid(h[p]) BY <1>2, <2>7 DEF CopyIsPaid
    <3>2. Total(d, 2) BY <1>9, <1>10, <3>1 DEF CopyPaid, Total
    <3>3. Total(subs[s], 2)' /\ copies'[s] = 1 BY <1>1, <1>11, <2>7, <3>2 DEF CopyIsPaid
    <3>4. \A o \in Handlers : ~Pays(h'[o], s) BY <1>2, <2>1, <2>7 DEF CopyIsPaid
    <3> QED BY <3>3, <3>4 DEF TwiceCounted
  <2>8. ~TwiceCounted(s) BY <1>2 DEF TwiceCounted
  <2>9. Succeeded(s)'
    BY <1>1, <1>3, <1>11, <2>3, <2>5, <2>6, <2>7, <2>8 DEF Succeeded
  <2> QED BY <1>1, <1>3, <2>2, <2>9 DEF Counted
<1> QED BY <1>12, <1>13 DEF CountAll

\* A subscription that is deleted counts nothing any more.
LEMMA DeleteCounts ==
    ASSUME SubTypeInv, CountAll, NEW p \in Handlers, DeleteSubscription(p)
    PROVE  CountAll'
<1>0. PICK s : s = h[p].id OBVIOUS
<1>1. /\ h[p].pc = "delete" /\ parent' = parent /\ copies' = copies /\ charges' = charges
      /\ Handler(p, NoRequest)
  BY DEF DeleteSubscription, Handler, Answer
<1>2. s \in Subs BY <1>0, <1>1, HandlerIs
<1>3. PICK d \in SubDoc : subs' = [subs EXCEPT ![s] = d] /\ d.stored = "deleted"
  BY <1>0, DeleteIs
<1>4. subs'[s] = d /\ \A z \in Subs : z # s => subs'[z] = subs[z]
  BY <1>2, <1>3 DEF SubTypeInv
<1>5. h'[p] = NoRequest /\ \A o \in Handlers : o # p => h'[o] = h[o]
  BY <1>1, HandlerTyped, NoRequestIs
<1>6. \A z : ~Pays(NoRequest, z) /\ ~Creates(NoRequest, z) BY IdleIs, NoRequestIs
<1>7. \A z : ~Pays(h[p], z) BY <1>1, IdleIs
<1>8. ASSUME NEW z \in Subs, z # s PROVE Counted(z)'
  BY <1>1, <1>4, <1>6, <1>7, <1>8, NoRequestIs, LeftAlone DEF CountAll
<1>9. Counted(s)'
  <2>1. \A o \in Handlers : /\ Pays(h'[o], s) => h'[o] = h[o] /\ Pays(h[o], s)
                            /\ Creates(h'[o], s) => h'[o] = h[o] /\ Creates(h[o], s)
    BY <1>5, <1>6
  <2>2. FirstCharge(s)' BY <1>1, <1>2, <2>1 DEF FirstCharge, CountAll, Counted
  <2>3. New(s) => New(s)' BY <1>1, <1>3, <1>4, <2>1 DEF New
  <2>4. Made(s) => Made(s)' BY <1>3, <1>4, <2>1 DEF Made
  <2>5. Waits(s) => Waits(s)' BY <1>1, <1>3, <1>4, <2>1, <2>4 DEF Waits
  <2>6. Failed(s) => Failed(s)' BY <1>1, <1>3, <1>4, <2>1, <2>4 DEF Failed
  <2>7. Succeeded(s) => Succeeded(s)' BY <1>1, <1>3, <1>4, <2>4 DEF Succeeded
  <2> QED BY <1>1, <1>2, <2>2, <2>3, <2>5, <2>6, <2>7 DEF CountAll, Counted
<1> QED BY <1>8, <1>9 DEF CountAll

LEMMA StopCounts ==
    ASSUME SubTypeInv, CountAll, NEW p \in Handlers,
           StopAfterFailedCharge(p) \/ CancelAtGateway(p)
    PROVE  CountAll'
<1>1. PICK q : /\ Handler(p, q) /\ HandlerType(q)
               /\ h[p].pc = "stop" => q = NoRequest
               /\ h[p].pc = "cancel" => q.pc = "delete"
  BY StopIs
<1>2. /\ h[p].pc \in {"stop", "cancel"} /\ subs' = subs /\ charges' = charges
      /\ parent' = parent /\ copies' = copies
  BY DEF StopAfterFailedCharge, CancelAtGateway
<1>3. \A z : ~Pays(q, z) /\ ~Creates(q, z) BY <1>1, <1>2, IdleIs, NoRequestIs
<1> QED BY <1>1, <1>2, <1>3, LeftAlone DEF CountAll

LEMMA DeleteRequestCounts ==
    ASSUME SubTypeInv, CountAll, NEW p \in Handlers, NEW s \in Subs, NEW cookie, NEW merchant,
           DeleteRecurringSubscription(p, s, cookie, merchant)
    PROVE  CountAll'
<1>1. PICK q : Handler(p, q) /\ HandlerType(q) /\ q.pc = "cancel"
  BY DeleteRequestIs
<1>2. /\ h[p].pc = "idle" /\ subs' = subs /\ charges' = charges
      /\ parent' = parent /\ copies' = copies
  BY DEF DeleteRecurringSubscription
<1>3. \A z : ~Pays(q, z) /\ ~Creates(q, z) BY <1>1, IdleIs
<1> QED BY <1>1, <1>2, <1>3, LeftAlone DEF CountAll

LEMMA CountInit == SubInit => CountAll
<1> SUFFICES ASSUME SubInit, NEW s \in Subs PROVE Counted(s)
  BY DEF CountAll
<1>1. \A o \in Handlers : ~Pays(h[o], s) /\ ~Creates(h[o], s)
  BY IdleIs, NoRequestIs DEF SubInit
<1>2. subs[s] = NoDoc /\ Total(NoDoc, 0) BY DEF SubInit, NoDoc, Total
<1>3. parent[s].status = "New" /\ ~parent[s].recurring /\ copies[s] = 0 /\ charges[s] = <<>>
  BY DEF SubInit
<1> QED BY <1>1, <1>2, <1>3 DEF Counted, FirstCharge, New

LEMMA CountStep ==
    ASSUME TwoHandlers, SubTypeInv, subFailures = 0 => CountAll, [SubNext]_subVars,
           subFailures' = 0
    PROVE  CountAll'
<1>1. subFailures \in Nat /\ subFailures' \in Nat BY SubNextTyped DEF SubTypeInv
<1>2. ~\E p \in Handlers : FailRequest(p) BY <1>1 DEF FailRequest
<1>3. subFailures = 0
  BY <1>2, Zenon DEF SubNext, subVars, HandlerStep, AddSubscription, CreateRecurringPlan,
     CreateRecurringSubscription, StoreSubscription, StoreOrder, Charge, PaymentCallback,
     GetSubscription, CopyOrder, ReplaceOrder, CountPayment, StopAfterFailedCharge,
     DeleteRecurringSubscription, CancelAtGateway, DeleteSubscription, DeleteSavedCard
<1>4. CountAll BY <1>3
<1>5. ASSUME NEW p \in Handlers, HandlerStep(p) PROVE CountAll'
  BY <1>4, <1>5, CreatePlanCounts, CreateSubscriptionCounts, StoreSubscriptionCounts,
     StoreOrderCounts, GetSubscriptionCounts, CopyOrderCounts, ReplaceOrderCounts,
     CountPaymentCounts, StopCounts, DeleteCounts, Zenon DEF HandlerStep
<1>6. ASSUME NEW p \in Handlers, NEW s \in Subs, AddSubscription(p, s) PROVE CountAll'
  BY <1>4, <1>6, AddSubscriptionCounts
<1>7. ASSUME NEW s \in Subs, NEW v \in Verdicts, Charge(s, v) PROVE CountAll'
  BY <1>4, <1>7, ChargeCounts
<1>8. ASSUME NEW p \in Handlers, NEW s \in Subs, NEW v \in Verdicts, PaymentCallback(p, s, v)
      PROVE  CountAll'
  BY <1>4, <1>8, PaymentCallbackCounts
<1>9. ASSUME NEW p \in Handlers, NEW s \in Subs, NEW cookie, NEW merchant,
             DeleteRecurringSubscription(p, s, cookie, merchant)
      PROVE  CountAll'
  BY <1>4, <1>9, DeleteRequestCounts
<1>10. CASE \/ UNCHANGED subVars
            \/ \E card \in Cards, customer, virtual \in Customers \cup {Nobody} :
                  DeleteSavedCard(card, customer, virtual)
  <2>1. subs' = subs /\ charges' = charges /\ parent' = parent /\ copies' = copies /\ h' = h
    BY <1>10 DEF subVars, DeleteSavedCard
  <2> QED BY <1>4, <2>1, CountedStays DEF CountAll
<1> QED BY <1>2, <1>5, <1>6, <1>7, <1>8, <1>9, <1>10, Zenon DEF SubNext

\* When nothing failed and everything is quiet, TotalAmount of a subscription is the sum of
\* the orders that were paid for it, for any number of subscriptions and charges and in
\* whatever order callbacks are repeated, if at most two requests are handled at the same
\* time (UpdateSubscription, after a callback in order.go).
THEOREM TotalsCountPaidOrders == ASSUME TwoHandlers PROVE SubSpec => []TotalCountsPaidOrders
<1> DEFINE Inv == SubTypeInv /\ (subFailures = 0 => CountAll)
<1>1. SubInit => Inv BY SubInitTyped, CountInit
<1>2. Inv /\ [SubNext]_subVars => Inv' BY SubNextTyped, CountStep
<1>3. Inv => TotalCountsPaidOrders
  <2> SUFFICES ASSUME SubTypeInv, CountAll, \A p \in Handlers : h[p].pc = "idle",
                      NEW s \in Subs, subs[s].stored = "yes"
               PROVE  subs[s].total = GetSubscriptionOrders(s)
    BY DEF TotalCountsPaidOrders
  <2>1. \A p \in Handlers : ~Pays(h[p], s) BY IdleIs
  <2>2. parent[s].status \in {"New", "InProgress", "Complete", "Declined"} /\ Counted(s)
    BY DEF SubTypeInv, ParentDoc, CountAll
  <2>3. CASE parent[s].status = "Complete"
    BY <2>1, <2>2, <2>3 DEF Counted, Succeeded, Paid, OnceCounted, CopyIsPaid, TwiceCounted,
       GetSubscriptionOrders, Total
  <2>4. CASE parent[s].status # "Complete"
    BY <2>2, <2>4 DEF Counted, New, Waits, Failed, GetSubscriptionOrders, Total
  <2> QED BY <2>3, <2>4
<1> QED BY <1>1, <1>2, <1>3, PTL DEF SubSpec
=============================================================================
