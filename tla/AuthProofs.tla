------------------------------ MODULE AuthProofs ------------------------------
(***************************************************************************)
(* Proofs about Auth for any calls, contexts, users and rotations.         *)
(***************************************************************************)
EXTENDS Auth, TLAPS

\* Where a call that carries a token and has not been decided may be.
Deciding == {"fetch", "store", "find", "reading", "record"}

CallRecord ==
    [pc : Deciding \cup {"handle", "sent"}, ctx : Ctxs, tok : Token \cup {None}, good : BOOLEAN,
     second : BOOLEAN, got : SUBSET Nat, cause : BOOLEAN, raced : BOOLEAN, as : Users \cup {None}]

AuthType ==
    /\ gen \in 0 .. MaxRotations /\ keys \subseteq Nat /\ recent \in BOOLEAN
    /\ users \in [Ctxs -> Users \cup {None}]
    /\ call \in [Calls -> {Idle} \cup CallRecord]
    /\ crashed \in BOOLEAN

\* Two calls never run with one context (Arrives).
OwnContext ==
    \A c, d \in Calls : c # d /\ call[c] # Idle /\ call[d] # Idle => call[c].ctx # call[d].ctx

\* A token was signed with a key that is not newer than the next one.
TokenKnown(r) ==
    r.pc \in Deciding \/ r.tok # None => r.tok \in Token /\ r.tok.kid <= gen + 1

\* The user of a call that is to be answered OK is the one of its valid token.
RightUser(r) ==
    /\ r.pc = "record" => r.tok.valid /\ r.good
    /\ r.pc = "handle" /\ r.good /\ r.tok # None => r.tok.valid /\ users[r.ctx] = r.tok.user
    /\ r.pc = "sent" /\ r.good /\ r.tok # None => r.tok.valid /\ r.as = r.tok.user

\* No excuse for a refusal has come up.
NoExcuse(r) == ~r.cause /\ r.tok.kid \in Published

\* From its second fetch on, a call without an excuse has its key in hand.
RightKeys(r) ==
    /\ r.raced => r.pc = "reading" /\ r.cause
    /\ r.pc \in {"store", "reading"} /\ r.second /\ NoExcuse(r) => r.tok.kid \in r.got
    /\ r.pc = "find" /\ r.second /\ NoExcuse(r) => r.tok.kid \in keys
    /\ r.pc \in {"handle", "sent"} /\ ~r.good /\ r.tok # None => ~r.tok.valid \/ ~NoExcuse(r)

CallsRight ==
    \A c \in Calls : call[c] # Idle => TokenKnown(call[c]) /\ RightUser(call[c]) /\ RightKeys(call[c])

Inv == AuthType /\ OwnContext /\ CallsRight

-----------------------------------------------------------------------------
\* What the end of a search changes of a call, and what it keeps.
LEMMA CheckedRecord ==
    ASSUME NEW r \in CallRecord, NEW pc \in Deciding \cup {"handle"}, NEW good \in BOOLEAN,
           NEW n, n = Checked(r, pc, good)
    PROVE  /\ n \in CallRecord
           /\ n.pc = pc /\ n.good = good /\ n.raced = FALSE
           /\ n.ctx = r.ctx /\ n.tok = r.tok /\ n.second = r.second /\ n.cause = r.cause
  BY DEF Checked, CallRecord, Deciding

\* A call that is under way has a record, and never the idle one.
LEMMA UnderWay ==
    ASSUME AuthType, NEW c \in Calls
    PROVE  /\ call[c] # Idle <=> call[c] \in CallRecord
           /\ call[c] # Idle <=> call[c].pc # "idle"
  <1>1. call[c] = Idle \/ call[c] \in CallRecord
    BY DEF AuthType
  <1>2. \A r \in CallRecord : r.pc # "idle"
    BY DEF CallRecord, Deciding
  <1>3. Idle.pc = "idle"
    BY DEF Idle
  <1> QED
    BY <1>1, <1>2, <1>3

LEMMA InitInv == Init => Inv
  <1> SUFFICES ASSUME Init PROVE Inv
    OBVIOUS
  <1>1. \A c \in Calls : call[c] = Idle
    BY DEF Init
  <1>2. AuthType
    <2>1. gen \in 0 .. MaxRotations /\ keys \subseteq Nat
      BY AuthAssumption DEF Init
    <2>2. users \in [Ctxs -> Users \cup {None}] /\ call \in [Calls -> {Idle} \cup CallRecord]
      BY DEF Init
    <2>3. recent \in BOOLEAN /\ crashed \in BOOLEAN
      BY DEF Init
    <2> QED
      BY <2>1, <2>2, <2>3 DEF AuthType
  <1> QED
    BY <1>1, <1>2 DEF Inv, OwnContext, CallsRight

Right(c) == TokenKnown(call[c]) /\ RightUser(call[c]) /\ RightKeys(call[c])

\* A step that replaces the record of one call, which keeps the context or
\* takes a free one, and changes neither the keys nor the user of another
\* context, preserves the invariant if the new record is right.
LEMMA OneCall ==
    ASSUME Inv, NEW c \in Calls,
           call'[c] \in CallRecord, call' = [call EXCEPT ![c] = call'[c]],
           \A d \in Calls : d # c /\ call[d] # Idle => call[d].ctx # call'[c].ctx,
           keys' = keys, gen' = gen, recent' = recent, crashed' = crashed,
           users' \in [Ctxs -> Users \cup {None}],
           \A x \in Ctxs : x # call'[c].ctx => users'[x] = users[x],
           Right(c)'
    PROVE  Inv'
  <1>1. \A d \in Calls : d # c => call'[d] = call[d]
    BY DEF Inv, AuthType
  <1>2. AuthType'
    BY DEF Inv, AuthType
  <1>3. OwnContext'
    BY <1>1 DEF Inv, OwnContext
  <1>4. ASSUME NEW d \in Calls, d # c, call[d] # Idle
        PROVE  (TokenKnown(call[d]) /\ RightUser(call[d]) /\ RightKeys(call[d]))'
    <2>1. /\ call'[d] = call[d] /\ call[d] \in CallRecord
          /\ TokenKnown(call[d]) /\ RightUser(call[d]) /\ RightKeys(call[d])
      BY <1>1, <1>4, UnderWay DEF Inv, CallsRight
    <2>2. users'[call[d].ctx] = users[call[d].ctx]
      BY <1>4, <2>1 DEF CallRecord
    <2> QED
      BY <2>1, <2>2 DEF TokenKnown, RightUser, RightKeys, NoExcuse, Published
  <1>5. CallsRight'
    BY <1>1, <1>4 DEF CallsRight, Right
  <1> QED
    BY <1>2, <1>3, <1>5 DEF Inv

\* A call arrives.
LEMMA ArriveInv ==
    ASSUME Inv, NEW c \in Calls, NEW x \in Ctxs,
           \/ \E public \in BOOLEAN : Unchecked(c, x, public)
           \/ \E t \in Token : Protected(c, x, t)
    PROVE  Inv'
  <1>1. ASSUME NEW public \in BOOLEAN, Unchecked(c, x, public) PROVE Inv'
    <2>1. /\ call'[c] = NewCall("handle", x, None, public) /\ call' = [call EXCEPT ![c] = call'[c]]
          /\ UNCHANGED <<gen, keys, recent, users, crashed>>
          /\ \A d \in Calls : call[d] # Idle => call[d].ctx # x
      BY <1>1 DEF Unchecked, Arrives, Set, Inv, AuthType
    <2>2. /\ call'[c] \in CallRecord
          /\ call'[c].pc = "handle" /\ call'[c].ctx = x /\ call'[c].tok = None
          /\ ~call'[c].raced
      BY <2>1 DEF NewCall, CallRecord, Deciding
    <2>3. Right(c)'
      BY <2>2 DEF Right, TokenKnown, RightUser, RightKeys, Deciding
    <2> QED
      BY <2>1, <2>2, <2>3, OneCall DEF Inv, AuthType
  <1>2. ASSUME NEW t \in Token, Protected(c, x, t) PROVE Inv'
    <2>1. /\ call'[c] = NewCall(IF recent THEN "find" ELSE "fetch", x, t, TRUE)
          /\ call' = [call EXCEPT ![c] = call'[c]]
          /\ UNCHANGED <<gen, keys, recent, users, crashed>> /\ t.kid <= gen + 1
          /\ \A d \in Calls : call[d] # Idle => call[d].ctx # x
      BY <1>2 DEF Protected, Arrives, Set, Inv, AuthType
    <2>2. /\ call'[c] \in CallRecord /\ ~call'[c].second /\ ~call'[c].raced
          /\ call'[c].pc \in {"find", "fetch"} /\ call'[c].ctx = x /\ call'[c].tok = t
      BY <2>1 DEF NewCall, CallRecord, Deciding
    <2>3. Right(c)'
      BY <2>1, <2>2 DEF Right, TokenKnown, RightUser, RightKeys, Deciding
    <2> QED
      BY <2>1, <2>2, <2>3, OneCall DEF Inv, AuthType
  <1> QED
    BY <1>1, <1>2

\* The same for a step of a call that is under way and leaves all else alone.
LEMMA OwnStep ==
    ASSUME Inv, NEW c \in Calls, call[c] # Idle,
           call'[c] \in CallRecord, call' = [call EXCEPT ![c] = call'[c]],
           call'[c].ctx = call[c].ctx,
           UNCHANGED <<gen, keys, recent, users, crashed>>, Right(c)'
    PROVE  Inv'
  <1>1. \A d \in Calls : d # c /\ call[d] # Idle => call[d].ctx # call'[c].ctx
    BY DEF Inv, OwnContext
  <1> QED
    BY <1>1, OneCall DEF Inv, AuthType

\* What a call at a given place has.
LEMMA AtRecord ==
    ASSUME Inv, NEW c \in Calls, NEW pc, pc # "idle", At(c, pc)
    PROVE  call[c] # Idle /\ call[c] \in CallRecord /\ call[c].pc = pc /\ Right(c)
  BY UnderWay DEF Inv, At, CallsRight, Right

LEMMA FetchInv == ASSUME Inv, NEW c \in Calls, Fetch(c) PROVE Inv'
  <1>1. call[c] # Idle /\ call[c] \in CallRecord /\ call[c].pc = "fetch" /\ Right(c)
    BY AtRecord DEF Fetch
  <1>2. gen \in Nat
    BY DEF Inv, AuthType
  <1>3. /\ call'[c].tok = call[c].tok /\ call'[c].good = call[c].good
        /\ call'[c].ctx = call[c].ctx /\ call'[c].second = call[c].second
        /\ call'[c] \in CallRecord /\ call' = [call EXCEPT ![c] = call'[c]]
        /\ UNCHANGED <<gen, keys, recent, users, crashed>>
        /\ call'[c].raced = call[c].raced
        /\ \/ call'[c].pc = "store" /\ call'[c].cause = call[c].cause /\ call'[c].got = Published
           \/ call'[c].pc = "find" /\ call'[c].cause = call[c].second
    <2>1. call \in [Calls -> {Idle} \cup CallRecord] /\ Published \subseteq Nat
      BY <1>2 DEF Inv, AuthType, Published
    <2>2. CASE Set(c, [call[c] EXCEPT !.pc = "store", !.got = Published])
      BY <1>1, <2>1, <2>2 DEF Fetch, Set, CallRecord, Deciding
    <2>3. CASE Set(c, [call[c] EXCEPT !.pc = "find", !.cause = call[c].second])
      BY <1>1, <2>1, <2>3 DEF Fetch, Set, CallRecord, Deciding
    <2> QED
      BY <2>2, <2>3 DEF Fetch
  <1>4. Right(c)'
    BY <1>1, <1>3 DEF Right, TokenKnown, RightUser, RightKeys, NoExcuse, Published, Deciding
  <1> QED
    BY <1>1, <1>3, <1>4, OwnStep

LEMMA BeginFindInv == ASSUME Inv, NEW c \in Calls, BeginFind(c) PROVE Inv'
  <1>1. call[c] # Idle /\ call[c] \in CallRecord /\ call[c].pc = "find" /\ Right(c)
    BY AtRecord DEF BeginFind
  <1>2. keys \subseteq Nat
    BY DEF Inv, AuthType
  <1>3. /\ call'[c].tok = call[c].tok /\ call'[c].good = call[c].good
        /\ call'[c].ctx = call[c].ctx /\ call'[c].second = call[c].second
        /\ call'[c].cause = call[c].cause /\ call'[c].raced = call[c].raced
        /\ call'[c] \in CallRecord /\ call' = [call EXCEPT ![c] = call'[c]]
        /\ UNCHANGED <<gen, keys, recent, users, crashed>>
        /\ call'[c].pc = "reading" /\ call'[c].got = keys
    BY <1>1, <1>2 DEF BeginFind, Set, Inv, AuthType, CallRecord, Deciding
  <1>4. Right(c)'
    BY <1>1, <1>3 DEF Right, TokenKnown, RightUser, RightKeys, NoExcuse, Published, Deciding
  <1> QED
    BY <1>1, <1>3, <1>4, OwnStep

LEMMA EndFindInv == ASSUME Inv, NEW c \in Calls, EndFind(c) PROVE Inv'
  <1>1. call[c] # Idle /\ call[c] \in CallRecord /\ call[c].pc = "reading" /\ Right(c)
    BY AtRecord DEF EndFind
  <1>2. UNCHANGED <<gen, keys, recent, users, crashed>>
    BY DEF EndFind
  <1>3. /\ call'[c].tok = call[c].tok /\ call'[c].ctx = call[c].ctx
        /\ call'[c].cause = call[c].cause /\ ~call'[c].raced
        /\ call'[c] \in CallRecord /\ call' = [call EXCEPT ![c] = call'[c]]
        /\ \/ call'[c].pc = "record" /\ call[c].tok.valid /\ call'[c].good
           \/ call'[c].pc = "handle" /\ ~call'[c].good /\ ~call[c].tok.valid
           \/ call'[c].pc = "fetch"
           \/ /\ call'[c].pc = "handle" /\ ~call'[c].good
              /\ call[c].raced \/ (call[c].second /\ call[c].tok.kid \notin call[c].got)
    <2>1. call \in [Calls -> {Idle} \cup CallRecord] /\ call[c].tok \in Token
      BY <1>1 DEF Inv, AuthType, Right, TokenKnown, Deciding
    <2>2. CASE Set(c, Verified(call[c]))
      BY <1>1, <2>1, <2>2 DEF Set, CallRecord, Deciding, Verified, Checked, Token
    <2>3. CASE Set(c, Missed(call[c])) /\ (call[c].tok.kid \notin call[c].got \/ call[c].raced)
      BY <1>1, <2>1, <2>3 DEF Set, CallRecord, Deciding, Missed, Checked
    <2>4. CASE Set(c, Checked(call[c], "handle", FALSE)) /\ call[c].raced
      BY <1>1, <2>1, <2>4 DEF Set, CallRecord, Deciding, Checked
    <2> QED
      BY <2>2, <2>3, <2>4 DEF EndFind
  <1>4. Right(c)'
    BY <1>1, <1>2, <1>3 DEF Right, TokenKnown, RightUser, RightKeys, NoExcuse, Published, Deciding
  <1> QED
    BY <1>1, <1>2, <1>3, <1>4, OwnStep

LEMMA HandleInv == ASSUME Inv, NEW c \in Calls, Handle(c) PROVE Inv'
  <1>1. call[c] # Idle /\ call[c] \in CallRecord /\ call[c].pc = "handle" /\ Right(c)
    BY AtRecord DEF Handle
  <1>2. Viewer(c) \in Users \cup {None}
    BY <1>1 DEF Viewer, Inv, AuthType, CallRecord
  <1>3. /\ call'[c].tok = call[c].tok /\ call'[c].good = call[c].good
        /\ call'[c].ctx = call[c].ctx
        /\ call'[c].cause = call[c].cause /\ call'[c].raced = call[c].raced
        /\ call'[c] \in CallRecord /\ call' = [call EXCEPT ![c] = call'[c]]
        /\ UNCHANGED <<gen, keys, recent, users, crashed>>
        /\ call'[c].pc = "sent" /\ call'[c].as = Viewer(c)
    BY <1>1, <1>2 DEF Handle, Set, Inv, AuthType, CallRecord, Deciding
  <1>4. Right(c)'
    BY <1>1, <1>3 DEF Right, TokenKnown, RightUser, RightKeys, NoExcuse, Published, Deciding, Viewer
  <1> QED
    BY <1>1, <1>3, <1>4, OwnStep

LEMMA SetUserInv == ASSUME Inv, NEW c \in Calls, SetUser(c) PROVE Inv'
  <1>1. call[c] # Idle /\ call[c] \in CallRecord /\ call[c].pc = "record" /\ Right(c)
    BY AtRecord DEF SetUser
  <1>2. call[c].tok \in Token /\ call[c].tok.user \in Users /\ call[c].ctx \in Ctxs
    BY <1>1 DEF Right, TokenKnown, Deciding, Token, CallRecord
  <1>3. /\ call'[c].tok = call[c].tok /\ call'[c].good = call[c].good
        /\ call'[c].ctx = call[c].ctx
        /\ call'[c].cause = call[c].cause /\ call'[c].raced = call[c].raced
        /\ call'[c] \in CallRecord /\ call' = [call EXCEPT ![c] = call'[c]]
        /\ UNCHANGED <<gen, keys, recent, crashed>>
        /\ call'[c].pc = "handle"
    BY <1>1 DEF SetUser, Set, Inv, AuthType, CallRecord, Deciding
  <1>4. /\ users' \in [Ctxs -> Users \cup {None}] /\ users'[call[c].ctx] = call[c].tok.user
        /\ \A x \in Ctxs : x # call[c].ctx => users'[x] = users[x]
    BY <1>2 DEF SetUser, Recorded, Inv, AuthType
  <1>5. Right(c)'
    <2>1. TokenKnown(call[c])'
      BY <1>1, <1>3 DEF Right, TokenKnown, Deciding
    <2>3. RightUser(call[c])'
      BY <1>1, <1>3, <1>4 DEF Right, RightUser
    <2>2. RightKeys(call[c])'
      BY <1>1, <1>3 DEF Right, RightUser, RightKeys, NoExcuse, Published
    <2> QED
      BY <2>1, <2>2, <2>3 DEF Right
  <1>6. \A d \in Calls : d # c /\ call[d] # Idle => call[d].ctx # call'[c].ctx
    BY <1>1, <1>3 DEF Inv, OwnContext
  <1> QED
    BY <1>3, <1>4, <1>5, <1>6, OneCall

LEMMA StoreInv == ASSUME Inv, NEW c \in Calls, Store(c) PROVE Inv'
  <1>1. call[c] # Idle /\ call[c] \in CallRecord /\ call[c].pc = "store" /\ Right(c)
    BY AtRecord DEF Store
  <1>2. UNCHANGED <<gen, users, crashed>> /\ keys' = call[c].got /\ recent' = TRUE
    BY DEF Store
  <1>3. /\ call'[c].tok = call[c].tok /\ call'[c].good = call[c].good
        /\ call'[c].ctx = call[c].ctx /\ call'[c].second = call[c].second
        /\ call'[c].cause = call[c].cause /\ call'[c].raced = call[c].raced
        /\ call'[c] \in CallRecord /\ call'[c].pc = "find"
    BY <1>1 DEF Store, CallRecord, Deciding
  <1>4. ASSUME NEW d \in Calls, d # c
        PROVE  call'[d] = IF Disturbs(call[d])
                          THEN [call[d] EXCEPT !.raced = (call[d].pc = "reading"), !.cause = TRUE]
                          ELSE call[d]
    BY <1>4 DEF Store
  <1>5. ASSUME NEW d \in Calls, d # c, call[d] = Idle
        PROVE  call'[d] = Idle
    BY <1>4, <1>5 DEF Disturbs, Idle
  <1>6. ASSUME NEW d \in Calls, d # c, call[d] # Idle
        PROVE  call'[d] \in CallRecord /\ call'[d].ctx = call[d].ctx /\ Right(d)'
    <2>1. call[d] \in CallRecord /\ Right(d)
      BY <1>6, UnderWay DEF Inv, CallsRight, Right
    <2>2. CASE ~Disturbs(call[d])
      <3>1. call'[d] = call[d]
        BY <1>4, <1>6, <2>2
      <3> QED
        BY <1>2, <2>1, <2>2, <3>1
           DEF Disturbs, Right, TokenKnown, RightUser, RightKeys, NoExcuse, Published
    <2>3. CASE Disturbs(call[d])
      <3>1. /\ call'[d].tok = call[d].tok /\ call'[d].good = call[d].good
            /\ call'[d].ctx = call[d].ctx /\ call'[d].pc = call[d].pc
            /\ call'[d] \in CallRecord
            /\ call'[d].cause /\ (call'[d].raced => call[d].pc = "reading")
        <4>1. CASE call[d].pc = "reading"
          <5>1. call'[d] = [call[d] EXCEPT !.raced = TRUE, !.cause = TRUE]
            BY <1>4, <1>6, <2>3, <4>1
          <5> QED
            BY <2>1, <4>1, <5>1 DEF CallRecord
        <4>2. CASE call[d].pc # "reading"
          <5>1. call'[d] = [call[d] EXCEPT !.raced = FALSE, !.cause = TRUE]
            BY <1>4, <1>6, <2>3, <4>2
          <5> QED
            BY <2>1, <4>2, <5>1 DEF CallRecord
        <4> QED
          BY <4>1, <4>2
      <3>3. TokenKnown(call[d])' /\ RightUser(call[d])'
        BY <1>2, <2>1, <2>3, <3>1 DEF Disturbs, Right, TokenKnown, RightUser
      <3>4. RightKeys(call[d])'
        BY <2>1, <2>3, <3>1 DEF Disturbs, RightKeys, NoExcuse
      <3> QED
        BY <3>1, <3>3, <3>4 DEF Right
    <2> QED
      BY <2>2, <2>3
  <1>7. Right(c)'
    BY <1>1, <1>2, <1>3 DEF Right, TokenKnown, RightUser, RightKeys, NoExcuse, Published, Deciding
  <1>8. AuthType'
    <2>1. \A d \in Calls : call'[d] \in {Idle} \cup CallRecord
      BY <1>3, <1>5, <1>6
    <2>2. call' = [d \in Calls |-> call'[d]]
      BY DEF Store
    <2>3. call[c].got \subseteq Nat
      BY <1>1 DEF CallRecord
    <2> QED
      BY <1>2, <2>1, <2>2, <2>3 DEF Inv, AuthType
  <1>9. OwnContext'
    BY <1>1, <1>3, <1>5, <1>6 DEF Inv, OwnContext
  <1> QED
    BY <1>5, <1>6, <1>7, <1>8, <1>9 DEF Inv, CallsRight, Right

LEMMA ReturnInv == ASSUME Inv, NEW c \in Calls, Return(c) PROVE Inv'
  <1>1. UNCHANGED <<gen, keys, recent, users, crashed>>
    BY DEF Return
  <1>2. call'[c] = Idle /\ \A d \in Calls : d # c => call'[d] = call[d]
    BY DEF Return, Set, Inv, AuthType
  <1>3. AuthType'
    BY <1>1 DEF Return, Set, Inv, AuthType
  <1>4. OwnContext'
    BY <1>2 DEF Inv, OwnContext
  <1>5. CallsRight'
    BY <1>1, <1>2 DEF Inv, CallsRight, TokenKnown, RightUser, RightKeys, NoExcuse, Published
  <1> QED
    BY <1>3, <1>4, <1>5 DEF Inv

\* A key that is published after a rotation and not newer than a token may
\* show was published before it.
LEMMA RotateInv == ASSUME Inv, Rotate PROVE Inv'
  <1>1. /\ UNCHANGED <<keys, recent, users, call, crashed>> /\ gen' = gen + 1
        /\ gen \in Nat /\ gen' \in 0 .. MaxRotations
    BY AuthAssumption DEF Rotate, Inv, AuthType
  <1>2. AuthType' /\ OwnContext'
    BY <1>1 DEF Inv, AuthType, OwnContext
  <1>3. ASSUME NEW c \in Calls, call[c] # Idle PROVE Right(c)'
    <2>1. call[c] \in CallRecord /\ Right(c)
      BY <1>3, UnderWay DEF Inv, CallsRight, Right
    <2>2. RightUser(call[c])'
      BY <1>1, <2>1 DEF Right, RightUser
    <2>3. TokenKnown(call[c])'
      BY <1>1, <2>1 DEF Right, TokenKnown, Token, Kids
    <2>4. ASSUME call[c].pc \in Deciding \/ call[c].tok # None, NoExcuse(call[c])'
          PROVE  NoExcuse(call[c])
      <3>1. call[c].tok.kid \in Nat /\ call[c].tok.kid <= gen + 1
        BY <2>1, <2>4, AuthAssumption DEF Right, TokenKnown, Token, Kids
      <3> QED
        BY <1>1, <2>4, <3>1 DEF NoExcuse, Published
    <2>5. RightKeys(call[c])'
      BY <1>1, <2>1, <2>4 DEF Right, RightKeys, Deciding
    <2> QED
      BY <2>2, <2>3, <2>5 DEF Right
  <1> QED
    BY <1>1, <1>2, <1>3 DEF Inv, CallsRight, Right

LEMMA NextInv == Inv /\ [Next]_vars => Inv'
  <1> SUFFICES ASSUME Inv, [Next]_vars PROVE Inv'
    OBVIOUS
  <1> USE DEF TokenKnown, RightUser, RightKeys, NoExcuse, Published
  <1>1. ASSUME NEW c \in Calls, Crash(c) PROVE Inv'
    BY <1>1 DEF Crash, Inv, AuthType, OwnContext, CallsRight
  <1>2. CASE Age
    BY <1>2 DEF Age, Inv, AuthType, OwnContext, CallsRight
  <1>3. CASE UNCHANGED vars
    BY <1>3 DEF vars, Inv, AuthType, OwnContext, CallsRight
  <1> QED
    BY <1>1, <1>2, <1>3, ArriveInv, FetchInv, StoreInv, BeginFindInv, EndFindInv, SetUserInv,
       HandleInv, ReturnInv, RotateInv DEF Next

LEMMA SpecInv == Spec => []Inv
  BY InitInv, NextInv, PTL DEF Spec

-----------------------------------------------------------------------------
\* A protected call answered OK carried a valid token and was served for the
\* user of that token: users_ never answers with the entry of an earlier or
\* a concurrent call, for any number of calls and contexts.
THEOREM OkIsForTokenUserHolds == Spec => []OkIsForTokenUser
  <1>1. Inv => OkIsForTokenUser
    BY UnderWay DEF Inv, CallsRight, RightUser, OkIsForTokenUser
  <1> QED
    BY SpecInv, <1>1, PTL

\* A valid token under a published key is refused only after a failed second
\* fetch or a replacement of the keys by another call.
THEOREM RefusedHasCauseHolds == Spec => []RefusedHasCause
  <1>1. Inv => RefusedHasCause
    BY UnderWay DEF Inv, CallsRight, RightKeys, NoExcuse, RefusedHasCause
  <1> QED
    BY SpecInv, <1>1, PTL
=============================================================================
