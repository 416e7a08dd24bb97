-------------------------------- MODULE Auth --------------------------------
(***************************************************************************)
(* The authentication of a call: AuthInterceptor and the table of users by *)
(* context (backend/src/middlewares/authMiddle.cpp), and JwtValidator with *)
(* its copy of the keys Google publishes (backend/src/jwt/validator.cpp).  *)
(*                                                                         *)
(* Calls run on the threads of the gRPC server.  keys_ is replaced under   *)
(* mutex_ but read without it: a read that a replacement overlaps may find *)
(* the key, miss it, return a torn one, or end the process.  The address   *)
(* of a context is used again by later calls; users_ keeps its entries.    *)
(***************************************************************************)
EXTENDS Naturals

CONSTANTS
    Calls,          \* calls served at once
    Ctxs,           \* addresses of server contexts
    Users, None,
    MaxRotations    \* bound on the rotations of Google's keys

ASSUME AuthAssumption == None \notin Users /\ MaxRotations \in Nat

VARIABLES
    gen,        \* Google's rotations so far
    keys,       \* keys_: the key ids the validator knows
    recent,     \* lastFetch_ is less than KEY_TTL_SECONDS ago
    users,      \* users_: the user of each context
    call,       \* the calls being served
    crashed

vars == <<gen, keys, recent, users, call, crashed>>

\* Google publishes the key it signs with and the next one.
Kids == 0 .. MaxRotations + 1
Published == {gen, gen + 1}

\* A token, as its header and payload show it; valid: signed under its key
\* id, of Google's issuer, and not expired.
Token == [user : Users, kid : Kids, valid : BOOLEAN]

Idle == [pc |-> "idle"]

\* A call: the token it carries; got: the answer of its fetch, or the keys its
\* search goes over; cause: what may excuse a refusal (history); good:
\* token_valid_; as: the user its handler served.
NewCall(pc, x, t, good) ==
    [pc |-> pc, ctx |-> x, tok |-> t, good |-> good, second |-> FALSE,
     got |-> {}, cause |-> FALSE, raced |-> FALSE, as |-> None]

Init ==
    /\ gen = 0 /\ keys = {} /\ recent = FALSE
    /\ users = [x \in Ctxs |-> None]
    /\ call = [c \in Calls |-> Idle]
    /\ crashed = FALSE

-----------------------------------------------------------------------------
At(c, pc) == ~crashed /\ call[c].pc = pc
Set(c, r) == call' = [call EXCEPT ![c] = r]
Arrives(c, x) == At(c, "idle") /\ \A d \in Calls : call[d] # Idle => call[d].ctx # x

\* A call of a public method, or a protected one without a token: validateToken
\* returns at once, and the handler runs in both cases.
Unchecked(c, x, public) ==
    /\ Arrives(c, x)
    /\ Set(c, NewCall("handle", x, None, public))
    /\ UNCHANGED <<gen, keys, recent, users, crashed>>

\* A protected call with a token, signed with any key up to now; needsRefresh
\* decides whether the keys are fetched first.
Protected(c, x, t) ==
    /\ Arrives(c, x)
    /\ t.kid <= gen + 1
    /\ Set(c, NewCall(IF recent THEN "find" ELSE "fetch", x, t, TRUE))
    /\ UNCHANGED <<gen, keys, recent, users, crashed>>

\* fetchGoogleKeys: the answer, or its failure, which leaves keys_ alone.
Fetch(c) ==
    /\ At(c, "fetch")
    /\ \/ Set(c, [call[c] EXCEPT !.pc = "store", !.got = Published])
       \/ Set(c, [call[c] EXCEPT !.pc = "find", !.cause = call[c].second])
    /\ UNCHANGED <<gen, keys, recent, users, crashed>>

\* Is a call in a search, or past its second fetch and about to begin one?
Disturbs(r) == r.pc = "reading" \/ (r.pc = "find" /\ r.second)

\* fetchGoogleKeys: keys_ and lastFetch_ are replaced, by an answer that may
\* be older than the present keys.  It disturbs the searches it overlaps, and
\* those that are about to follow a second fetch.
Store(c) ==
    /\ At(c, "store")
    /\ keys' = call[c].got
    /\ recent' = TRUE
    /\ call' = [d \in Calls |->
                 IF d = c THEN [call[c] EXCEPT !.pc = "find", !.got = {}]
                 ELSE IF Disturbs(call[d])
                 THEN [call[d] EXCEPT !.raced = (call[d].pc = "reading"), !.cause = TRUE]
                 ELSE call[d]]
    /\ UNCHANGED <<gen, users, crashed>>

\* findKey begins to go over keys_ ...
BeginFind(c) ==
    /\ At(c, "find")
    /\ Set(c, [call[c] EXCEPT !.pc = "reading", !.got = keys])
    /\ UNCHANGED <<gen, keys, recent, users, crashed>>

Checked(r, pc, good) == [r EXCEPT !.pc = pc, !.good = good, !.got = {}, !.raced = FALSE]

\* Mutant of Missed: a miss is final.
MutMissed(r) == Checked(r, "handle", FALSE)

\* A first miss is followed by one more fetch, a second one is final.
Missed(r) == IF r.second THEN Checked(r, "handle", FALSE)
             ELSE [Checked(r, "fetch", TRUE) EXCEPT !.second = TRUE]

\* verifySignature, the issuer and the expiry, with the key found.
Verified(r) == Checked(r, IF r.tok.valid THEN "record" ELSE "handle", r.tok.valid)

\* ... and has found the key, or missed it, or found a torn one.
EndFind(c) ==
    /\ At(c, "reading")
    /\ LET r == call[c]
           found == r.tok.kid \in r.got
       IN  \/ (found \/ (r.raced /\ r.tok.kid \in keys)) /\ Set(c, Verified(r))
           \/ (~found \/ r.raced) /\ Set(c, Missed(r))
           \/ r.raced /\ Set(c, Checked(r, "handle", FALSE))
    /\ UNCHANGED <<gen, keys, recent, users, crashed>>

\* The search follows a pointer of the replaced vector.
Crash(c) ==
    /\ At(c, "reading") /\ call[c].raced
    /\ crashed' = TRUE
    /\ UNCHANGED <<gen, keys, recent, users, call>>

\* Mutant of Recorded: an entry of an earlier call is kept.
MutRecorded(x, u) == IF users[x] = None THEN u ELSE users[x]

\* users_[context] = user
Recorded(x, u) == u

\* SetUser with the user of the token.
SetUser(c) ==
    /\ At(c, "record")
    /\ users' = [users EXCEPT ![call[c].ctx] = Recorded(call[c].ctx, call[c].tok.user)]
    /\ Set(c, [call[c] EXCEPT !.pc = "handle"])
    /\ UNCHANGED <<gen, keys, recent, crashed>>

\* GetUser: the entry of the context, which may be of an earlier call when
\* this one has set none.
Viewer(c) == users[call[c].ctx]

\* The handler runs for the user GetUser finds; PRE_SEND_STATUS turns its
\* answer into UNAUTHENTICATED if the token was refused.
Handle(c) ==
    /\ At(c, "handle")
    /\ Set(c, [call[c] EXCEPT !.pc = "sent", !.as = Viewer(c)])
    /\ UNCHANGED <<gen, keys, recent, users, crashed>>

\* The call ends; the entry of its context stays.
Return(c) ==
    /\ At(c, "sent")
    /\ Set(c, Idle)
    /\ UNCHANGED <<gen, keys, recent, users, crashed>>

\* KEY_TTL_SECONDS go by.
Age ==
    /\ ~crashed /\ recent /\ recent' = FALSE
    /\ UNCHANGED <<gen, keys, users, call, crashed>>

Rotate ==
    /\ ~crashed /\ gen < MaxRotations /\ gen' = gen + 1
    /\ UNCHANGED <<keys, recent, users, call, crashed>>

Next ==
    \/ \E c \in Calls, x \in Ctxs : \/ \E public \in BOOLEAN : Unchecked(c, x, public)
                                    \/ \E t \in Token : Protected(c, x, t)
    \/ \E c \in Calls : \/ Fetch(c) \/ Store(c) \/ BeginFind(c) \/ EndFind(c) \/ Crash(c)
                        \/ SetUser(c) \/ Handle(c) \/ Return(c)
    \/ Age \/ Rotate

Spec == Init /\ [][Next]_vars

-----------------------------------------------------------------------------
\* A protected call that is answered OK carried a valid token and was served
\* for the user of that token, although its context may have the entry of an
\* earlier call (users_) and other calls are being validated.
OkIsForTokenUser ==
    \A c \in Calls :
        LET r == call[c]
        IN  r.pc = "sent" /\ r.good /\ r.tok # None => r.tok.valid /\ r.as = r.tok.user

\* A valid token whose key Google publishes is refused (validateToken) only
\* because the second fetch failed, or another call replaced the keys during
\* the search or between this call's second fetch and its search: a rotation
\* alone, or keys that are out of date, refuse nobody.
RefusedHasCause ==
    \A c \in Calls :
        LET r == call[c]
        IN  r.pc = "sent" /\ ~r.good /\ r.tok # None =>
                ~r.tok.valid \/ r.cause \/ r.tok.kid \notin Published
=============================================================================
