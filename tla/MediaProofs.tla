----------------------------- MODULE MediaProofs -----------------------------
(***************************************************************************)
(* Proofs about Media for any files, keys, posts, clients and handlers.    *)
(***************************************************************************)
EXTENDS Media, TLAPS

Url == [key : Keys, wraps : {1, 2}]

ClientState ==
    {Idle} \cup [pc : {"check"}, file : Files, aborted : BOOLEAN] \cup [pc : {"upload"}, file : Files]
    \cup [pc : {"register"}, file : Files, url : Url] \cup [pc : {"ready"}, url : Url, sent : BOOLEAN]
HandlerState ==
    {Idle} \cup [pc : {"delete"}, post : Posts, url : Url]
    \cup [pc : {"lookup", "unregister", "enqueue"}, url : Url]

MediaType ==
    /\ objects \subseteq used /\ used \subseteq Keys /\ tasks \subseteq used
    /\ rows \in [Files -> used \cup {Nothing}]
    /\ born \subseteq Posts /\ DOMAIN posts \subseteq born
    /\ posts = [p \in DOMAIN posts |-> posts[p]] /\ \A p \in DOMAIN posts : posts[p] \in Url
    /\ client \in [Clients -> ClientState] /\ handler \in [Handlers -> HandlerState]
    /\ delayed \subseteq [file : Files, key : used]

\* Who has the URL that upload answered with for key k, and what for.
Has(c, k) == client[c].pc \in {"register", "ready"} /\ client[c].url = ServeUrl(k)
Unsent(c, k) == Has(c, k) /\ (client[c].pc = "ready" => client[c].sent = FALSE)
Registers(c, k) == client[c].pc = "register" /\ client[c].url = ServeUrl(k)
Shows(p, k) == p \in DOMAIN posts /\ posts[p] = ServeUrl(k)
Selected(h, k) == handler[h].pc = "delete" /\ handler[h].url = ServeUrl(k)
Removes(h, k) == handler[h].pc \in {"lookup", "unregister", "enqueue"} /\ handler[h].url = ServeUrl(k)
Unregisters(h, k) == handler[h].pc = "unregister" /\ handler[h].url = ServeUrl(k)
Enqueues(h, k) == handler[h].pc = "enqueue" /\ handler[h].url = ServeUrl(k)

RowFor(k) == \E f \in Files : rows[f] = k
Late(k) == \E r \in delayed : r.key = k

\* The row of k is yet to be written, by its client or late.
Unwritten(k) == Late(k) \/ \E c \in Clients : Registers(c, k)

\* The object of k is gone, or about to go.
Doomed(k) == k \in tasks \/ k \in used \ objects \/ \E h \in Handlers : Enqueues(h, k)

\* Only keys that were handed out are known to anybody.
OnlyUsed(k) ==
    k \notin used =>
        /\ \A c \in Clients : ~Has(c, k)
        /\ \A h \in Handlers : ~Selected(h, k) /\ ~Removes(h, k)
        /\ \A p \in Posts : ~Shows(p, k)

\* The URL of an upload is with one client, its row is written once ...
Once(k) ==
    /\ \A c, d \in Clients : Has(c, k) /\ Has(d, k) => c = d
    /\ \A r, s \in delayed : r.key = k /\ s.key = k => r = s
    /\ \A c \in Clients : ~(Registers(c, k) /\ Late(k))

\* ... and before that nothing is deleted.
Pending(k) == Unwritten(k) => ~RowFor(k) /\ ~Doomed(k) /\ \A h \in Handlers : ~Unregisters(h, k)

\* The row goes before the object.
RowFirst(k) == Doomed(k) /\ RowFor(k) => k \in stuck

\* Unless two posts were made of one upload, at most one live post has its
\* URL, none before its form is submitted, and the clean-up begins when that
\* post is gone.
OnePost(k) ==
    ServeUrl(k) \notin shared =>
        /\ \A c \in Clients : Unsent(c, k) =>
             /\ ~Doomed(k) /\ \A p \in Posts : ~Shows(p, k)
             /\ \A h \in Handlers : ~Selected(h, k) /\ ~Removes(h, k)
        /\ \A p, q \in Posts : Shows(p, k) /\ Shows(q, k) => p = q
        /\ \A h \in Handlers, p \in Posts : Shows(p, k) =>
             (Selected(h, k) => p = handler[h].post) /\ ~Removes(h, k)
        /\ Doomed(k) => \A p \in Posts : ~Shows(p, k)

\* An object that did not leak has a row, or is on the way to one or from one.
Kept(k) ==
    k \in objects \ leaked =>
        \/ \E c \in Clients : Registers(c, k)
        \/ RowFor(k) \/ k \in tasks
        \/ \E h \in Handlers : Enqueues(h, k)

\* A client registers the URL of an upload, and a handler that deletes a row
\* found it by such a URL.
Found ==
    /\ \A c \in Clients : client[c].pc = "register" => client[c].url.wraps = 1
    /\ \A h \in Handlers : handler[h].pc \in {"unregister", "enqueue"} => handler[h].url.wraps = 1

KeyInv(k) == OnlyUsed(k) /\ Once(k) /\ Pending(k) /\ RowFirst(k) /\ OnePost(k) /\ Kept(k)

Inv == MediaType /\ Found /\ \A k \in Keys : KeyInv(k)

-----------------------------------------------------------------------------
\* A URL of one wrap is the one upload answers with.
LEMMA UrlOfUpload ==
    /\ \A k \in Keys : ServeUrl(k) \in Url /\ ServeUrl(k).key = k /\ ServeUrl(k).wraps = 1
    /\ \A u \in Url : u.wraps = 1 => u = ServeUrl(u.key)
    /\ \A k \in Keys : CheckUrl(ServeUrl(k)) \in Url /\ CheckUrl(ServeUrl(k)).wraps = 2
  BY DEF ServeUrl, Url, CheckUrl

LEMMA InitInv == Init => Inv
  <1> SUFFICES ASSUME Init PROVE Inv
    OBVIOUS
  <1>1. \A c \in Clients : client[c].pc = "idle"
    BY DEF Init, Idle
  <1>2. \A h \in Handlers : handler[h].pc = "idle"
    BY DEF Init, Idle
  <1>3. MediaType
    BY DEF Init, MediaType, ClientState, HandlerState
  <1>4. Found
    BY <1>1, <1>2 DEF Found
  <1>5. ASSUME NEW k \in Keys PROVE KeyInv(k)
    <2>1. /\ \A c \in Clients : ~Has(c, k) /\ ~Registers(c, k)
          /\ \A h \in Handlers : ~Selected(h, k) /\ ~Removes(h, k) /\ ~Enqueues(h, k)
          /\ \A p \in Posts : ~Shows(p, k)
          /\ ~Late(k) /\ k \notin used /\ k \notin objects /\ k \notin tasks /\ delayed = {}
      BY <1>1, <1>2 DEF Init, Has, Registers, Selected, Removes, Enqueues, Shows, Late
    <2> QED
      BY <2>1 DEF KeyInv, OnlyUsed, Once, Pending, Unwritten, RowFirst, Doomed, OnePost, Kept
  <1> QED
    BY <1>3, <1>4, <1>5 DEF Inv

-----------------------------------------------------------------------------
\* A step of a client that writes nothing else, sends no registration and
\* gets no URL of an upload.
LEMMA ClientStep ==
    ASSUME Inv, NEW c \in Clients,
           UNCHANGED <<objects, rows, posts, tasks, handler, delayed, fresh, leaked, stuck, shared>>,
           client' = [client EXCEPT ![c] = client'[c]], client'[c] \in ClientState,
           client[c].pc # "register", client'[c].pc # "register",
           client'[c].pc = "ready" => client'[c].url.wraps = 2
    PROVE  Inv'
  <1>1. \A d \in Clients : d # c => client'[d] = client[d]
    BY DEF Inv, MediaType
  <1>2. MediaType' /\ Found'
    BY <1>1 DEF Inv, MediaType, Found, fresh
  <1>3. ASSUME NEW k \in Keys PROVE KeyInv(k)'
    <2>1. /\ \A d \in Clients : (Has(d, k)' => Has(d, k)) /\ (Unsent(d, k)' => Unsent(d, k))
          /\ \A d \in Clients : Registers(d, k)' <=> Registers(d, k)
      BY <1>1, UrlOfUpload DEF Has, Registers, Unsent
    <2>2. /\ \A h \in Handlers : /\ Selected(h, k)' <=> Selected(h, k)
                                 /\ Removes(h, k)' <=> Removes(h, k)
                                 /\ Unregisters(h, k)' <=> Unregisters(h, k)
                                 /\ Enqueues(h, k)' <=> Enqueues(h, k)
          /\ \A p \in Posts : Shows(p, k)' <=> Shows(p, k)
          /\ RowFor(k)' <=> RowFor(k)
          /\ Late(k)' <=> Late(k)
      BY DEF Selected, Removes, Unregisters, Enqueues, Shows, RowFor, Late
    <2>3. (Doomed(k)' <=> Doomed(k)) /\ (Unwritten(k)' <=> Unwritten(k))
      BY <2>1, <2>2 DEF Doomed, Unwritten, fresh
    <2>4. KeyInv(k)
      BY DEF Inv
    <2> QED
      BY <2>1, <2>2, <2>3, <2>4 DEF KeyInv, OnlyUsed, Once, Pending, RowFirst, OnePost, Kept, fresh
  <1> QED
    BY <1>2, <1>3 DEF Inv

\* What client c may do while it has no URL, or an unserved one.
LEMMA QuietClientStep ==
    ASSUME Inv, NEW c \in Clients,
           \/ \E f \in Files : StartUpload(c, f)
           \/ Abort(c) \/ Check(c) \/ UploadRefused(c) \/ Discard(c)
    PROVE  Inv'
  <1>1. client \in [Clients -> ClientState] /\ rows \in [Files -> used \cup {Nothing}] /\ used \subseteq Keys
    BY DEF Inv, MediaType
  <1>2. CASE \E f \in Files : StartUpload(c, f)
    <2>1. PICK f \in Files : StartUpload(c, f)
      BY <1>2
    <2> DEFINE s == [pc |-> "check", file |-> f, aborted |-> FALSE]
    <2>2. s \in ClientState /\ s.pc = "check"
      BY DEF ClientState
    <2>3. client' = [client EXCEPT ![c] = s] /\ client'[c] = s
      BY <1>1, <2>1 DEF StartUpload, Client
    <2> HIDE DEF s
    <2> QED
      BY <2>1, <2>2, <2>3, ClientStep DEF StartUpload, Is
  <1>3. CASE Abort(c)
    <2>1. client[c] \in [pc : {"check"}, file : Files, aborted : BOOLEAN]
      BY <1>1, <1>3 DEF Abort, Is, ClientState, Idle
    <2> DEFINE s == [client[c] EXCEPT !.aborted = TRUE]
    <2>2. s \in ClientState /\ s.pc = "check"
      BY <2>1 DEF ClientState
    <2>3. client' = [client EXCEPT ![c] = s] /\ client'[c] = s
      BY <1>1, <1>3 DEF Abort
    <2> QED
      BY <1>3, <2>2, <2>3, ClientStep DEF Abort, Is
  <1>4. CASE Check(c)
    <2>1. client[c] \in [pc : {"check"}, file : Files, aborted : BOOLEAN]
      BY <1>1, <1>4 DEF Check, Is, ClientState, Idle
    <2>2. PICK f \in Files : f = client[c].file
      BY <2>1
    <2>3. PICK s : /\ client' = [client EXCEPT ![c] = s]
                   /\ \/ rows[f] # Nothing /\ s = [pc |-> "ready", url |-> CheckUrl(ServeUrl(rows[f])), sent |-> FALSE]
                      \/ s = Idle
                      \/ s = [pc |-> "upload", file |-> f]
      BY <1>4, <2>2 DEF Check, Client
    <2>4. rows[f] # Nothing => rows[f] \in Keys
      BY <1>1
    <2>5. s \in ClientState /\ s.pc # "register" /\ (s.pc = "ready" => s.url.wraps = 2)
      <3>1. CASE rows[f] # Nothing /\ s = [pc |-> "ready", url |-> CheckUrl(ServeUrl(rows[f])), sent |-> FALSE]
        <4>1. PICK url \in Url : url = CheckUrl(ServeUrl(rows[f])) /\ url.wraps = 2
          BY <2>4, <3>1, UrlOfUpload
        <4>2. s = [pc |-> "ready", url |-> url, sent |-> FALSE]
          BY <3>1, <4>1
        <4> QED
          BY <4>1, <4>2 DEF ClientState
      <3>2. CASE s = Idle \/ s = [pc |-> "upload", file |-> f]
        BY <3>2 DEF ClientState, Idle
      <3> QED
        BY <2>3, <3>1, <3>2
    <2>6. client'[c] = s
      BY <1>1, <2>3
    <2> QED
      BY <1>4, <2>1, <2>3, <2>5, <2>6, ClientStep DEF Check, Is
  <1>5. CASE UploadRefused(c) \/ Discard(c)
    <2>1. client' = [client EXCEPT ![c] = Idle] /\ client'[c] = Idle
      BY <1>1, <1>5 DEF UploadRefused, Discard, Client
    <2>2. Idle \in ClientState /\ Idle.pc = "idle"
      BY DEF ClientState, Idle
    <2>3. client[c].pc # "register"
      BY <1>5 DEF UploadRefused, Discard, Is
    <2> QED
      BY <1>5, <2>1, <2>2, <2>3, ClientStep DEF UploadRefused, Discard
  <1> QED
    BY <1>2, <1>3, <1>4, <1>5

\* A new key is known to nobody.
LEMMA UploadInv == ASSUME Inv, NEW c \in Clients, Upload(c) PROVE Inv'
  <1>1. MediaType /\ Found
    BY DEF Inv
  <1>2. PICK n \in Keys : n = New(Keys, used) /\ n \notin used
    BY <1>1 DEF Upload, New, MediaType
  <1>3. /\ used' = used \cup {n} /\ objects' = objects \cup {n}
        /\ UNCHANGED <<rows, posts, tasks, handler, delayed, born, stuck, shared>>
    BY <1>2 DEF Upload
  <1>4. client[c] \in [pc : {"upload"}, file : Files]
    BY <1>1 DEF Upload, Is, MediaType, ClientState, Idle
  <1>5. \/ /\ client' = [client EXCEPT ![c] = [pc |-> "register", file |-> client[c].file, url |-> ServeUrl(n)]]
           /\ leaked' = leaked
        \/ client' = [client EXCEPT ![c] = Idle] /\ leaked' = leaked \cup {n}
    BY <1>2 DEF Upload, Client
  <1>6. \A d \in Clients : d # c => client'[d] = client[d]
    BY <1>1, <1>5 DEF MediaType
  <1>7. \/ client'[c] = [pc |-> "register", file |-> client[c].file, url |-> ServeUrl(n)] /\ leaked' = leaked
        \/ client'[c] = Idle /\ leaked' = leaked \cup {n}
    BY <1>1, <1>5 DEF MediaType
  <1>8. MediaType'
    <2>1. client'[c] \in ClientState
      BY <1>4, <1>7, UrlOfUpload DEF ClientState
    <2>2. client' \in [Clients -> ClientState]
      BY <1>1, <1>5, <1>7, <2>1 DEF MediaType
    <2> QED
      BY <1>1, <1>2, <1>3, <2>2 DEF MediaType
  <1>9. Found'
    BY <1>1, <1>3, <1>6, <1>7, UrlOfUpload DEF Found, Idle
  <1>10. ASSUME NEW k \in Keys PROVE KeyInv(k)'
    <2>1. KeyInv(k)
      BY DEF Inv
    <2>2. /\ \A h \in Handlers : /\ Selected(h, k)' <=> Selected(h, k)
                                 /\ Removes(h, k)' <=> Removes(h, k)
                                 /\ Unregisters(h, k)' <=> Unregisters(h, k)
                                 /\ Enqueues(h, k)' <=> Enqueues(h, k)
          /\ \A p \in Posts : Shows(p, k)' <=> Shows(p, k)
          /\ RowFor(k)' <=> RowFor(k)
          /\ Late(k)' <=> Late(k)
      BY <1>3 DEF Selected, Removes, Unregisters, Enqueues, Shows, RowFor, Late
    <2>3. ~Has(c, k) /\ ~Registers(c, k)
      BY <1>4 DEF Has, Registers
    <2>4. \A d \in Clients : d # c => /\ Has(d, k)' <=> Has(d, k)
                                      /\ Registers(d, k)' <=> Registers(d, k)
                                      /\ Unsent(d, k)' <=> Unsent(d, k)
      BY <1>6 DEF Has, Registers, Unsent
    <2>5. CASE k = n
      <3>1. ~RowFor(k) /\ ~Late(k) /\ k \notin tasks /\ k \notin objects
        BY <1>1, <1>2, <2>5, MediaAssumption DEF MediaType, RowFor, Late
      <3>2. /\ \A d \in Clients : ~Has(d, k) /\ ~Registers(d, k)
            /\ \A h \in Handlers : ~Selected(h, k) /\ ~Removes(h, k) /\ ~Enqueues(h, k) /\ ~Unregisters(h, k)
            /\ \A p \in Posts : ~Shows(p, k)
        BY <1>2, <2>1, <2>5 DEF KeyInv, OnlyUsed, Has, Registers, Removes, Enqueues, Unregisters
      <3>3. ~Doomed(k)'
        BY <1>3, <2>2, <2>5, <3>1, <3>2 DEF Doomed
      <3>4. Registers(c, k)' \/ k \in leaked'
        BY <1>7, <2>5 DEF Registers
      <3>5. Once(k)'
        BY <1>3, <2>2, <2>4, <3>1, <3>2 DEF Once, Late
      <3>6. k \in used'
        BY <1>3, <2>5
      <3> QED
        BY <2>2, <2>4, <3>1, <3>2, <3>3, <3>4, <3>5, <3>6
        DEF KeyInv, OnlyUsed, Pending, RowFirst, OnePost, Kept
    <2>6. CASE k # n
      <3>1. ~Has(c, k)' /\ ~Registers(c, k)'
        BY <1>7, <2>6, UrlOfUpload DEF Has, Registers, Idle
      <3>2. (Doomed(k)' <=> Doomed(k)) /\ (Unwritten(k)' <=> Unwritten(k))
        BY <1>3, <2>2, <2>3, <2>4, <2>6, <3>1 DEF Doomed, Unwritten
      <3>3. (k \in used' <=> k \in used) /\ (k \in objects' <=> k \in objects) /\ (k \in leaked' <=> k \in leaked)
        BY <1>3, <1>7, <2>6
      <3>4. \A d \in Clients : /\ Has(d, k)' <=> Has(d, k)
                               /\ Registers(d, k)' <=> Registers(d, k)
                               /\ Unsent(d, k)' => Unsent(d, k)
        BY <2>3, <2>4, <3>1 DEF Unsent
      <3> QED
        BY <1>3, <2>1, <2>2, <3>2, <3>3, <3>4 DEF KeyInv, OnlyUsed, Once, Pending, RowFirst, OnePost, Kept
    <2> QED
      BY <2>5, <2>6
  <1> QED
    BY <1>8, <1>9, <1>10 DEF Inv

\* The row of file f gets key n, which was to be written: the key that is
\* replaced leaks, and the object of n is there to stay until the row goes.
LEMMA WriteRow ==
    ASSUME Inv, NEW f \in Files, NEW n \in used, SetRow(f, n), Unwritten(n),
           UNCHANGED <<objects, posts, tasks, handler, fresh, stuck, shared>>,
           client' \in [Clients -> ClientState], delayed' \subseteq delayed,
           \A k \in Keys, d \in Clients :
             /\ Has(d, k)' <=> Has(d, k)
             /\ Unsent(d, k)' => Unsent(d, k)
             /\ k # n => (Registers(d, k)' <=> Registers(d, k)),
           \A d \in Clients : client'[d].pc = "register" => client'[d] = client[d],
           \A k \in Keys : k # n => (Late(k)' <=> Late(k)),
           ~Unwritten(n)'
    PROVE  Inv'
  <1>1. MediaType /\ Found
    BY DEF Inv
  <1>2. rows' = [rows EXCEPT ![f] = n] /\ leaked' = (leaked \cup ({rows[f]} \ {Nothing})) \ {n}
    BY DEF SetRow
  <1>3. rows'[f] = n /\ \A g \in Files : g # f => rows'[g] = rows[g]
    BY <1>1, <1>2 DEF MediaType
  <1>4. MediaType'
    <2>1. rows' \in [Files -> used \cup {Nothing}]
      BY <1>1, <1>2 DEF MediaType
    <2> QED
      BY <1>1, <2>1 DEF MediaType, fresh
  <1>5. Found'
    BY <1>1 DEF Found, fresh
  <1>6. ASSUME NEW k \in Keys PROVE KeyInv(k)'
    <2>1. KeyInv(k) /\ KeyInv(n)
      BY <1>1 DEF Inv, MediaType
    <2>2. /\ \A h \in Handlers : /\ Selected(h, k)' <=> Selected(h, k)
                                 /\ Removes(h, k)' <=> Removes(h, k)
                                 /\ Unregisters(h, k)' <=> Unregisters(h, k)
                                 /\ Enqueues(h, k)' <=> Enqueues(h, k)
          /\ \A p \in Posts : Shows(p, k)' <=> Shows(p, k)
      BY DEF Selected, Removes, Unregisters, Enqueues, Shows
    <2>3. Doomed(k)' <=> Doomed(k)
      BY <2>2 DEF Doomed, fresh
    <2>4. OnlyUsed(k)' /\ OnePost(k)'
      BY <2>1, <2>2, <2>3 DEF KeyInv, OnlyUsed, OnePost, fresh
    <2>5. CASE k = n
      <3>1. RowFor(k)' /\ ~Doomed(k) /\ ~Unwritten(k)'
        BY <1>3, <2>1, <2>5 DEF RowFor, KeyInv, Pending
      <3>2. Once(k)'
        <4>1. \A r \in delayed' : r.key # k
          BY <3>1 DEF Unwritten, Late
        <4>2. \A d \in Clients : ~Registers(d, k)'
          BY <3>1 DEF Unwritten
        <4> QED
          BY <2>1, <4>1, <4>2 DEF KeyInv, Once
      <3> QED
        BY <2>3, <2>4, <3>1, <3>2 DEF KeyInv, Pending, RowFirst, Kept
    <2>6. CASE k # n
      <3>1. RowFor(k)' => RowFor(k)
        BY <1>3, <2>6 DEF RowFor
      <3>2. Unwritten(k)' <=> Unwritten(k)
        BY <2>6 DEF Unwritten
      <3>3. Once(k)'
        BY <2>1, <2>6 DEF KeyInv, Once
      <3>4. Pending(k)' /\ RowFirst(k)'
        BY <2>1, <2>2, <2>3, <3>1, <3>2 DEF KeyInv, Pending, RowFirst
      <3>5. k \in objects' \ leaked' /\ RowFor(k) => RowFor(k)'
        <4> SUFFICES ASSUME k \notin leaked', NEW g \in Files, rows[g] = k PROVE RowFor(k)'
          BY DEF RowFor
        <4>1. g # f
          BY <1>2, <2>6, MediaAssumption
        <4> QED
          BY <1>3, <4>1 DEF RowFor
      <3>6. k \in leaked => k \in leaked'
        BY <1>2, <2>6
      <3>7. Kept(k)'
        BY <2>1, <2>2, <2>6, <3>5, <3>6 DEF KeyInv, Kept
      <3> QED
        BY <2>4, <3>3, <3>4, <3>7 DEF KeyInv
    <2> QED
      BY <2>5, <2>6
  <1> QED
    BY <1>4, <1>5, <1>6 DEF Inv

LEMMA RegisterInv == ASSUME Inv, NEW c \in Clients, Register(c) PROVE Inv'
  <1>1. MediaType /\ Found
    BY DEF Inv
  <1>2. client[c] \in [pc : {"register"}, file : Files, url : Url]
    BY <1>1 DEF Register, Is, MediaType, ClientState, Idle
  <1>3. PICK f \in Files, n \in Keys : f = client[c].file /\ n = client[c].url.key
    BY <1>2 DEF Url
  <1>4. client[c].url = ServeUrl(n)
    BY <1>1, <1>2, <1>3, UrlOfUpload DEF Found
  <1>5. Registers(c, n) /\ Has(c, n) /\ \A k \in Keys : Has(c, k) => k = n
    BY <1>2, <1>4, UrlOfUpload DEF Registers, Has
  <1>6. KeyInv(n) /\ n \in used /\ Unwritten(n)
    BY <1>5 DEF Inv, KeyInv, OnlyUsed, Unwritten
  <1>7. /\ client' = [client EXCEPT ![c] = [pc |-> "ready", url |-> client[c].url, sent |-> FALSE]]
        /\ UNCHANGED <<objects, posts, tasks, handler, fresh, stuck, shared>>
    BY DEF Register, Client
  <1>8. /\ client'[c] = [pc |-> "ready", url |-> client[c].url, sent |-> FALSE]
        /\ \A d \in Clients : d # c => client'[d] = client[d]
    BY <1>1, <1>7 DEF MediaType
  <1>9. client' \in [Clients -> ClientState]
    <2>1. [pc |-> "ready", url |-> client[c].url, sent |-> FALSE] \in ClientState
      BY <1>2 DEF ClientState
    <2> QED
      BY <1>1, <1>7, <2>1 DEF MediaType
  <1>10. \A k \in Keys, d \in Clients :
           /\ Has(d, k)' <=> Has(d, k)
           /\ Unsent(d, k)' => Unsent(d, k)
           /\ d # c => (Registers(d, k)' <=> Registers(d, k))
           /\ ~Registers(c, k)'
           /\ Registers(c, k) <=> k = n
    BY <1>2, <1>5, <1>8 DEF Has, Registers, Unsent
  <1>11. \A d \in Clients : client'[d].pc = "register" => client'[d] = client[d]
    BY <1>8
  <1>12. \A d \in Clients : ~Registers(d, n)'
    <2> SUFFICES ASSUME NEW d \in Clients, Registers(d, n)' PROVE FALSE
      OBVIOUS
    <2>1. d # c /\ Registers(d, n)
      BY <1>10
    <2> QED
      BY <1>5, <1>6, <2>1 DEF KeyInv, Once, Has, Registers
  <1>13. CASE SetRow(f, n) /\ UNCHANGED delayed
    <2>1. ~Unwritten(n)'
      BY <1>5, <1>6, <1>12, <1>13 DEF Unwritten, Late, KeyInv, Once
    <2>2. \A k \in Keys : k # n => (Late(k)' <=> Late(k))
      BY <1>13 DEF Late
    <2>3. \A k \in Keys, d \in Clients :
             /\ Has(d, k)' <=> Has(d, k)
             /\ Unsent(d, k)' => Unsent(d, k)
             /\ k # n => (Registers(d, k)' <=> Registers(d, k))
      BY <1>10
    <2> QED
      BY <1>6, <1>7, <1>9, <1>11, <1>13, <2>1, <2>2, <2>3, WriteRow
  <1>14. CASE /\ leaked' = leaked \cup {n} /\ rows' = rows
              /\ delayed' = delayed \/ delayed' = delayed \cup {[file |-> f, key |-> n]}
    <2>1. MediaType'
      BY <1>1, <1>6, <1>7, <1>9, <1>14 DEF MediaType, fresh
    <2>2. Found'
      BY <1>1, <1>7, <1>11 DEF Found, fresh
    <2>3. ASSUME NEW k \in Keys PROVE KeyInv(k)'
      <3>1. KeyInv(k)
        BY DEF Inv
      <3>2. /\ \A h \in Handlers : /\ Selected(h, k)' <=> Selected(h, k)
                                   /\ Removes(h, k)' <=> Removes(h, k)
                                   /\ Unregisters(h, k)' <=> Unregisters(h, k)
                                   /\ Enqueues(h, k)' <=> Enqueues(h, k)
            /\ \A p \in Posts : Shows(p, k)' <=> Shows(p, k)
            /\ RowFor(k)' <=> RowFor(k)
        BY <1>7, <1>14 DEF Selected, Removes, Unregisters, Enqueues, Shows, RowFor
      <3>3. Doomed(k)' <=> Doomed(k)
        BY <1>7, <3>2 DEF Doomed, fresh
      <3>4. Late(k)' => Late(k) \/ k = n
        BY <1>14 DEF Late
      <3>5. Unwritten(k)' => Unwritten(k)
        BY <1>6, <1>10, <3>4 DEF Unwritten
      <3>6. OnlyUsed(k)' /\ Pending(k)' /\ RowFirst(k)' /\ OnePost(k)'
        BY <1>7, <1>10, <3>1, <3>2, <3>3, <3>5 DEF KeyInv, OnlyUsed, Pending, RowFirst, OnePost, fresh
      <3>7. Once(k)'
        <4>1. k = n => ~Late(k)
          BY <1>5, <1>6 DEF KeyInv, Once
        <4>2. \A r, s \in delayed' : r.key = k /\ s.key = k => r = s
          BY <1>14, <3>1, <4>1 DEF KeyInv, Once, Late
        <4>3. \A d \in Clients : ~(Registers(d, k)' /\ Late(k)')
          BY <1>10, <1>12, <3>1, <3>4 DEF KeyInv, Once
        <4> QED
          BY <1>10, <3>1, <4>2, <4>3 DEF KeyInv, Once
      <3>8. Kept(k)'
        BY <1>7, <1>10, <1>14, <3>1, <3>2 DEF KeyInv, Kept, fresh
      <3> QED
        BY <3>6, <3>7, <3>8 DEF KeyInv
    <2> QED
      BY <2>1, <2>2, <2>3 DEF Inv
  <1> QED
    BY <1>3, <1>13, <1>14 DEF Register

LEMMA LateRegisterInv == ASSUME Inv, NEW r \in delayed, LateRegister(r) PROVE Inv'
  <1>1. MediaType
    BY DEF Inv
  <1>2. r.file \in Files /\ r.key \in used /\ r.key \in Keys
    BY <1>1 DEF MediaType
  <1>3. KeyInv(r.key) /\ Late(r.key) /\ Unwritten(r.key)
    BY <1>2 DEF Inv, Late, Unwritten
  <1>4. /\ delayed' = delayed \ {r}
        /\ UNCHANGED <<objects, posts, tasks, client, handler, fresh, stuck, shared>>
        /\ SetRow(r.file, r.key)
    BY DEF LateRegister
  <1>5. PICK f \in Files, n \in used : f = r.file /\ n = r.key
    BY <1>2
  <1>6. \A k \in Keys, d \in Clients :
          /\ Has(d, k)' <=> Has(d, k)
          /\ Unsent(d, k)' => Unsent(d, k)
          /\ Registers(d, k)' <=> Registers(d, k)
    BY <1>4 DEF Has, Registers, Unsent
  <1>7. \A k \in Keys : k # n => (Late(k)' <=> Late(k))
    BY <1>4, <1>5 DEF Late
  <1>8. ~Unwritten(n)'
    <2>1. \A s \in delayed : s.key = n => s = r
      BY <1>3, <1>5 DEF KeyInv, Once
    <2>2. \A d \in Clients : ~Registers(d, n)
      BY <1>3, <1>5 DEF KeyInv, Once
    <2>3. \A d \in Clients : ~Registers(d, n)'
      BY <1>4, <2>2 DEF Registers
    <2> QED
      BY <1>4, <2>1, <2>3 DEF Unwritten, Late
  <1>9. SetRow(f, n) /\ Unwritten(n)
    BY <1>3, <1>4, <1>5
  <1>10. client' \in [Clients -> ClientState] /\ delayed' \subseteq delayed
    BY <1>1, <1>4 DEF MediaType
  <1> QED
    BY <1>4, <1>6, <1>7, <1>8, <1>9, <1>10, WriteRow

\* The post is new, and the first of its URL, unless its form was submitted
\* before.
LEMMA PublishInv == ASSUME Inv, NEW c \in Clients, Publish(c) PROVE Inv'
  <1>1. MediaType /\ Found
    BY DEF Inv
  <1>2. client[c] \in [pc : {"ready"}, url : Url, sent : BOOLEAN]
    BY <1>1 DEF Publish, Is, MediaType, ClientState, Idle
  <1>3. PICK u \in Url : u = client[c].url
    BY <1>2
  <1>4. PICK p \in Posts : p = New(Posts, born) /\ p \notin born
    BY <1>1 DEF Publish, New, MediaType
  <1>5. /\ born' = born \cup {p}
        /\ posts' = [q \in DOMAIN posts \cup {p} |-> IF q = p THEN u ELSE posts[q]]
        /\ UNCHANGED <<objects, rows, tasks, handler, delayed, used, leaked, stuck>>
    BY <1>3, <1>4 DEF Publish
  <1>6. /\ \E s \in {Idle, [pc |-> "ready", url |-> u, sent |-> TRUE]} : client' = [client EXCEPT ![c] = s]
        /\ client[c].sent # FALSE => u \in shared'
        /\ shared \subseteq shared'
    <2>1. [client[c] EXCEPT !.sent = TRUE] = [pc |-> "ready", url |-> u, sent |-> TRUE]
      <3>1. PICK s \in [pc : {"ready"}, url : {u}, sent : {TRUE}] : s = [client[c] EXCEPT !.sent = TRUE]
        BY <1>2, <1>3
      <3>2. s = [pc |-> "ready", url |-> u, sent |-> TRUE]
        OBVIOUS
      <3> QED
        BY <3>1, <3>2
    <2>2. \E s \in {Idle, [pc |-> "ready", url |-> u, sent |-> TRUE]} : client' = [client EXCEPT ![c] = s]
      BY <2>1, Zenon DEF Publish, Client
    <2>3. shared' = IF client[c].sent THEN shared \cup {u} ELSE shared
      BY <1>3 DEF Publish
    <2> QED
      BY <1>2, <2>2, <2>3
  <1>7. /\ \A d \in Clients : d # c => client'[d] = client[d]
        /\ client'[c] \in {Idle, [pc |-> "ready", url |-> u, sent |-> TRUE]}
    BY <1>1, <1>6 DEF MediaType
  <1>8. MediaType'
    <2>1. client'[c] \in ClientState
      <3>1. [pc |-> "ready", url |-> u, sent |-> TRUE] \in [pc : {"ready"}, url : Url, sent : BOOLEAN]
        OBVIOUS
      <3> QED
        BY <1>7, <3>1, Zenon DEF ClientState
    <2>2. client' \in [Clients -> ClientState]
      <3>1. PICK s : client' = [client EXCEPT ![c] = s]
        BY <1>6
      <3>2. client'[c] = s
        BY <1>1, <3>1 DEF MediaType
      <3> QED
        BY <1>1, <2>1, <3>1, <3>2 DEF MediaType
    <2>3. /\ DOMAIN posts' \subseteq born' /\ posts' = [q \in DOMAIN posts' |-> posts'[q]]
          /\ \A q \in DOMAIN posts' : posts'[q] \in Url
      BY <1>1, <1>5 DEF MediaType
    <2>4. born' \subseteq Posts
      BY <1>1, <1>4, <1>5 DEF MediaType
    <2> QED
      BY <1>1, <1>5, <2>2, <2>3, <2>4 DEF MediaType
  <1>9. Found'
    BY <1>1, <1>2, <1>5, <1>7 DEF Found, Idle
  <1>10. ASSUME NEW k \in Keys PROVE KeyInv(k)'
    <2>1. KeyInv(k)
      BY DEF Inv
    <2>2. /\ \A h \in Handlers : /\ Selected(h, k)' <=> Selected(h, k)
                                 /\ Removes(h, k)' <=> Removes(h, k)
                                 /\ Unregisters(h, k)' <=> Unregisters(h, k)
                                 /\ Enqueues(h, k)' <=> Enqueues(h, k)
          /\ RowFor(k)' <=> RowFor(k)
          /\ Late(k)' <=> Late(k)
      BY <1>5 DEF Selected, Removes, Unregisters, Enqueues, RowFor, Late
    <2>3. Doomed(k)' <=> Doomed(k)
      BY <1>5, <2>2 DEF Doomed
    <2>4. \A d \in Clients : Registers(d, k)' <=> Registers(d, k)
      BY <1>2, <1>7 DEF Registers, Idle
    <2>5. Unwritten(k)' <=> Unwritten(k)
      BY <2>2, <2>4 DEF Unwritten
    <2>6. /\ \A d \in Clients : Has(d, k)' => Has(d, k)
          /\ Has(c, k) => u = ServeUrl(k)
          /\ ~Unsent(c, k)'
          /\ \A d \in Clients : Unsent(d, k)' => Unsent(d, k)
      BY <1>2, <1>3, <1>7 DEF Has, Idle, Unsent
    <2>7. /\ \A q \in Posts : q # p => (Shows(q, k)' <=> Shows(q, k))
          /\ ~Shows(p, k)
          /\ Shows(p, k)' <=> Has(c, k)
      <3>1. p \notin DOMAIN posts
        BY <1>1, <1>4 DEF MediaType
      <3>2. u = ServeUrl(k) <=> Has(c, k)
        BY <1>2, <1>3 DEF Has
      <3> QED
        BY <1>5, <3>1, <3>2 DEF Shows
    <2>8. /\ ServeUrl(k) \in shared => ServeUrl(k) \in shared'
          /\ Has(c, k) => Unsent(c, k) \/ ServeUrl(k) \in shared'
      BY <1>6, <2>6 DEF Unsent
    <2>9. OnlyUsed(k)'
      BY <1>5, <2>1, <2>2, <2>6, <2>7 DEF KeyInv, OnlyUsed
    <2>10. Once(k)' /\ Pending(k)' /\ RowFirst(k)' /\ Kept(k)'
      BY <1>5, <2>1, <2>2, <2>3, <2>4, <2>5, <2>6 DEF KeyInv, Once, Pending, RowFirst, Kept
    <2>11. OnePost(k)'
      <3> SUFFICES ASSUME ServeUrl(k) \notin shared' PROVE OnePost(k)'
        BY DEF OnePost
      <3>1. OnePost(k) /\ ServeUrl(k) \notin shared /\ Once(k)
        BY <2>1, <2>8 DEF KeyInv
      <3>2. CASE Has(c, k)
        <4>1. Unsent(c, k) /\ \A d \in Clients : ~Unsent(d, k)'
          BY <2>6, <2>8, <3>1, <3>2 DEF Once, Unsent
        <4>2. /\ ~Doomed(k) /\ \A q \in Posts : ~Shows(q, k)
              /\ \A h \in Handlers : ~Selected(h, k) /\ ~Removes(h, k)
          BY <3>1, <3>2, <4>1 DEF OnePost
        <4> QED
          BY <2>2, <2>3, <2>7, <4>1, <4>2 DEF OnePost
      <3>3. CASE ~Has(c, k)
        <4>1. \A q \in Posts : Shows(q, k)' <=> Shows(q, k)
          BY <2>7, <3>3
        <4> QED
          BY <1>5, <2>2, <2>3, <2>6, <2>8, <3>1, <4>1 DEF OnePost
      <3> QED
        BY <3>2, <3>3
    <2> QED
      BY <2>9, <2>10, <2>11 DEF KeyInv
  <1> QED
    BY <1>8, <1>9, <1>10 DEF Inv

-----------------------------------------------------------------------------
\* A step of a handler that leaves rows, tasks, objects and clients alone: it
\* selects a live post, has deleted the one it selected, or gives up; it
\* goes on to delete a row only when it found one.
LEMMA HandlerStep ==
    ASSUME Inv, NEW h \in Handlers,
           UNCHANGED <<objects, rows, tasks, client, delayed, fresh, leaked, stuck, shared>>,
           handler' = [handler EXCEPT ![h] = handler'[h]], handler'[h] \in HandlerState,
           posts' = [q \in DOMAIN posts' |-> posts[q]], DOMAIN posts' \subseteq DOMAIN posts,
           handler[h].pc # "enqueue", handler'[h].pc # "enqueue",
           handler'[h].pc = "delete" =>
             handler'[h].post \in DOMAIN posts /\ handler'[h].url = posts[handler'[h].post],
           handler'[h].pc = "lookup" =>
             /\ handler[h].pc = "delete" /\ handler'[h].url = handler[h].url
             /\ handler[h].post \notin DOMAIN posts',
           handler'[h].pc = "unregister" =>
             handler[h].pc = "lookup" /\ handler'[h].url = handler[h].url /\ RowsOf(handler[h].url) # {}
    PROVE  Inv'
  <1>1. MediaType /\ Found
    BY DEF Inv
  <1>2. \A g \in Handlers : g # h => handler'[g] = handler[g]
    BY <1>1 DEF MediaType
  <1>3. MediaType'
    <2>1. /\ DOMAIN posts' \subseteq born' /\ \A q \in DOMAIN posts' : posts'[q] \in Url
          /\ posts' = [q \in DOMAIN posts' |-> posts'[q]]
      BY <1>1 DEF MediaType, fresh
    <2>2. handler' \in [Handlers -> HandlerState]
      BY <1>1 DEF MediaType
    <2> QED
      BY <1>1, <2>1, <2>2 DEF MediaType, fresh
  <1>4. handler'[h].pc = "unregister" => \E k \in Keys : RowFor(k) /\ handler'[h].url = ServeUrl(k)
    BY <1>1, MediaAssumption DEF RowsOf, RowFor, MediaType
  <1>5. Found'
    BY <1>1, <1>2, <1>4, UrlOfUpload DEF Found
  <1>6. ASSUME NEW k \in Keys PROVE KeyInv(k)'
    <2>1. KeyInv(k)
      BY DEF Inv
    <2>2. /\ \A d \in Clients : /\ (Has(d, k)' <=> Has(d, k)) /\ (Registers(d, k)' <=> Registers(d, k))
                                /\ Unsent(d, k)' <=> Unsent(d, k)
          /\ RowFor(k)' <=> RowFor(k)
          /\ Late(k)' <=> Late(k)
      BY DEF Has, Registers, Unsent, RowFor, Late
    <2>3. \A q \in Posts : Shows(q, k)' => Shows(q, k)
      BY DEF Shows
    <2>4. \A g \in Handlers : Enqueues(g, k)' <=> Enqueues(g, k)
      BY <1>2 DEF Enqueues
    <2>5. (Doomed(k)' <=> Doomed(k)) /\ (Unwritten(k)' <=> Unwritten(k))
      BY <2>2, <2>4 DEF Doomed, Unwritten, fresh
    <2>6. \A g \in Handlers : g # h =>
            /\ Selected(g, k)' <=> Selected(g, k)
            /\ Removes(g, k)' <=> Removes(g, k)
            /\ Unregisters(g, k)' <=> Unregisters(g, k)
      BY <1>2 DEF Selected, Removes, Unregisters
    <2>7. Selected(h, k)' => Shows(handler'[h].post, k) /\ handler'[h].post \in Posts
      BY <1>1 DEF Selected, Shows, MediaType
    <2>8. Unregisters(h, k)' => RowFor(k)
      BY <1>4, UrlOfUpload DEF Unregisters
    <2>9. Removes(h, k)' => \/ Removes(h, k)
                            \/ Selected(h, k) /\ handler[h].post \notin DOMAIN posts'
      BY DEF Removes, Selected
    <2>10. OnlyUsed(k)'
      BY <2>1, <2>2, <2>3, <2>6, <2>7, <2>9 DEF KeyInv, OnlyUsed, fresh
    <2>11. Once(k)' /\ RowFirst(k)' /\ Kept(k)'
      BY <2>1, <2>2, <2>4, <2>5 DEF KeyInv, Once, RowFirst, Kept, fresh
    <2>12. Pending(k)'
      BY <2>1, <2>2, <2>5, <2>6, <2>8 DEF KeyInv, Pending
    <2>13. OnePost(k)'
      <3> SUFFICES ASSUME ServeUrl(k) \notin shared' PROVE OnePost(k)'
        BY DEF OnePost
      <3>1. OnePost(k) /\ ServeUrl(k) \notin shared
        BY <2>1 DEF KeyInv
      <3>2. \A d \in Clients : Unsent(d, k)' =>
              /\ ~Doomed(k)' /\ \A q \in Posts : ~Shows(q, k)'
              /\ \A g \in Handlers : ~Selected(g, k)' /\ ~Removes(g, k)'
        BY <2>2, <2>3, <2>5, <2>6, <2>7, <2>9, <3>1 DEF OnePost
      <3>3. \A q, r \in Posts : Shows(q, k)' /\ Shows(r, k)' => q = r
        BY <2>3, <3>1 DEF OnePost
      <3>4. \A g \in Handlers, q \in Posts : Shows(q, k)' =>
              (Selected(g, k)' => q = handler'[g].post) /\ ~Removes(g, k)'
        <4> SUFFICES ASSUME NEW g \in Handlers, NEW q \in Posts, Shows(q, k)'
                     PROVE  (Selected(g, k)' => q = handler'[g].post) /\ ~Removes(g, k)'
          OBVIOUS
        <4>1. Shows(q, k) /\ q \in DOMAIN posts'
          BY <2>3 DEF Shows
        <4>2. CASE g # h
          BY <1>2, <2>6, <3>1, <4>1, <4>2 DEF OnePost
        <4>3. CASE g = h
          BY <2>7, <2>9, <3>1, <4>1, <4>3 DEF OnePost
        <4> QED
          BY <4>2, <4>3
      <3>5. Doomed(k)' => \A q \in Posts : ~Shows(q, k)'
        BY <2>3, <2>5, <3>1 DEF OnePost
      <3> QED
        BY <3>2, <3>3, <3>4, <3>5 DEF OnePost
    <2> QED
      BY <2>10, <2>11, <2>12, <2>13 DEF KeyInv
  <1> QED
    BY <1>3, <1>5, <1>6 DEF Inv

LEMMA DeleteStep ==
    ASSUME Inv, NEW h \in Handlers,
           (\E p \in Posts : DeleteSelect(h, p)) \/ DeleteExecute(h) \/ Lookup(h)
    PROVE  Inv'
  <1>1. /\ handler \in [Handlers -> HandlerState] /\ DOMAIN posts \subseteq Posts
        /\ posts = [p \in DOMAIN posts |-> posts[p]] /\ \A p \in DOMAIN posts : posts[p] \in Url
    BY DEF Inv, MediaType
  <1>2. Idle \in HandlerState /\ Idle.pc = "idle"
    BY DEF HandlerState, Idle
  <1>3. CASE \E p \in Posts : DeleteSelect(h, p)
    <2>1. PICK p \in Posts : DeleteSelect(h, p)
      BY <1>3
    <2>2. PICK s \in HandlerState : s.pc = "delete" /\ s = [pc |-> "delete", post |-> p, url |-> posts[p]]
      BY <1>1, <2>1 DEF DeleteSelect, HandlerState
    <2>3. handler' = [handler EXCEPT ![h] = s] /\ handler'[h] = s
      BY <1>1, <2>1, <2>2 DEF DeleteSelect, Handler
    <2>4. /\ posts' = posts /\ handler[h].pc = "idle" /\ p \in DOMAIN posts
          /\ UNCHANGED <<objects, rows, tasks, client, delayed, fresh, leaked, stuck, shared>>
      BY <2>1 DEF DeleteSelect, Is
    <2>5. posts' = [q \in DOMAIN posts' |-> posts[q]] /\ DOMAIN posts' \subseteq DOMAIN posts
      BY <1>1, <2>4
    <2>6. s.post = p /\ s.url = posts[p]
      BY <2>2
    <2> QED
      BY <2>2, <2>3, <2>4, <2>5, <2>6, HandlerStep
  <1>4. CASE DeleteExecute(h)
    <2>1. handler[h] \in [pc : {"delete"}, post : Posts, url : Url]
      BY <1>1, <1>4 DEF DeleteExecute, Is, HandlerState, Idle
    <2>2. PICK s \in HandlerState :
            /\ handler' = [handler EXCEPT ![h] = s]
            /\ \/ s.pc = "lookup" /\ s.url = handler[h].url /\ posts' = Without(handler[h].post)
               \/ s.pc = "idle" /\ posts' \in {posts, Without(handler[h].post)}
      <3>1. CASE /\ posts' = Without(handler[h].post)
                 /\ handler' = [handler EXCEPT ![h] = [pc |-> "lookup", url |-> handler[h].url]]
        <4>1. [pc |-> "lookup", url |-> handler[h].url] \in HandlerState
          BY <2>1 DEF HandlerState
        <4> QED
          BY <3>1, <4>1
      <3>2. CASE posts' \in {posts, Without(handler[h].post)} /\ handler' = [handler EXCEPT ![h] = Idle]
        BY <1>2, <3>2
      <3> QED
        BY <1>4, <3>1, <3>2 DEF DeleteExecute, Handler
    <2>3. handler'[h] = s
      BY <1>1, <2>2
    <2>4. posts' = [q \in DOMAIN posts' |-> posts[q]] /\ DOMAIN posts' \subseteq DOMAIN posts
      BY <1>1, <2>2 DEF Without
    <2>5. s.pc = "lookup" => handler[h].post \notin DOMAIN posts'
      BY <2>2 DEF Without
    <2>6. UNCHANGED <<objects, rows, tasks, client, delayed, fresh, leaked, stuck, shared>>
      BY <1>4 DEF DeleteExecute
    <2> QED
      BY <2>1, <2>2, <2>3, <2>4, <2>5, <2>6, HandlerStep
  <1>5. CASE Lookup(h)
    <2>1. handler[h].pc = "lookup" /\ handler[h].url \in Url
      BY <1>1, <1>5 DEF Lookup, Is, HandlerState, Idle
    <2>2. PICK s \in HandlerState :
            /\ handler' = [handler EXCEPT ![h] = s]
            /\ \/ s.pc = "unregister" /\ s.url = handler[h].url /\ RowsOf(handler[h].url) # {}
               \/ s.pc = "idle"
      <3>1. CASE /\ RowsOf(handler[h].url) # {}
                 /\ handler' = [handler EXCEPT ![h] = [pc |-> "unregister", url |-> handler[h].url]]
        <4>1. [pc |-> "unregister", url |-> handler[h].url] \in HandlerState
          BY <2>1 DEF HandlerState
        <4> QED
          BY <3>1, <4>1
      <3>2. CASE handler' = [handler EXCEPT ![h] = Idle]
        BY <1>2, <3>2
      <3> QED
        BY <1>5, <3>1, <3>2 DEF Lookup, Handler
    <2>3. handler'[h] = s
      BY <1>1, <2>2
    <2>4. /\ posts' = posts
          /\ UNCHANGED <<objects, rows, tasks, client, delayed, fresh, leaked, stuck, shared>>
      BY <1>5 DEF Lookup
    <2>5. posts' = [q \in DOMAIN posts' |-> posts[q]] /\ DOMAIN posts' \subseteq DOMAIN posts
      BY <1>1, <2>4
    <2> QED
      BY <2>1, <2>2, <2>3, <2>4, <2>5, HandlerStep
  <1> QED
    BY <1>3, <1>4, <1>5

\* The rows of the key go, or the key is stuck with them; the object is
\* doomed from here on.
LEMMA UnregisterInv == ASSUME Inv, NEW h \in Handlers, Unregister(h) PROVE Inv'
  <1>1. MediaType /\ Found
    BY DEF Inv
  <1>2. handler[h].pc = "unregister" /\ handler[h] \in [pc : {"lookup", "unregister", "enqueue"}, url : Url]
    BY <1>1 DEF Unregister, Is, MediaType, HandlerState, Idle
  <1>3. PICK n \in Keys : handler[h].url = ServeUrl(n)
    BY <1>1, <1>2, UrlOfUpload DEF Found, Url
  <1>4. /\ handler' = [handler EXCEPT ![h] = [handler[h] EXCEPT !.pc = "enqueue"]]
        /\ UNCHANGED <<objects, posts, tasks, client, delayed, fresh, leaked, shared>>
    BY DEF Unregister, Handler
  <1>5. /\ handler'[h].pc = "enqueue" /\ handler'[h].url = ServeUrl(n) /\ handler'[h] \in HandlerState
        /\ \A g \in Handlers : g # h => handler'[g] = handler[g]
    BY <1>1, <1>2, <1>3, <1>4 DEF MediaType, HandlerState
  <1>6. \/ /\ rows' = [f \in Files |-> IF f \in RowsOf(handler[h].url) THEN Nothing ELSE rows[f]]
           /\ stuck' = stuck
        \/ rows' = rows /\ stuck' = stuck \cup {n}
    BY <1>3, UrlOfUpload DEF Unregister
  <1>7. /\ \A k \in Keys : k # n => (RowFor(k)' <=> RowFor(k)) /\ (k \in stuck' <=> k \in stuck)
        /\ RowFor(n)' => n \in stuck' /\ RowFor(n)
        /\ rows' \in [Files -> used \cup {Nothing}]
    <2>1. CASE rows' = rows /\ stuck' = stuck \cup {n}
      BY <1>1, <2>1 DEF RowFor, MediaType
    <2>2. CASE /\ rows' = [f \in Files |-> IF f \in RowsOf(handler[h].url) THEN Nothing ELSE rows[f]]
               /\ stuck' = stuck
      <3>1. \A f \in Files : f \in RowsOf(handler[h].url) <=> rows[f] = n
        BY <1>1, <1>3, UrlOfUpload, MediaAssumption DEF RowsOf, MediaType
      <3>2. \A f \in Files : rows'[f] = IF rows[f] = n THEN Nothing ELSE rows[f]
        BY <2>2, <3>1
      <3> QED
        BY <1>1, <2>2, <3>2, MediaAssumption DEF RowFor, MediaType
    <2> QED
      BY <1>6, <2>1, <2>2
  <1>8. MediaType'
    <2>1. handler' \in [Handlers -> HandlerState]
      BY <1>1, <1>4, <1>5 DEF MediaType
    <2> QED
      BY <1>1, <1>4, <1>7, <2>1 DEF MediaType, fresh
  <1>9. Found'
    BY <1>1, <1>4, <1>5, UrlOfUpload DEF Found
  <1>10. ASSUME NEW k \in Keys PROVE KeyInv(k)'
    <2>1. KeyInv(k)
      BY DEF Inv
    <2>2. /\ \A d \in Clients : /\ (Has(d, k)' <=> Has(d, k)) /\ (Registers(d, k)' <=> Registers(d, k))
                                /\ Unsent(d, k)' <=> Unsent(d, k)
          /\ Late(k)' <=> Late(k)
          /\ \A q \in Posts : Shows(q, k)' <=> Shows(q, k)
      BY <1>4 DEF Has, Registers, Unsent, Shows, Late
    <2>3. Unwritten(k)' <=> Unwritten(k)
      BY <2>2 DEF Unwritten
    <2>4. \A g \in Handlers : g # h =>
            /\ Selected(g, k)' <=> Selected(g, k)
            /\ Removes(g, k)' <=> Removes(g, k)
            /\ Unregisters(g, k)' <=> Unregisters(g, k)
            /\ Enqueues(g, k)' <=> Enqueues(g, k)
      BY <1>5 DEF Selected, Removes, Unregisters, Enqueues
    <2>5. /\ ~Selected(h, k)' /\ ~Unregisters(h, k)' /\ ~Enqueues(h, k) /\ ~Selected(h, k)
          /\ (Removes(h, k)' <=> k = n) /\ (Removes(h, k) <=> k = n)
          /\ (Enqueues(h, k)' <=> k = n) /\ (Unregisters(h, k) <=> k = n)
      BY <1>2, <1>3, <1>5, UrlOfUpload DEF Selected, Unregisters, Enqueues, Removes
    <2>6. Doomed(k)' <=> Doomed(k) \/ k = n
      BY <1>4, <2>4, <2>5 DEF Doomed, fresh
    <2>7. OnlyUsed(k)' /\ Once(k)'
      BY <1>4, <2>1, <2>2, <2>4, <2>5 DEF KeyInv, OnlyUsed, Once, fresh
    <2>8. Pending(k)'
      BY <1>7, <2>1, <2>3, <2>4, <2>5, <2>6 DEF KeyInv, Pending
    <2>9. RowFirst(k)'
      BY <1>7, <2>1, <2>6 DEF KeyInv, RowFirst
    <2>10. OnePost(k)'
      BY <1>4, <1>5, <2>1, <2>2, <2>4, <2>5, <2>6 DEF KeyInv, OnePost
    <2>11. Kept(k)'
      BY <1>4, <1>7, <2>1, <2>2, <2>4, <2>5 DEF KeyInv, Kept
    <2> QED
      BY <2>7, <2>8, <2>9, <2>10, <2>11 DEF KeyInv
  <1> QED
    BY <1>8, <1>9, <1>10 DEF Inv

\* A step of the clean-up after the row: the handler passes the object to the
\* pool or loses it, the pool deletes the object or fails to.  What leaves
\* the one hand is in the other, gone or leaked.
LEMMA CleanStep ==
    ASSUME Inv, NEW n \in used, Doomed(n),
           UNCHANGED <<rows, posts, client, delayed, fresh, stuck, shared>>,
           handler' \in [Handlers -> HandlerState],
           \A g \in Handlers : handler'[g] # handler[g] => handler'[g].pc = "idle",
           \A g \in Handlers : handler'[g] # handler[g] => Enqueues(g, n),
           objects \ {n} \subseteq objects', objects' \subseteq objects,
           tasks \ {n} \subseteq tasks', tasks' \subseteq tasks \cup {n},
           leaked' \in {leaked, leaked \cup {n}},
           n \in objects' => n \in tasks' \cup leaked'
    PROVE  Inv'
  <1>1. MediaType /\ Found
    BY DEF Inv
  <1>2. MediaType'
    BY <1>1 DEF MediaType, fresh
  <1>3. Found'
    BY <1>1 DEF Found
  <1>4. ASSUME NEW k \in Keys PROVE KeyInv(k)'
    <2>1. KeyInv(k)
      BY DEF Inv
    <2>2. /\ \A d \in Clients : /\ (Has(d, k)' <=> Has(d, k)) /\ (Registers(d, k)' <=> Registers(d, k))
                                /\ Unsent(d, k)' <=> Unsent(d, k)
          /\ Late(k)' <=> Late(k)
          /\ RowFor(k)' <=> RowFor(k)
          /\ \A q \in Posts : Shows(q, k)' <=> Shows(q, k)
      BY DEF Has, Registers, Unsent, Shows, Late, RowFor
    <2>3. Unwritten(k)' <=> Unwritten(k)
      BY <2>2 DEF Unwritten
    <2>4. \A g \in Handlers :
            /\ Selected(g, k)' => Selected(g, k) /\ handler'[g].post = handler[g].post
            /\ Removes(g, k)' => Removes(g, k)
            /\ Unregisters(g, k)' => Unregisters(g, k)
            /\ Enqueues(g, k)' => Enqueues(g, k)
      BY DEF Selected, Removes, Unregisters, Enqueues
    <2>5. k # n => \A g \in Handlers : Enqueues(g, k)' <=> Enqueues(g, k)
      BY <1>1, <2>4, UrlOfUpload DEF Enqueues, MediaType
    <2>6. Doomed(k)' => Doomed(k)
      BY <2>4 DEF Doomed, fresh
    <2>7. OnlyUsed(k)' /\ Once(k)'
      BY <2>1, <2>2, <2>4 DEF KeyInv, OnlyUsed, Once, fresh
    <2>8. Pending(k)' /\ RowFirst(k)'
      BY <2>1, <2>2, <2>3, <2>4, <2>6 DEF KeyInv, Pending, RowFirst
    <2>9. OnePost(k)'
      BY <2>1, <2>2, <2>4, <2>6 DEF KeyInv, OnePost
    <2>10. Kept(k)'
      <3>1. CASE k = n
        BY <3>1 DEF Kept
      <3>2. CASE k # n
        BY <2>1, <2>2, <2>5, <3>2 DEF KeyInv, Kept
      <3> QED
        BY <3>1, <3>2
    <2> QED
      BY <2>7, <2>8, <2>9, <2>10 DEF KeyInv
  <1> QED
    BY <1>2, <1>3, <1>4 DEF Inv

LEMMA EnqueueInv == ASSUME Inv, NEW h \in Handlers, Enqueue(h) PROVE Inv'
  <1>1. MediaType /\ Found
    BY DEF Inv
  <1>2. handler[h].pc = "enqueue" /\ handler[h].url \in Url
    BY <1>1 DEF Enqueue, Is, MediaType, HandlerState, Idle
  <1>3. PICK n \in Keys : n = handler[h].url.key /\ handler[h].url = ServeUrl(n)
    BY <1>1, <1>2, UrlOfUpload DEF Found, Url
  <1>4. Enqueues(h, n) /\ Doomed(n)
    BY <1>2, <1>3 DEF Enqueues, Doomed
  <1>5. n \in used
    <2>1. KeyInv(n) /\ Removes(h, n)
      BY <1>2, <1>3 DEF Inv, Removes
    <2> QED
      BY <2>1 DEF KeyInv, OnlyUsed
  <1>6. handler' = [handler EXCEPT ![h] = Idle] /\ handler' \in [Handlers -> HandlerState]
    BY <1>1 DEF Enqueue, Handler, MediaType, HandlerState
  <1>7. /\ \A g \in Handlers : handler'[g] # handler[g] => handler'[g].pc = "idle"
        /\ \A g \in Handlers : handler'[g] # handler[g] => Enqueues(g, n)
    BY <1>1, <1>4, <1>6 DEF Idle, MediaType
  <1>8. /\ UNCHANGED <<objects, rows, posts, client, delayed, fresh, stuck, shared>>
        /\ \/ tasks' = tasks \cup {n} /\ leaked' = leaked
           \/ leaked' = leaked \cup {n} /\ tasks' = tasks
    BY <1>3 DEF Enqueue
  <1>9. /\ objects \ {n} \subseteq objects' /\ objects' \subseteq objects
        /\ tasks \ {n} \subseteq tasks' /\ tasks' \subseteq tasks \cup {n}
        /\ leaked' \in {leaked, leaked \cup {n}}
        /\ n \in objects' => n \in tasks' \cup leaked'
    BY <1>8
  <1> QED
    BY <1>4, <1>5, <1>6, <1>7, <1>8, <1>9, CleanStep

LEMMA RunTaskInv == ASSUME Inv, NEW n \in Keys, RunTask(n) PROVE Inv'
  <1>1. n \in used /\ Doomed(n) /\ handler \in [Handlers -> HandlerState]
    BY DEF Inv, MediaType, RunTask, Doomed
  <1>2. /\ UNCHANGED <<rows, posts, client, handler, delayed, fresh, stuck, shared>>
        /\ tasks' = tasks \ {n}
        /\ \/ objects' = objects \ {n} /\ leaked' = leaked
           \/ leaked' = leaked \cup {n} /\ objects' = objects
    BY DEF RunTask
  <1>3. /\ objects \ {n} \subseteq objects' /\ objects' \subseteq objects
        /\ tasks \ {n} \subseteq tasks' /\ tasks' \subseteq tasks \cup {n}
        /\ leaked' \in {leaked, leaked \cup {n}}
        /\ n \in objects' => n \in tasks' \cup leaked'
    BY <1>2
  <1>4. handler' \in [Handlers -> HandlerState] /\ \A g \in Handlers : handler'[g] = handler[g]
    BY <1>1, <1>2
  <1> QED
    BY <1>1, <1>2, <1>3, <1>4, CleanStep

-----------------------------------------------------------------------------
LEMMA StutterInv == ASSUME Inv, UNCHANGED vars PROVE Inv'
  BY DEF Inv, MediaType, Found, KeyInv, OnlyUsed, Once, Pending, Unwritten, RowFirst, Doomed, OnePost, Kept,
         Has, Registers, Unsent, Shows, Selected, Removes, Unregisters, Enqueues, RowFor, Late, vars

LEMMA NextInv == Inv /\ [Next]_vars => Inv'
  <1> SUFFICES ASSUME Inv, [Next]_vars PROVE Inv'
    OBVIOUS
  <1>1. ASSUME NEW c \in Clients,
               \/ \E f \in Files : StartUpload(c, f)
               \/ Abort(c) \/ Check(c) \/ UploadRefused(c) \/ Discard(c)
        PROVE  Inv'
    BY <1>1, QuietClientStep
  <1>2. ASSUME NEW c \in Clients, Upload(c) PROVE Inv'
    BY <1>2, UploadInv
  <1>3. ASSUME NEW c \in Clients, Register(c) PROVE Inv'
    BY <1>3, RegisterInv
  <1>4. ASSUME NEW c \in Clients, Publish(c) PROVE Inv'
    BY <1>4, PublishInv
  <1>5. ASSUME NEW r \in delayed, LateRegister(r) PROVE Inv'
    BY <1>5, LateRegisterInv
  <1>6. ASSUME NEW h \in Handlers, (\E p \in Posts : DeleteSelect(h, p)) \/ DeleteExecute(h) \/ Lookup(h)
        PROVE  Inv'
    BY <1>6, DeleteStep
  <1>7. ASSUME NEW h \in Handlers, Unregister(h) PROVE Inv'
    BY <1>7, UnregisterInv
  <1>8. ASSUME NEW h \in Handlers, Enqueue(h) PROVE Inv'
    BY <1>8, EnqueueInv
  <1>9. ASSUME NEW k \in Keys, RunTask(k) PROVE Inv'
    BY <1>9, RunTaskInv
  <1>10. CASE UNCHANGED vars
    BY <1>10, StutterInv
  <1> QED
    BY <1>1, <1>2, <1>3, <1>4, <1>5, <1>6, <1>7, <1>8, <1>9, <1>10 DEF Next

LEMMA SpecInv == Spec => []Inv
  BY InitInv, NextInv, PTL DEF Spec

-----------------------------------------------------------------------------
\* A row of midia_hashes never names a missing object, unless DeletePost
\* failed to delete that row: with the row written once and deleted before
\* the object, no late registration brings one back.
THEOREM DanglingHasCauseHolds == Spec => []DanglingHasCause
  <1>1. Inv => DanglingHasCause
    <2> SUFFICES ASSUME Inv, NEW f \in Files, rows[f] \notin objects \cup {Nothing} PROVE rows[f] \in stuck
      BY DEF DanglingHasCause
    <2>1. rows[f] \in used /\ rows[f] \in Keys
      BY DEF Inv, MediaType
    <2>2. Doomed(rows[f]) /\ RowFor(rows[f])
      BY <2>1 DEF Doomed, RowFor
    <2> QED
      BY <2>1, <2>2 DEF Inv, KeyInv, RowFirst
  <1> QED
    BY <1>1, SpecInv, PTL

\* An object that nothing refers to and nothing is about to delete was
\* leaked by a failure, an abort or a second upload of its file.
THEOREM OrphanHasCauseHolds == Spec => []OrphanHasCause
  <1>1. Inv => OrphanHasCause
    <2> SUFFICES ASSUME Inv, NEW k \in objects \ leaked
                 PROVE  \/ \E f \in Files : rows[f] = k
                        \/ \E c \in Clients : Holds(client[c], k)
                        \/ \E h \in Handlers : Holds(handler[h], k)
                        \/ k \in tasks
      BY DEF OrphanHasCause
    <2>1. KeyInv(k)
      BY DEF Inv, MediaType
    <2> QED
      BY <2>1 DEF KeyInv, Kept, Registers, Enqueues, RowFor, Holds
  <1> QED
    BY <1>1, SpecInv, PTL

\* The image of a live post that was uploaded for it is served, whatever
\* other posts of the same file are deleted, unless one upload was published
\* twice; the URL that check answers with is never served.
THEOREM LivePostServedHolds == Spec => []LivePostServed
  <1>1. Inv => LivePostServed
    <2> SUFFICES ASSUME Inv, NEW p \in DOMAIN posts
                 PROVE  IF posts[p].wraps = 1 THEN Served(posts[p]) \/ posts[p] \in shared
                                              ELSE ~Served(posts[p])
      BY DEF LivePostServed
    <2>1. p \in Posts /\ posts[p] \in Url
      BY DEF Inv, MediaType
    <2>2. CASE posts[p].wraps = 1
      <3>1. PICK k \in Keys : k = posts[p].key /\ posts[p] = ServeUrl(k)
        BY <2>1, <2>2, UrlOfUpload DEF Url
      <3>2. Shows(p, k) /\ KeyInv(k)
        BY <3>1 DEF Shows, Inv
      <3>3. k \in used
        BY <2>1, <3>2 DEF KeyInv, OnlyUsed
      <3>4. k \in objects \/ ServeUrl(k) \in shared
        BY <2>1, <3>2, <3>3 DEF KeyInv, OnePost, Doomed
      <3> QED
        BY <2>2, <3>1, <3>4 DEF Served
    <2>3. CASE posts[p].wraps # 1
      BY <2>3 DEF Served
    <2> QED
      BY <2>2, <2>3
  <1> QED
    BY <1>1, SpecInv, PTL
=============================================================================
