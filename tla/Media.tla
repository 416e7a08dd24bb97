-------------------------------- MODULE Media --------------------------------
(***************************************************************************)
(* Uploaded files, end to end: the client that checks, uploads, registers  *)
(* and publishes (frontend/src/composables/useImageCdn.ts, FiLeUpload.vue, *)
(* CreatePost.vue), the CDN routes (backend/src/server/http_server.h), and *)
(* the clean-up of DeletePost (backend/src/server/server.cpp), over the    *)
(* table midia_hashes and the bucket.                                      *)
(*                                                                         *)
(* A file stands for its hash.  An object key is random and never repeats. *)
(* A URL is the serve route with a key behind it, or with such a URL       *)
(* behind it: "wraps" counts the routes.  Only the former is served.       *)
(***************************************************************************)
EXTENDS Naturals, FiniteSets

CONSTANTS
    Files, Keys, Posts,
    Clients,        \* pages with an upload form; one that uploads while its form
                    \* has the URL of an earlier upload counts twice
    Handlers,       \* DeletePost calls at once
    Nothing,        \* no row, no file
    Failures        \* may requests and calls fail or lose their answer?

ASSUME MediaAssumption == Failures \in BOOLEAN /\ Nothing \notin Keys \cup Files

VARIABLES
    objects,    \* keys in the bucket
    rows,       \* midia_hashes, by hash: the URL and file_id of a key
    posts,      \* image_url of the live posts
    tasks,      \* deletions submitted to the CDN's pool
    client, handler,
    delayed,    \* registrations whose client has given up waiting
    used, born, \* keys and posts handed out so far
    leaked,     \* history: keys that lost their row, or their deletion
    stuck,      \* history: keys whose row would not go
    shared      \* history: URLs of forms that made more than one post

vars == <<objects, rows, posts, tasks, client, handler, delayed, used, born, leaked, stuck, shared>>
fresh == <<used, born>>

Idle == [pc |-> "idle"]

Init ==
    /\ objects = {} /\ rows = [f \in Files |-> Nothing] /\ tasks = {} /\ delayed = {}
    /\ posts = << >>
    /\ client = [c \in Clients |-> Idle] /\ handler = [h \in Handlers |-> Idle]
    /\ used = {} /\ born = {}
    /\ leaked = {} /\ stuck = {} /\ shared = {}

-----------------------------------------------------------------------------
\* An identifier that was not handed out before.
New(S, taken) == CHOOSE x \in S : x \notin taken

\* The URL that upload answers with, and register stores.
ServeUrl(k) == [key |-> k, wraps |-> 1]

\* Mutant of CheckUrl: the stored URL is returned as it is.
MutCheckUrl(url) == url

\* The URL that check answers with: "http://" + host + "/api/cdn/serve/"
\* before the URL of the row, which is absolute already.
CheckUrl(url) == [url EXCEPT !.wraps = @ + 1]

\* The serve route finds the object of a URL.
Served(url) == url.wraps = 1 /\ url.key \in objects

Client(c, s) == client' = [client EXCEPT ![c] = s]
Handler(h, s) == handler' = [handler EXCEPT ![h] = s]
Is(s, pc) == s.pc = pc

\* The row of a file is written (merge-duplicates): a key it named before
\* has no row any more.
SetRow(f, k) ==
    /\ rows' = [rows EXCEPT ![f] = k]
    /\ leaked' = (leaked \cup ({rows[f]} \ {Nothing})) \ {k}

-----------------------------------------------------------------------------
\* startUpload: upload() of the selected file.
StartUpload(c, f) ==
    /\ Is(client[c], "idle")
    /\ Client(c, [pc |-> "check", file |-> f, aborted |-> FALSE])
    /\ UNCHANGED <<objects, rows, posts, tasks, handler, delayed, fresh, leaked, stuck, shared>>

\* cancelUpload before the file is sent: looked at after the check.
Abort(c) ==
    /\ Is(client[c], "check") /\ ~client[c].aborted
    /\ client' = [client EXCEPT ![c].aborted = TRUE]
    /\ UNCHANGED <<objects, rows, posts, tasks, handler, delayed, fresh, leaked, stuck, shared>>

\* GET check.  A file that is found is not sent, aborted or not; any failure
\* is taken for "not found".
Check(c) ==
    /\ Is(client[c], "check")
    /\ LET f == client[c].file
       IN  \/ /\ rows[f] # Nothing
              /\ Client(c, [pc |-> "ready", url |-> CheckUrl(ServeUrl(rows[f])), sent |-> FALSE])
           \/ /\ rows[f] = Nothing \/ Failures
              /\ Client(c, IF client[c].aborted THEN Idle ELSE [pc |-> "upload", file |-> f])
    /\ UNCHANGED <<objects, rows, posts, tasks, handler, delayed, fresh, leaked, stuck, shared>>

\* POST upload stores the object under a new key.  A client that aborts, or
\* loses the answer, leaves the object behind.
Upload(c) ==
    /\ Is(client[c], "upload") /\ used # Keys
    /\ LET k == New(Keys, used)
       IN  /\ used' = used \cup {k}
           /\ objects' = objects \cup {k}
           /\ \/ /\ Client(c, [pc |-> "register", file |-> client[c].file, url |-> ServeUrl(k)])
                 /\ UNCHANGED leaked
              \/ Client(c, Idle) /\ leaked' = leaked \cup {k}
    /\ UNCHANGED <<rows, posts, tasks, handler, delayed, born, stuck, shared>>

\* The upload is refused (too large, wrong format, bucket not reached), or
\* aborted before the server acts on it.
UploadRefused(c) ==
    /\ Is(client[c], "upload")
    /\ Client(c, Idle)
    /\ UNCHANGED <<objects, rows, posts, tasks, handler, delayed, fresh, leaked, stuck, shared>>

\* POST register; its failure is swallowed.  The request may be lost, or be
\* served after the client has given up waiting for it.
Register(c) ==
    /\ Is(client[c], "register")
    /\ LET f == client[c].file
           k == client[c].url.key
       IN  \/ SetRow(f, k) /\ UNCHANGED delayed
           \/ Failures /\ leaked' = leaked \cup {k} /\ UNCHANGED <<rows, delayed>>
           \/ /\ Failures
              /\ delayed' = delayed \cup {[file |-> f, key |-> k]}
              /\ leaked' = leaked \cup {k}
              /\ UNCHANGED rows
    /\ Client(c, [pc |-> "ready", url |-> client[c].url, sent |-> FALSE])
    /\ UNCHANGED <<objects, posts, tasks, handler, fresh, stuck, shared>>

LateRegister(r) ==
    /\ r \in delayed
    /\ SetRow(r.file, r.key)
    /\ delayed' = delayed \ {r}
    /\ UNCHANGED <<objects, posts, tasks, client, handler, fresh, stuck, shared>>

\* handleSubmit: CreatePost with the URL.  When the answer is lost the form
\* keeps its content and the user may submit it again.
Publish(c) ==
    /\ Is(client[c], "ready") /\ born # Posts
    /\ LET url == client[c].url
           p == New(Posts, born)
       IN  /\ born' = born \cup {p}
           /\ posts' = [q \in DOMAIN posts \cup {p} |-> IF q = p THEN url ELSE posts[q]]
           /\ shared' = IF client[c].sent THEN shared \cup {url} ELSE shared
           /\ \/ Client(c, Idle)
              \/ Failures /\ Client(c, [client[c] EXCEPT !.sent = TRUE])
    /\ UNCHANGED <<objects, rows, tasks, handler, delayed, used, leaked, stuck>>

\* The URL of a later upload takes the place of this one (onImageUploaded),
\* or the page is left; removeFile leaves the URL in the form.
Discard(c) ==
    /\ Is(client[c], "ready")
    /\ Client(c, Idle)
    /\ UNCHANGED <<objects, rows, posts, tasks, handler, delayed, fresh, leaked, stuck, shared>>

-----------------------------------------------------------------------------
Without(p) == [q \in DOMAIN posts \ {p} |-> posts[q]]

\* DeletePost reads image_url ...
DeleteSelect(h, p) ==
    /\ Is(handler[h], "idle") /\ p \in DOMAIN posts
    /\ Handler(h, [pc |-> "delete", post |-> p, url |-> posts[p]])
    /\ UNCHANGED <<objects, rows, posts, tasks, client, delayed, fresh, leaked, stuck, shared>>

\* ... deletes the row of the post, which another call may have deleted; after
\* a status that is no success, whether the row is gone or not, it returns ...
DeleteExecute(h) ==
    /\ Is(handler[h], "delete")
    /\ \/ /\ posts' = Without(handler[h].post)
          /\ Handler(h, [pc |-> "lookup", url |-> handler[h].url])
       \/ /\ Failures
          /\ posts' \in {posts, Without(handler[h].post)}
          /\ Handler(h, Idle)
    /\ UNCHANGED <<objects, rows, tasks, client, delayed, fresh, leaked, stuck, shared>>

\* The rows with the URL of the post.
RowsOf(url) == {f \in Files : rows[f] # Nothing /\ ServeUrl(rows[f]) = url}

\* ... looks its image_url up in midia_hashes ...
Lookup(h) ==
    /\ Is(handler[h], "lookup")
    /\ LET url == handler[h].url
       IN  \/ Handler(h, IF RowsOf(url) # {} THEN [pc |-> "unregister", url |-> url] ELSE Idle)
           \/ Failures /\ Handler(h, Idle)
    /\ UNCHANGED <<objects, rows, posts, tasks, client, delayed, fresh, leaked, stuck, shared>>

\* Mutant of Unregister: the row is kept.
MutUnregister(h) ==
    /\ Is(handler[h], "unregister")
    /\ Handler(h, [handler[h] EXCEPT !.pc = "enqueue"])
    /\ UNCHANGED <<objects, rows, posts, tasks, client, delayed, fresh, leaked, stuck, shared>>

\* ... deletes the row found, without a look at the result ...
Unregister(h) ==
    /\ Is(handler[h], "unregister")
    /\ LET url == handler[h].url
       IN  \/ /\ rows' = [f \in Files |-> IF f \in RowsOf(url) THEN Nothing ELSE rows[f]]
              /\ UNCHANGED stuck
           \/ Failures /\ stuck' = stuck \cup {url.key} /\ UNCHANGED rows
    /\ Handler(h, [handler[h] EXCEPT !.pc = "enqueue"])
    /\ UNCHANGED <<objects, posts, tasks, client, delayed, fresh, leaked, shared>>

\* Mutant of Enqueue: the object is forgotten.
MutEnqueue(h) ==
    /\ Is(handler[h], "enqueue")
    /\ Handler(h, Idle)
    /\ UNCHANGED <<objects, rows, posts, tasks, client, delayed, fresh, leaked, stuck, shared>>

\* ... and hands the object to the pool of the CDN server, if there is one.
Enqueue(h) ==
    /\ Is(handler[h], "enqueue")
    /\ LET k == handler[h].url.key
       IN  \/ tasks' = tasks \cup {k} /\ UNCHANGED leaked
           \/ Failures /\ leaked' = leaked \cup {k} /\ UNCHANGED tasks
    /\ Handler(h, Idle)
    /\ UNCHANGED <<objects, rows, posts, client, delayed, fresh, stuck, shared>>

\* The pool deletes the object; an error is logged.
RunTask(k) ==
    /\ k \in tasks
    /\ tasks' = tasks \ {k}
    /\ \/ objects' = objects \ {k} /\ UNCHANGED leaked
       \/ Failures /\ leaked' = leaked \cup {k} /\ UNCHANGED objects
    /\ UNCHANGED <<rows, posts, client, handler, delayed, fresh, stuck, shared>>

Next ==
    \/ \E c \in Clients :
         \/ \E f \in Files : StartUpload(c, f)
         \/ Abort(c) \/ Check(c) \/ Upload(c) \/ UploadRefused(c) \/ Register(c)
         \/ Publish(c) \/ Discard(c)
    \/ \E r \in delayed : LateRegister(r)
    \/ \E h \in Handlers :
         \/ \E p \in Posts : DeleteSelect(h, p)
         \/ DeleteExecute(h) \/ Lookup(h) \/ Unregister(h) \/ Enqueue(h)
    \/ \E k \in Keys : RunTask(k)

Spec == Init /\ [][Next]_vars

-----------------------------------------------------------------------------
Holds(s, k) == s.pc \in {"register", "ready", "delete", "lookup", "unregister", "enqueue"} /\ s.url = ServeUrl(k)

\* A row of midia_hashes names an object that is in the bucket, unless
\* DeletePost failed to delete the row before the object: no interleaving of
\* uploads, late registrations and deletions leaves another.
DanglingHasCause == \A f \in Files : rows[f] \notin objects \cup {Nothing} => rows[f] \in stuck

\* An object that no row, no live post, no client and no deletion in
\* progress knows of lost its registration or its deletion to a failure, its
\* client to an abort, or its row to a second upload of the same file.
OrphanHasCause ==
    \A k \in objects \ leaked :
        \/ \E f \in Files : rows[f] = k
        \/ \E p \in DOMAIN posts : posts[p] = ServeUrl(k)
        \/ \E c \in Clients : Holds(client[c], k)
        \/ \E h \in Handlers : Holds(handler[h], k)
        \/ k \in tasks

\* A live post whose file was uploaded for it is served, although the row
\* and the object are shared by hash: the deletion of another post takes
\* the object away only if both were published from one upload, which takes
\* a lost answer and a second submission of the form.  It holds
\* because the URL of a file that check finds is another one, which is never
\* served and never matches a row.
LivePostServed ==
    \A p \in DOMAIN posts :
        IF posts[p].wraps = 1 THEN Served(posts[p]) \/ posts[p] \in shared ELSE ~Served(posts[p])
=============================================================================
