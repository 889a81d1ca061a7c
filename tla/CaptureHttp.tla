---------------------------- MODULE CaptureHttp ----------------------------
(***************************************************************************)
(* capture_http.cpp and the two accessors of capture.cpp it calls.  The web *)
(* server answers one request at a time in a task of its own, and no lock   *)
(* stands between it and the main loop's task, which opens, appends to and   *)
(* evicts captures at any moment.  What the handler keeps across that is a   *)
(* place in the array behind captures_, first as the iterator of a range-for *)
(* and then as the pointer get_capture_bytes() returned, and the address of *)
(* a file's bytes.                                                         *)
(*                                                                         *)
(* Of the heap only what tells a good pointer from a dead one is kept:       *)
(* push_back() may move the whole array, insert() may move the bytes of the  *)
(* file it appends to (the capacities that decide are abstracted to a        *)
(* choice), and erase() moves the later files down one slot each, with their *)
(* bytes.  A read through a dead pointer gives anything, or takes the device  *)
(* down.  A call of the main loop is one step here; how two tasks' loads and  *)
(* stores interleave inside one is not modelled.                            *)
(***************************************************************************)
EXTENDS Capture

CONSTANTS Names,       \* file names that requests ask for
          ChunkBytes,  \* kStreamChunkBytes, 1024 in the code
          Garbage      \* what a size in freed memory may read as

NoName == [seq |-> 0, ext |-> "none", plain |-> FALSE]

\* A name is the capture it would designate, its extension (in capitals too,
\* and any other), and whether the rest is plain: 5 to 96 characters, none of
\* them a separator, a colon or a control character, and no leading dot.
ASSUME CaptureHttpAssumption ==
  /\ ChunkBytes \in Nat \ {0}
  /\ Garbage \subseteq Nat
  /\ \A n \in Names : n.seq \in Nat \ {0} /\ n.plain \in BOOLEAN

VARIABLE http   \* the request being answered

httpVars == <<http, captureVars>>

\* pc      what handleRequest() does next; "crashed" when it took the device down
\* want    the name asked for, NoName for the listing
\* at, end the slot looked at, and how many there were when the loop began
\* lost    the array that `at` points into has been freed
\* entries the listing so far
\* length  Content-Length
\* src     the file whose bytes are being sent; dead when they have moved or gone
\* left, sent, clean   bytes still to send, bytes sent, all of them from src
\* status, broken      of the reply
\* newest  history: the last capture opened before the request began
\* calm    history: nothing was opened or evicted since
\* evicted history: how many files were evicted since
\* grown   history: the files that grew since
Waiting(pc) ==
  [pc |-> pc, want |-> NoName, at |-> 1, end |-> 0, lost |-> FALSE, entries |-> <<>>,
   length |-> 0, src |-> NoName, dead |-> FALSE, left |-> 0, sent |-> 0, clean |-> TRUE,
   status |-> 0, broken |-> FALSE, newest |-> 0, calm |-> TRUE,
   evicted |-> 0, grown |-> {}]

HttpInit == CaptureInit /\ http = Waiting("off")

-----------------------------------------------------------------------------
(* The store as the web server's task sees it *)

\* wintex-<time>-<seq>.bin or .txt
NameOf(f) == [seq |-> f.seq, ext |-> IF f.text THEN "txt" ELSE "bin", plain |-> TRUE]
Stored(files) == [i \in DOMAIN files |-> NameOf(files[i])]

\* The size of the file of a name, 0 when there is none.
SizeOf(files, name) ==
  LET at == {i \in DOMAIN files : NameOf(files[i]) = name}
  IN  IF at = {} THEN 0 ELSE FileBytes(files[Min(at)])

\* Slot `at` still holds a file.  Otherwise it is one that erase() destroyed or
\* it lies in freed memory, where the name asked for may still be found, or any
\* other, and a size reads as anything.
InPlace == ~http.lost /\ http.at \in DOMAIN store.files
NamesHere == IF InPlace THEN {NameOf(store.files[http.at])} ELSE {NoName, http.want}
SizesHere == IF InPlace THEN {FileBytes(store.files[http.at])} ELSE Garbage

-----------------------------------------------------------------------------
(* Routing *)

MutIsSafe(n) == n.plain /\ n.ext = "bin"

\* is_safe_capture_filename(): the extension is compared in lower case.
IsSafe(n) == n.plain /\ n.ext \in {"bin", "txt", "BIN"}

\* "prefix" is /captures itself, "beneath" a URL under it, "longer" one that
\* only starts with the same characters.
Requests == [get : BOOLEAN, path : {"prefix", "longer", "elsewhere"}, name : {NoName}]
              \cup [get : BOOLEAN, path : {"beneath"}, name : Names \cup {NoName}]

CanHandle(r) == r.get /\ r.path \in {"prefix", "beneath"}

MutSlots == Len(store.files) + 1

MutFewerSlots == Len(store.files) - 1

\* The slots that a range-for over captures_ will look at.
Slots == Len(store.files)

\* handleRequest(): a redirect, the listing, a refusal, or a download.
Request(r) ==
  /\ http.pc = "idle" /\ CanHandle(r)
  /\ http' = [Waiting("reply") EXCEPT
                !.want = r.name,
                !.end = Slots,
                !.newest = fileSeq,
                !.pc = IF r.path = "prefix" THEN "reply"
                       ELSE IF r.name = NoName THEN "list"
                       ELSE IF IsSafe(r.name) THEN "find" ELSE "reply",
                !.status = IF r.path = "prefix" THEN 302
                           ELSE IF r.name # NoName /\ ~IsSafe(r.name) THEN 404 ELSE 0]
  /\ UNCHANGED captureVars

\* register_capture_http_handler(), called again whenever setup() runs again.
Register ==
  /\ http.pc # "crashed"
  /\ http' = IF http.pc = "off" THEN Waiting("idle") ELSE http
  /\ UNCHANGED captureVars

-----------------------------------------------------------------------------
(* The listing: list_captures() *)

MutListDone ==
  /\ http.pc = "list" /\ http.at >= http.end
  /\ http' = [http EXCEPT !.pc = "reply", !.status = 200]
  /\ UNCHANGED captureVars

ListNext ==
  /\ http.pc = "list" /\ http.at <= http.end
  /\ \E name \in NamesHere, size \in SizesHere :
       http' = [http EXCEPT !.entries = Append(@, [name |-> name, size |-> size]),
                            !.at = @ + 1]
  /\ UNCHANGED captureVars

\* The page is built from the copies; the order of its rows is left out.
ListDone ==
  /\ http.pc = "list" /\ http.at > http.end
  /\ http' = [http EXCEPT !.pc = "reply", !.status = 200]
  /\ UNCHANGED captureVars

-----------------------------------------------------------------------------
(* A download: get_capture_bytes() and send_file_() *)

FindNext ==
  /\ http.pc = "find" /\ http.at <= http.end
  /\ \E name \in NamesHere :
       http' = IF name = http.want THEN [http EXCEPT !.pc = "head"]
                                   ELSE [http EXCEPT !.at = @ + 1]
  /\ UNCHANGED captureVars

FindNothing ==
  /\ http.pc = "find" /\ http.at > http.end
  /\ http' = [http EXCEPT !.pc = "reply", !.status = 404]
  /\ UNCHANGED captureVars

\* Content-Length is the size the file has now; the headers wait for the first chunk.
SendHeaders ==
  /\ http.pc = "head"
  /\ \E size \in SizesHere :
       http' = [http EXCEPT !.pc = "body", !.status = 200, !.length = size]
  /\ UNCHANGED captureVars

\* bytes->data() and bytes->size(), which is read a second time here.
StartBody ==
  /\ http.pc = "body"
  /\ \E size \in SizesHere :
       http' = [http EXCEPT !.pc = "chunks", !.dead = ~InPlace, !.left = size,
                            !.src = IF InPlace THEN NameOf(store.files[http.at]) ELSE NoName]
  /\ UNCHANGED captureVars

MutSendChunk ==
  /\ http.pc = "chunks" /\ http.left > 0
  /\ http' = [http EXCEPT !.left = IF @ > ChunkBytes THEN @ - ChunkBytes ELSE 0,
                          !.sent = @ + ChunkBytes, !.clean = @ /\ ~http.dead]
  /\ UNCHANGED captureVars

SendChunk ==
  /\ http.pc = "chunks" /\ http.left > 0
  /\ LET n == Min({http.left, ChunkBytes})
     IN  http' = [http EXCEPT !.left = @ - n, !.sent = @ + n, !.clean = @ /\ ~http.dead]
  /\ UNCHANGED captureVars

MutChunkFails ==
  /\ http.pc = "chunks" /\ http.left > 0
  /\ http' = [http EXCEPT !.pc = "body", !.sent = 0]
  /\ UNCHANGED captureVars

\* httpd_resp_send_chunk() fails: the rest is not sent.
ChunkFails ==
  /\ http.pc = "chunks" /\ http.left > 0
  /\ http' = [http EXCEPT !.pc = "reply", !.broken = TRUE]
  /\ UNCHANGED captureVars

BodySent ==
  /\ http.pc = "chunks" /\ http.left = 0
  /\ http' = [http EXCEPT !.pc = "reply"]
  /\ UNCHANGED captureVars

Finish ==
  /\ http.pc = "reply"
  /\ http' = Waiting("idle")
  /\ UNCHANGED captureVars

\* Copying a name, reading a size or sending bytes from freed memory may fault,
\* and nothing runs before the device has started anew.
DeadRead ==
  /\ \/ http.pc \in {"list", "find"} /\ http.at <= http.end /\ ~InPlace
     \/ http.pc \in {"head", "body"} /\ ~InPlace
     \/ http.pc = "chunks" /\ http.left > 0 /\ http.dead
  /\ http' = [http EXCEPT !.pc = "crashed"]
  /\ UNCHANGED captureVars

Answer == ListNext \/ ListDone \/ FindNext \/ FindNothing \/ SendHeaders \/ StartBody
            \/ SendChunk \/ ChunkFails \/ BodySent \/ Finish \/ DeadRead

-----------------------------------------------------------------------------
(* The main loop's task *)

Grows(name) == SizeOf(store'.files, name) > SizeOf(store.files, name)
Gone(name) == \A i \in DOMAIN store'.files : NameOf(store'.files[i]) # name

\* What a step of the capture does to the pointers the web server holds.
MainTask ==
  /\ http.pc # "crashed" /\ CaptureNext
  /\ \E arrayMoves \in {FALSE, fileSeq' # fileSeq},
        bytesMove \in {FALSE, Grows(http.src)} :
       http' = IF http.pc \in {"off", "idle"} THEN http
               ELSE [http EXCEPT
                       !.lost = @ \/ arrayMoves,
                       !.dead = @ \/ bytesMove \/ (http.src # NoName /\ Gone(http.src)),
                       !.calm = /\ @ /\ fileSeq' = fileSeq
                                /\ Stored(store'.files) = Stored(store.files),
                       !.evicted = @ + Cardinality({n \in Range(Stored(store.files)) : Gone(n)}),
                       !.grown = @ \cup {n \in Range(Stored(store.files)) : Grows(n)}]

Down == http.pc = "crashed" /\ UNCHANGED httpVars

HttpNext == \/ Register \/ Answer \/ MainTask \/ Down
            \/ \E r \in Requests : Request(r)

HttpSpec == HttpInit /\ [][HttpNext]_httpVars

\* The web server's task gets to run, and a send succeeds or times out.
HttpFairness == WF_httpVars(Answer)

-----------------------------------------------------------------------------
(* Properties *)

\* Unless a capture was opened or evicted meanwhile, the page lists every stored
\* file once, with the true size of each that did not grow: appending to the
\* running session's files disturbs neither the iteration nor another file's row.
CalmListing ==
  http.pc = "reply" /\ http.status = 200 /\ http.want = NoName /\ http.calm =>
    /\ [i \in DOMAIN http.entries |-> http.entries[i].name] = Stored(store.files)
    /\ \A i \in DOMAIN http.entries :
         http.entries[i].name \notin http.grown =>
           http.entries[i].size = FileBytes(store.files[i])

\* Unless a capture was opened or evicted meanwhile, only a file that is not stored
\* is "Not Found", and a download is of the file asked for, as long as it was at
\* one moment of the request: unless the connection broke, no shorter than its
\* Content-Length although the size is read twice, and never longer than the file.
\* If the file did not grow either, it is the file and nothing else.
CalmDownload ==
  http.pc = "reply" /\ http.want # NoName /\ http.calm =>
    /\ http.status = 404 => http.want \notin Range(Stored(store.files))
    /\ http.status = 200 =>
         LET size == SizeOf(store.files, http.want)
         IN  /\ http.want \in Range(Stored(store.files)) /\ http.src = http.want
             /\ http.length <= size /\ http.sent <= size
             /\ ~http.broken => http.length <= http.sent
             /\ http.want \notin http.grown =>
                  http.clean /\ http.length = size /\ (~http.broken => http.sent = size)

\* The web server takes the device down only when a capture was opened or evicted
\* during the request, or the file being sent grew: pointers that nobody moved, up
\* to the last slot and the last byte, are good.
OnlyMovesCrash ==
  http.pc = "crashed" => ~http.calm \/ http.want \in http.grown

\* Whatever the client does, a request is answered, so that the only task that
\* answers is free for the next one; unless a read of freed memory takes the
\* device down first.
RequestAnswered ==
  http.pc \notin {"off", "idle"} ~> http.pc \in {"idle", "crashed"}

\* The files that were stored all the while a request was being answered.
StoredThroughout == {n \in Range(Stored(store.files)) : n.seq <= http.newest}

\* What the iterators of list_captures() and get_capture_bytes() suffer while captures are
\* opened and evicted, as long as the array stays where it is: of the files that were
\* there all the while the page leaves out no more than were evicted, one for every
\* file that erase() moved down under the iterator, and one of them is "Not Found" only
\* if something was evicted.  An opened capture hides nothing.
EvictionsHideFew ==
  http.pc = "reply" /\ ~http.lost =>
    /\ http.status = 200 /\ http.want = NoName =>
         Cardinality(StoredThroughout \ {http.entries[i].name : i \in DOMAIN http.entries})
           <= http.evicted
    /\ http.status = 404 /\ IsSafe(http.want) /\ http.want \in StoredThroughout =>
         http.evicted > 0

\* capture_http.h: "GET /captures/<filename> -> Streams the file": what is sent
\* under the status 200 comes from the file asked for.
DownloadIsTheFile ==
  http.pc = "reply" /\ http.status = 200 /\ http.sent > 0 =>
    http.src = http.want /\ http.clean
=============================================================================
