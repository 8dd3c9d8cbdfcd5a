------------------------------ MODULE HttpReply ------------------------------
(***************************************************************************)
(* One connection of the HTTP server, from the accept loop's look at the   *)
(* access list to its close: HttpServer::HandleClient of both builds       *)
(* (src/posix_httpserver.cpp, src/httpserver.cpp) with the helpers of      *)
(* http_common.cpp, dlna_utils.cpp, ipwhitelist.cpp and network_sources.cpp*)
(* it calls.                                                               *)
(*                                                                         *)
(* Bodies are counted in units, texts are one unit.  A recv or a send      *)
(* always returns: the socket timeouts see to it.                          *)
(***************************************************************************)
EXTENDS Browse

CONSTANTS MaxSize,      \* bound: units of the longest file
          MaxChunk,     \* units one send takes (kTransmitFileMaxChunkBytes)
          MaxRequests   \* bound: requests on the connection

ASSUME ReplyAssumption ==
  MaxSize \in Nat /\ MaxChunk \in Nat \ {0} /\ MaxRequests \in Nat

VARIABLES
  build, serverRuns, \* the build; m_running
  cache,            \* g_probeCache's entry for the remote, None if there is none
  at, asked,        \* where the handler is; requests so far
  req, total, reply, \* the request at hand, its item's size, the answer under way
  offer,            \* what the remote sends for this request
  sent, stalled     \* units of the body sent; some send was cut short

request == <<req, total, reply, offer>>
replyVars == <<build, serverRuns, cache, at, asked, request, sent, stalled>>

None    == -1      \* no file, no entry, no length
Endless == -2      \* a remote that never stops sending

-----------------------------------------------------------------------------
(* The access list: an address is an exact entry or within a range, a range *)
(* being a prefix of bits; an empty list allows all.                        *)
IsAllowed(list, a) == list = {} \/ \E p \in list : IsPrefix(p, a)

(* Byte ranges.  A header is absent, unusable (another unit, a list, no dash, *)
(* no numbers), the last n units, or first to last with last optional.        *)
NoRange == [kind |-> "none", first |-> 0, last |-> 0]
RangeHeader ==
  {NoRange, [kind |-> "bad", first |-> 0, last |-> 0]}
  \cup [kind : {"suffix"}, first : {0}, last : 0 .. MaxSize + 1]
  \cup [kind : {"span"}, first : 0 .. MaxSize, last : {None} \cup 0 .. MaxSize]

Smaller(a, b) == IF a < b THEN a ELSE b
LastOf(h, size) == IF h.last = None THEN size - 1 ELSE h.last

Satisfiable(h, size) ==
  \/ h.kind = "none"
  \/ h.kind = "suffix" /\ size > 0 /\ h.last > 0
  \/ h.kind = "span" /\ size > 0 /\ h.first < size /\ LastOf(h, size) >= h.first

RangeStart(h, size) ==
  CASE h.kind = "span"   -> h.first
    [] h.kind = "suffix" -> IF h.last >= size THEN 0 ELSE size - h.last
    [] OTHER             -> 0
\* fault: an end beyond the file is taken as it is
RangeEndAsked(h, size) == IF h.kind = "span" THEN LastOf(h, size) ELSE size - 1
RangeEnd(h, size) ==
  IF h.kind = "span" THEN Smaller(LastOf(h, size), size - 1) ELSE size - 1

-----------------------------------------------------------------------------
(* Requests.  `keep` is what ShouldKeepAlive makes of the Connection header *)
(* and the version; `detail` is the header or the body a target looks at.   *)
ShouldKeepAlive(connection, version) ==
  connection = "keep-alive" \/ (connection # "close" /\ version = "1.1")

Text == {"description", "icon"}
Target == Text \cup {"hls", "file", "remote", "subtitle", "remote subtitle", "albumart"}

NoCall == [action |-> "none"]
Asks(methods, targets, ranges, details) ==
  [method : methods, target : targets, range : ranges, detail : details, call : {NoCall}, keep : BOOLEAN]
Request ==
  Asks({"GET", "HEAD"}, Target \ {"file", "remote"}, {NoRange}, {"ok", "not there"})
    \cup Asks({"GET", "HEAD"}, {"file"}, RangeHeader, {"ok"})
    \cup Asks({"GET", "HEAD"}, {"remote"}, RangeHeader, {"ok", "SEC_HHP_"})
    \cup Asks({"GET", "POST"}, {"bad host", "bad id", "unknown"}, {NoRange}, {"ok"})
    \cup Asks({"POST"}, {"ContentDirectory", "ConnectionManager"}, {NoRange}, {"no length", "too long", "short"})
    \cup [method : {"POST"}, target : {"ContentDirectory"}, range : {NoRange}, detail : {"ok"},
          call : CDCall, keep : BOOLEAN]
    \cup [method : {"POST"}, target : {"ConnectionManager"}, range : {NoRange}, detail : {"ok"},
          call : CMCall, keep : BOOLEAN]
    \cup Asks({"SUBSCRIBE", "UNSUBSCRIBE"}, {"event", "unknown"}, {NoRange},
              {"sid", "stale sid", "callback", "neither"})

(* A reply: what its headers say and what follows them.  `ends`: the handler *)
(* returns after it, whatever the headers say.                               *)
Reply(status, length, body, says, ends) ==
  [status |-> status, length |-> length, from |-> 0, body |-> body, says |-> says, ends |-> ends,
   answer |-> Faulted(0)]
Fixed(status) == Reply(status, 0, "none", "close", TRUE)
NoReply == Fixed(0)

NoRequest == [method |-> "none", target |-> "none", range |-> NoRange, detail |-> "ok", call |-> NoCall, keep |-> FALSE]

ReplyInit ==
  /\ build \in {"posix", "windows"} /\ serverRuns = TRUE /\ cache = None
  /\ at = "accepted" /\ asked = 0
  /\ req = NoRequest /\ total = None /\ reply = NoReply /\ offer = None
  /\ sent = 0 /\ stalled = FALSE

Answer(r) ==
  /\ reply' = r /\ at' = "headers" /\ sent' = 0
  /\ UNCHANGED <<build, serverRuns, cache, asked, req, offer, stalled>>
AnswerOf(n, r) == total' = n /\ Answer(r)

-----------------------------------------------------------------------------
(* AcceptLoop: a peer that is not on the list is told 403 and closed. *)
Admit ==
  /\ at = "accepted"
  /\ \E access \in SUBSET {<<1>>, <<0, 1>>}, address \in {<<0, 0>>, <<0, 1>>, <<1, 0>>} :
       IF IsAllowed(access, address)
         THEN at' = "loop" /\ UNCHANGED reply
         ELSE at' = "closed" /\ reply' = Fixed(403)
  /\ UNCHANGED <<build, serverRuns, cache, asked, req, total, offer, sent, stalled>>

(* The head of HandleClient's loop; what belongs to the last request is gone. *)
Loop ==
  /\ at = "loop" /\ at' = IF serverRuns THEN "reading" ELSE "closed"
  /\ req' = NoRequest /\ total' = None /\ reply' = NoReply /\ offer' = None /\ sent' = 0
  /\ UNCHANGED <<build, serverRuns, cache, asked, stalled>>

(* ReadHttpRequestHeaders: the headers come, or the peer closes, waits too *)
(* long, sends too much, or sends no request line.                         *)
TakeRequest ==
  /\ at = "reading" /\ asked < MaxRequests /\ asked' = asked + 1
  /\ \E r \in Request, c \in {"close", "keep-alive", "other"}, v \in {"1.0", "1.1"} :
       r.keep = ShouldKeepAlive(c, v) /\ req' = r
  /\ at' = "route"
  /\ UNCHANGED <<build, serverRuns, cache, total, reply, offer, sent, stalled>>

ReadFails ==
  /\ at = "reading" /\ at' = "closed"
  /\ UNCHANGED <<build, serverRuns, cache, asked, request, sent, stalled>>

-----------------------------------------------------------------------------
Get    == req.method \in {"GET", "HEAD"}
HeadOnly == req.method = "HEAD"
There  == req.detail # "not there"
Ends   == ~req.keep
Says   == IF req.keep THEN "keep-alive" ELSE "close"
Body(kind) == IF HeadOnly THEN "none" ELSE kind

(* A bad Host, an id that is no number, an unknown path or method *)
RouteRefused ==
  /\ at = "route"
  /\ \/ req.target \in {"bad host", "bad id"} /\ AnswerOf(None, Fixed(400))
     \/ req.target = "unknown" /\ req.method \in {"GET", "HEAD"} /\ AnswerOf(None, Fixed(404))
     \/ req.target = "unknown" /\ req.method = "POST" /\ AnswerOf(None, Fixed(400))

(* Descriptions and icons; an icon may be missing *)
RouteText ==
  /\ at = "route" /\ Get /\ req.target \in Text
  /\ AnswerOf(None, IF req.target = "icon" /\ ~There
              THEN Fixed(404) ELSE Reply(200, 1, Body("text"), Says, Ends))

(* HandleEventSubscription: every reply says close and has no body, and the *)
(* loop goes on if the request asked to keep the connection.                *)
EventStatus(r) ==
  CASE r.target # "event"         -> 404
    [] r.method = "UNSUBSCRIBE"   -> IF r.detail \in {"sid", "stale sid"} THEN 200 ELSE 412
    [] r.detail = "sid"           -> 200
    [] r.detail = "callback"      -> 200
    [] OTHER                      -> 412
RouteEvent ==
  /\ at = "route" /\ req.method \in {"SUBSCRIBE", "UNSUBSCRIBE"}
  /\ AnswerOf(None, Reply(EventStatus(req), 0, "none", "close", Ends))

(* A manifest is fetched and rewritten, or the fetch fails. *)
RouteHls ==
  /\ at = "route" /\ Get /\ req.target = "hls"
  /\ AnswerOf(None, IF There THEN Reply(200, 1, Body("text"), Says, Ends) ELSE Fixed(502))

(* A local item: opened, measured, its range cut out.  POSIX takes no range *)
(* of an empty file, Windows finds none satisfiable.                        *)
Ranged(h, size, body, ends) ==
  [Reply(IF h.kind = "none" THEN 200 ELSE 206,
         RangeEnd(h, size) - RangeStart(h, size) + 1, body, Says, ends)
     EXCEPT !.from = RangeStart(h, size)]

RouteFile ==
  /\ at = "route" /\ Get /\ req.target = "file"
  /\ \E n \in {None} \cup 0 .. MaxSize :
       AnswerOf(n, IF n = None THEN Fixed(404)
                   ELSE IF build = "posix" /\ n = 0 THEN Reply(200, 0, Body("file"), Says, Ends)
                   ELSE IF Satisfiable(req.range, n) THEN Ranged(req.range, n, Body("file"), Ends)
                   ELSE Fixed(416))

(* A remote's size is the scan's, else the cached one, else it is probed; a *)
(* probe that fails, or that a scan's cancel aborts, is cached as 0.        *)
Probe ==
  /\ at = "route" /\ Get /\ req.target \in {"remote", "remote subtitle"} /\ There /\ cache = None
  /\ cache' \in 0 .. MaxSize
  /\ UNCHANGED <<build, serverRuns, at, asked, request, sent, stalled>>

KnownSizes ==
  (IF req.target = "remote" THEN 1 .. MaxSize ELSE {}) \cup ({cache} \ {None})

(* Without a known size there is no length, or a made up one for players   *)
(* that want one (1073741824, here one more than any size).  Windows ends  *)
(* the connection after a HEAD, POSIX does not.                            *)
RouteRemote ==
  /\ at = "route" /\ Get /\ req.target = "remote"
  /\ \E n \in KnownSizes :
       LET ends == Ends \/ (HeadOnly /\ build = "windows") IN
       AnswerOf(n, IF n = 0 THEN Reply(200, IF req.detail = "SEC_HHP_" THEN MaxSize + 1 ELSE None,
                                       Body("remote"), Says, ends)
                   ELSE IF Satisfiable(req.range, n) THEN Ranged(req.range, n, Body("remote"), ends)
                   ELSE Fixed(416))

(* Subtitles and art: one reply, then the connection is closed. *)
RouteAside ==
  /\ at = "route" /\ Get /\ req.target \in {"subtitle", "albumart"}
  /\ \E n \in {None} \cup 0 .. MaxSize :
       AnswerOf(n, IF n # None THEN Reply(200, n, Body("file"), "close", TRUE) ELSE Fixed(404))

RouteRemoteSubtitle ==
  /\ at = "route" /\ Get /\ req.target = "remote subtitle"
  /\ IF There
       THEN \E n \in KnownSizes :
              AnswerOf(n, Reply(200, IF n > 0 THEN n ELSE None, Body("remote"), "close", TRUE))
       ELSE AnswerOf(None, Fixed(404))

(* SOAP: the body must be announced, small enough, and come whole.  A fault *)
(* is a 200 with the error inside.                                          *)
ControlAnswer(n, ready) ==
  LET f == IF req.target = "ContentDirectory"
             THEN ContentDirectoryFault(req.call, ready) ELSE ConnectionManagerFault(req.call)
  IN  IF f = 0 /\ req.call.action \in {"Browse", "Search"} THEN Answered(req.call, n) ELSE Faulted(f)

RouteControl ==
  /\ at = "route" /\ req.method = "POST" /\ req.target \in {"ContentDirectory", "ConnectionManager"}
  /\ \/ req.detail # "ok" /\ AnswerOf(None, Fixed(400))
     \/ /\ req.detail = "ok"
        /\ \E n \in 0 .. MaxSize, ready \in BOOLEAN :
             AnswerOf(n, [Reply(200, 1, "text", Says, Ends) EXCEPT !.answer = ControlAnswer(n, ready)])

-----------------------------------------------------------------------------
StepTo(s) == at' = s /\ UNCHANGED <<build, serverRuns, cache, asked, req, total, reply>>

(* SendAll says nothing of a send that was cut short; the handler goes on. *)
Sends(n) == stalled' \in {stalled, TRUE} /\ sent' = IF stalled' THEN 0 ELSE n

(* What a remote may send: the part asked for, as far as it has that, or all *)
(* it has if it takes no notice of the range; it has changed since, maybe.   *)
Offers == {Endless} \cup 0 .. MaxSize

SendHeaders ==
  /\ at = "headers"
  /\ Sends(IF reply.body = "text" THEN reply.length ELSE 0)
  /\ offer' \in (IF reply.body = "remote" THEN Offers ELSE {None})
  /\ StepTo(IF reply.body \in {"file", "remote"} THEN reply.body ELSE "done")

(* sendfile and TransmitFile take a part at a time; any may fail, one finds *)
(* the file shorter than it was.                                            *)
\* fault: a part that fails is passed over, as SendAll does
FileLost == StepTo("done") /\ UNCHANGED <<offer, sent, stalled>>
FileFails == StepTo("closed") /\ UNCHANGED <<offer, sent, stalled>>

SendFile ==
  /\ at = "file"
  /\ \/ sent < reply.length
        /\ sent' = sent + Smaller(MaxChunk, reply.length - sent)
        /\ StepTo("file") /\ UNCHANGED <<offer, stalled>>
     \/ sent = reply.length /\ StepTo("done") /\ UNCHANGED <<offer, sent, stalled>>
     \/ sent < reply.length /\ FileFails

\* fault: the handler streams on after a stop
StreamsOn == TRUE
Streams == serverRuns

(* StreamRemoteContent: a piece is passed on, and the answer of the callback *)
(* says whether to go on; the transfer ends, or fails, or a scan's cancel    *)
(* aborts it.  What an endless one has sent is counted modulo MaxSize + 2.     *)
SendRemote ==
  /\ at = "remote"
  /\ \/ /\ offer = Endless \/ sent < offer
        /\ sent' = (sent + 1) % (MaxSize + 2) /\ UNCHANGED <<offer, stalled>>
        /\ StepTo(IF Streams THEN "remote" ELSE "closed")
     \/ sent = offer /\ StepTo("done") /\ UNCHANGED <<offer, sent, stalled>>

RemoteFails ==
  /\ at = "remote" /\ StepTo("closed") /\ UNCHANGED <<offer, sent, stalled>>

Done ==
  /\ at = "done" /\ StepTo(IF reply.ends THEN "closed" ELSE "loop") /\ UNCHANGED <<offer, sent, stalled>>

-----------------------------------------------------------------------------
(* Stop clears m_running; a cache entry expires (the handler reads it once). *)
Stop ==
  /\ serverRuns /\ serverRuns' = FALSE
  /\ UNCHANGED <<build, cache, at, asked, request, sent, stalled>>

Expires ==
  /\ cache # None /\ at # "route" /\ cache' = None
  /\ UNCHANGED <<build, serverRuns, at, asked, request, sent, stalled>>

Handler ==
  \/ Admit \/ Loop \/ TakeRequest \/ ReadFails
  \/ RouteRefused \/ RouteText \/ RouteEvent \/ RouteHls \/ RouteFile \/ Probe \/ RouteRemote
  \/ RouteAside \/ RouteRemoteSubtitle \/ RouteControl
  \/ SendHeaders \/ SendFile \/ SendRemote \/ RemoteFails \/ Done

ReplyNext == Handler \/ Stop \/ Expires

\* Timeouts and curl's low speed limit end every wait.
ReplySpec == ReplyInit /\ [][ReplyNext]_replyVars /\ WF_replyVars(Handler)

-----------------------------------------------------------------------------
(* A client that is kept finds the next reply where the last one ended: the  *)
(* handler only goes on after exactly the bytes its headers announced (none  *)
(* after HEAD), and only after headers that said keep-alive.  Excepted: the  *)
(* replies to SUBSCRIBE, which say close; a send that was cut short, which   *)
(* SendAll keeps to itself; and a remote without a size, or that has not the *)
(* bytes it was taken to have.                                               *)
KeptAliveIsFramed ==
  at = "loop" /\ asked > 0 /\ ~stalled =>
    /\ reply.says = "keep-alive" \/ req.target = "event" \/ req.method \in {"SUBSCRIBE", "UNSUBSCRIBE"}
    /\ (reply.body = "remote" /\ offer # reply.length) \/ sent = IF HeadOnly THEN 0 ELSE reply.length

(* A 206 has exactly the bytes the header asked for and the item has, and a *)
(* 416 is sent only if there are none.                                      *)
Wanted(h, size) ==
  {o \in 0 .. size - 1 :
     \/ h.kind = "none"
     \/ h.kind = "suffix" /\ size - o <= h.last
     \/ h.kind = "span" /\ o >= h.first /\ (h.last = None \/ o <= h.last)}
RangeIsRight ==
  at = "headers" /\ req.target \in {"file", "remote"} =>
    /\ reply.status = 416 => Wanted(req.range, total) = {}
    /\ reply.status = 206 => Wanted(req.range, total) = reply.from .. reply.from + reply.length - 1
    /\ reply.status = 206 => reply.length > 0

(* A client that asks for page after page, each starting where the last one *)
(* ended, gets on until it has them all: no page within the results is      *)
(* empty, none is longer than asked for or allowed, and none goes beyond.   *)
PagingGetsOn ==
  at = "headers" /\ reply.answer.matches > 0 =>
    LET a == reply.answer  c == req.call IN
    /\ c.start < a.matches => c.start + 1 \in a.page
    /\ a.page \subseteq 1 .. a.matches
    /\ Cardinality(a.page) <= (IF c.count = 0 THEN MaxPage ELSE c.count)

(* Parts of files and pages of results are neither too short nor too long,  *)
(* and a client that asks for the next one gets it.                         *)
PartsAreRight == RangeIsRight /\ PagingGetsOn

(* After a stop every connection ends, the endless stream of a radio and a *)
(* client that keeps asking included; Stop joins the threads they are on.  *)
StoppedEnds == ~serverRuns ~> at = "closed"
=============================================================================
