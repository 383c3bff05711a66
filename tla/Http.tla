---------------------------------- MODULE Http ----------------------------------
(***************************************************************************)
(* The HTTP client, Kernel/net/http.c, and cmd_pkg of Kernel/tui/shell.c,  *)
(* which saves what http_download returns.                                 *)
(*                                                                         *)
(* A response is a sequence of units: "h" for header text, "e" for the     *)
(* empty line (the four bytes CR LF CR LF), "b" for anything else.  A body *)
(* may hold empty lines too.  tcp_recv hands out the response in order in  *)
(* pieces of any length up to the buffer's, as DeliveredInOrder of Tcp     *)
(* says; it may also return nothing, or -1, and the loops then go round.   *)
(* The text of requests is left out, and with it parse_ip and the digits   *)
(* of Content-Length.                                                      *)
(***************************************************************************)
EXTENDS Integers, Sequences, SequencesExt, FiniteSetsExt

CONSTANTS HeaderLens,  \* lengths of headers, without the empty line
          Bodies,      \* bodies a server may send
          ChunkSize,   \* the buffer passed to tcp_recv
          HdrCap,      \* sizeof(hdr)
          Caps         \* sizes of the caller's buffer

ASSUME HttpAssumption ==
    /\ HeaderLens \subseteq Nat /\ Bodies \subseteq Seq({"e", "b"})
    /\ ChunkSize \in Nat \ {0} /\ HdrCap \in Nat \ {0} /\ Caps \subseteq Nat \ {0}

VARIABLES req,    \* the server's side: what it answers
          pos,    \* how much of the answer tcp_recv has handed out
          dl      \* the call in progress and its locals

httpVars == <<req, pos, dl>>

Answer(r) == [k \in 1 .. r.header |-> "h"] \o <<"e">> \o r.body
ContentLength(r) == IF r.length THEN Len(r.body) ELSE -1

HttpInit ==
    /\ req = [header |-> 0, body |-> <<>>, length |-> FALSE] /\ pos = 0
    /\ dl = [op |-> "none", pc |-> "done", cap |-> 0, hdr |-> <<>>, have |-> FALSE,
             content |-> -1, out |-> <<>>, ret |-> 0, idle |-> FALSE, saved |-> <<>>]

MinOf(a, b) == IF a < b THEN a ELSE b
Take(s, n) == SubSeq(s, 1, MinOf(n, Len(s)))
Drop(s, n) == SubSeq(s, n + 1, Len(s))

\* Where the body starts: after the first empty line, 0 when there is none.
BodyAt(s) == IF "e" \in ToSet(s) THEN Min({k \in DOMAIN s : s[k] = "e"}) ELSE 0

\* hdr_append: what does not fit is dropped.
hdr_append(hdr, data) == Take(hdr \o data, HdrCap - 1)

\* hdr_ends looks at the last four bytes.
hdr_ends(hdr) == hdr # <<>> /\ hdr[Len(hdr)] = "e"

\* The answer the server has for the request.
Requested == req' \in [header : HeaderLens, body : Bodies, length : BOOLEAN]

\* tcp_connect and tcp_send succeed, or the call returns -1.
http_download(cap) ==
    /\ dl.op = "none" /\ Requested
    /\ \E ok \in BOOLEAN :
         dl' = [dl EXCEPT !.op = "download", !.cap = cap, !.ret = IF ok THEN 0 ELSE -1,
                          !.pc = IF ok THEN "loop" ELSE "done"]
    /\ UNCHANGED pos

\* One byte of response_size is for the final NUL: cap is what is left.
http_request(cap) ==
    /\ dl.op = "none" /\ Requested
    /\ \E ok \in BOOLEAN :
         dl' = [dl EXCEPT !.op = "request", !.cap = cap, !.ret = IF ok THEN 0 ELSE -1,
                          !.pc = IF ok THEN "loop" ELSE "done"]
    /\ UNCHANGED pos

\* Mutant: the header is taken as the start of the body.
BodyWithHeader(d, piece) ==
    LET hdr == hdr_append(d.hdr, piece)
    IN  IF d.have THEN [d EXCEPT !.out = Take(@ \o piece, d.cap)]
        ELSE IF ~hdr_ends(hdr) THEN [d EXCEPT !.hdr = hdr]
        ELSE [d EXCEPT !.hdr = hdr, !.have = TRUE, !.content = ContentLength(req),
                       !.out = Take(hdr, d.cap)]
\* One piece of the answer, in the loop of http_download.
Got(d, piece) ==
    LET hdr == hdr_append(d.hdr, piece)
    IN  IF d.have THEN [d EXCEPT !.out = Take(@ \o piece, d.cap)]
        ELSE IF ~hdr_ends(hdr) THEN [d EXCEPT !.hdr = hdr]
        ELSE [d EXCEPT !.hdr = hdr, !.have = TRUE, !.content = ContentLength(req),
                       !.out = Take(Drop(hdr, BodyAt(hdr)), d.cap)]

\* The loop ends with the announced length, or with a full buffer.
Enough(d) ==
    \/ d.content >= 0 /\ Len(d.out) >= d.content
    \/ Len(d.out) >= d.cap

\* tcp_recv returns a piece.
RecvPiece ==
    /\ dl.pc = "loop"
    /\ \E n \in 1 .. MinOf(ChunkSize, Len(Answer(req)) - pos) :
         LET piece == SubSeq(Answer(req), pos + 1, pos + n)
             d == IF dl.op = "download" THEN Got(dl, piece)
                  ELSE [dl EXCEPT !.out = Take(@ \o piece, dl.cap)]
         IN  /\ dl' = IF Enough(d) THEN [d EXCEPT !.pc = "close"] ELSE d
             /\ pos' = pos + n
    /\ UNCHANGED req

\* tcp_recv has returned nothing, or -1, for as long as the loop waits.
IdleTimeout ==
    /\ dl.pc = "loop"
    /\ dl' = [dl EXCEPT !.pc = "close", !.idle = TRUE]
    /\ UNCHANGED <<req, pos>>

\* tcp_close; http_request then moves the body to the front of its buffer.
Finish ==
    /\ dl.pc = "close"
    /\ dl' = [dl EXCEPT !.pc = "done",
                        !.out = IF dl.op = "request" THEN Drop(@, BodyAt(@)) ELSE @]
    /\ UNCHANGED <<req, pos>>

\* The end of cmd_pkg: fat12_write_file, unless the download failed or is empty.
cmd_pkg ==
    /\ dl.op = "download" /\ dl.pc = "done" /\ dl.ret = 0 /\ dl.out # <<>>
    /\ dl' = [dl EXCEPT !.op = "pkg", !.saved = dl.out]
    /\ UNCHANGED <<req, pos>>

\* The shell reads its next command.
HttpRest == dl.pc = "done" /\ dl.op # "none" /\ UNCHANGED httpVars

HttpNext ==
    \/ \E cap \in Caps : http_download(cap) \/ http_request(cap)
    \/ RecvPiece \/ IdleTimeout \/ Finish \/ cmd_pkg \/ HttpRest

\* The timer ends the loop.
HttpFair == WF_httpVars(IdleTimeout) /\ WF_httpVars(Finish)

HttpSpec == HttpInit /\ [][HttpNext]_httpVars /\ HttpFair

-------------------------------------------------------------------------------
(* Properties.                                                             *)

\* The caller's buffer and the header buffer of http.c hold what fits.
HttpTypeOK ==
    /\ dl.op \in {"none", "download", "request", "pkg"}
    /\ dl.pc \in {"loop", "close", "done"} /\ pos \in 0 .. Len(Answer(req))
    /\ Len(dl.out) <= dl.cap /\ Len(dl.hdr) < HdrCap

\* What http_download has stored, and what cmd_pkg saves, is the start of the body, or
\* nothing, however the pieces fall, when the whole answer fits into the header buffer.
StoredIsBody ==
    dl.op \in {"download", "pkg"} /\ Len(Answer(req)) < HdrCap
      => IsPrefix(dl.out, req.body) /\ IsPrefix(dl.saved, req.body)

\* When the loop ends before the idle time is over, the caller has the whole body or
\* its buffer is full.
EndsWithBody ==
    dl.op = "download" /\ dl.pc # "loop" /\ dl.ret = 0 /\ ~dl.idle
      => Len(dl.out) = MinOf(Len(req.body), dl.cap)

\* http.h: "Download a URL body into out (binary-safe).  Stops on Content-Length,
\* connection close, or ~3s idle.  Returns 0 on success and sets *out_len to body byte
\* count."  An http_download that has been handed the whole answer, and returns 0, has
\* stored the body, up to its buffer's size.  hdr_ends looks only at the end of what has
\* come: when a piece holds the empty line and the start of the body, the header is never
\* seen to end, and the call returns 0 with nothing stored.
DownloadStoresBody ==
    dl.op = "download" /\ dl.pc = "done" /\ dl.ret = 0
    /\ pos = Len(Answer(req)) /\ Len(Answer(req)) < HdrCap
      => dl.out = Take(req.body, dl.cap)

\* A download holds nothing but the start of the body, and when http_download stops
\* before the idle time is over it holds all of it that fits.
HttpSafe == HttpTypeOK /\ StoredIsBody /\ EndsWithBody
===============================================================================
