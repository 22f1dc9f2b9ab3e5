------------------------------ MODULE TlStream ------------------------------
(***************************************************************************)
(* The timeline streams: rings of packets written by tracepoints under a   *)
(* stream's lock, read without it by the client that acquired them, and    *)
(* flushed by a timer (mali_kbase_tlstream.c); the contexts a client       *)
(* learns of through them (mali_kbase_core_linux.c).                       *)
(*                                                                         *)
(* Every message has size one.  Of the five streams there are a header, a  *)
(* summary and a body stream; those of auxiliary events are like them.     *)
(***************************************************************************)
EXTENDS Integers, Sequences, FiniteSets, SequencesExt

CONSTANTS
  PacketCount,   \* packets of a ring
  PacketSize,    \* messages of a packet
  Contexts,      \* bound: contexts that open and close
  MaxMessages,   \* bound: other tracepoints hit
  Sessions,      \* bound: times the streams are acquired
  ResetRaces     \* whether a reset, which takes no lock, may meet a writer

VARIABLES
  enabled,   \* kbase_tlstream_enabled
  ring,      \* the streams
  op,        \* who holds the lock of each stream, and what it is doing
  at,        \* what each thread is doing
  kctx_list, \* the device's list of contexts
  list_lock, \* who holds kctx_list_lock
  timer,     \* autoflush_timer_active
  reader,    \* the client's read
  messages,  \* how many of MaxMessages were written
  sessions,
  log        \* what was submitted and delivered since the last reset

vars == <<enabled, ring, op, at, kctx_list, list_lock, timer, reader, messages, sessions, log>>

Header == 1
Summary == 2
Body == 3
Streams == {Header, Summary, Body}
Numbered(s) == s = Body

\* What the timer does about a stream.
Flushes == <<"flushes header", "flushes summary", "flushes body">>

Threads == Contexts \cup {"client", "app", "timer"}
Free == [by |-> "nobody", kind |-> "none", msg |-> <<>>, pc |-> "none", w |-> 0, rb |-> 0, size |-> 0]
NoRead == [pc |-> "idle", s |-> 0, rb |-> 0, size |-> 0, copy |-> <<>>, number |-> 0]

EmptyPacket == [size |-> 0, data |-> [i \in 1 .. PacketSize |-> <<>>], number |-> 0]

\* A message, and what a packet holds of them.
Msg(kind, x) == <<kind, x>>
Holds(p) == SubSeq(p.data, 1, p.size)

Slot(w) == w % PacketCount
NextPacket(s) == ring[s].buffer[Slot(ring[s].wbi)]

Init ==
  /\ enabled = FALSE
  \* autoflush_counter is not initialised.
  /\ \E c \in {-1, 0} :
       ring = [s \in Streams |-> [buffer |-> [i \in 0 .. PacketCount - 1 |-> EmptyPacket],
                                  wbi |-> 0, rbi |-> 0, autoflush |-> c]]
  /\ op = [s \in Streams |-> Free]
  /\ at = [t \in Threads |-> "idle"]
  /\ kctx_list = {}
  /\ list_lock = "nobody"
  /\ timer = FALSE
  /\ reader = NoRead
  /\ messages = 0 /\ sessions = 0
  /\ log = [s \in Streams |-> [sent |-> <<>>, got |-> <<>>]]

------------------------------------------------------------------------------
(* Writing, under the lock of the stream *)

\* kbasep_tlstream_msgbuf_acquire or _flush_stream takes the lock.
Begin(t, s, kind, msg, next) ==
  /\ op[s] = Free
  /\ op' = [op EXCEPT ![s] = [Free EXCEPT !.by = t, !.kind = kind, !.msg = msg, !.pc = "start"]]
  /\ at' = [at EXCEPT ![t] = next]

\* A message that does not fit, or a flush of a packet that holds something,
\* submits the packet: its number is written.
Submits(s) ==
  IF op[s].kind = "msg" THEN NextPacket(s).size + 1 > PacketSize ELSE NextPacket(s).size > 0
OpStart(s) ==
  /\ op[s].pc = "start"
  /\ LET w == ring[s].wbi
     IN  IF Submits(s)
         THEN /\ op' = [op EXCEPT ![s] = [@ EXCEPT !.pc = "publish", !.w = w, !.rb = ring[s].rbi]]
              /\ ring' = [ring EXCEPT ![s].autoflush = -1,
                                      ![s].buffer[Slot(w)].number = IF Numbered(s) THEN w ELSE 0]
         ELSE /\ op' = [op EXCEPT ![s] =
                          IF op[s].kind = "flush" THEN Free
                          ELSE [@ EXCEPT !.pc = "write", !.w = w, !.size = NextPacket(s).size]]
              /\ UNCHANGED ring
  /\ UNCHANGED <<enabled, at, kctx_list, list_lock, timer, reader, messages, sessions, log>>

\* The write index moves on: the packet is the reader's.
OpPublish(s) ==
  /\ op[s].pc = "publish"
  /\ ring' = [ring EXCEPT ![s].wbi = op[s].w + 1]
  /\ op' = [op EXCEPT ![s] = [@ EXCEPT !.pc = "overflow", !.w = @ + 1]]
  /\ log' = [log EXCEPT ![s].sent = Append(@, Holds(ring[s].buffer[Slot(op[s].w)]))]
  /\ UNCHANGED <<enabled, at, kctx_list, list_lock, timer, reader, messages, sessions>>

\* Mutant of Overflows: the packet being written is not kept from the reader.
Overflows_Late(s) == op[s].w - op[s].rb = PacketCount + 1

\* The ring is full, the next packet to write the oldest one to read.
Overflows(s) == op[s].w - op[s].rb = PacketCount

\* atomic_cmpxchg: the oldest packet is dropped, unless the reader moved on.
OpOverflow(s) ==
  /\ op[s].pc = "overflow"
  /\ ring' = IF Overflows(s) /\ ring[s].rbi = op[s].rb THEN [ring EXCEPT ![s].rbi = @ + 1] ELSE ring
  /\ op' = [op EXCEPT ![s] = [@ EXCEPT !.pc = "write", !.size = 0]]
  /\ UNCHANGED <<enabled, at, kctx_list, list_lock, timer, reader, messages, sessions, log>>

\* Mutant of OpWrite: the timer is not told that the stream holds something.
OpWrite_Silent(s) ==
  /\ op[s].pc = "write"
  /\ LET slot == Slot(op[s].w)
     IN  ring' = IF op[s].kind = "msg"
                 THEN [ring EXCEPT ![s].buffer[slot].size = op[s].size + 1,
                                   ![s].buffer[slot].data[op[s].size + 1] = op[s].msg]
                 ELSE [ring EXCEPT ![s].buffer[slot].size = op[s].size]
  /\ op' = [op EXCEPT ![s] = Free]
  /\ UNCHANGED <<enabled, at, kctx_list, list_lock, timer, reader, messages, sessions, log>>

\* The size of the packet to write now and the message, which the timer has
\* to flush; the lock is dropped.
OpWrite(s) ==
  /\ op[s].pc = "write"
  /\ LET slot == Slot(op[s].w)
     IN  ring' = IF op[s].kind = "msg"
                 THEN [ring EXCEPT ![s].buffer[slot].size = op[s].size + 1,
                                   ![s].buffer[slot].data[op[s].size + 1] = op[s].msg,
                                   ![s].autoflush = 0]
                 ELSE [ring EXCEPT ![s].buffer[slot].size = op[s].size]
  /\ op' = [op EXCEPT ![s] = Free]
  /\ UNCHANGED <<enabled, at, kctx_list, list_lock, timer, reader, messages, sessions, log>>

Writing(t) == \E s \in Streams : op[s].by = t

OpStep(s) == OpStart(s) \/ OpPublish(s) \/ OpOverflow(s) \/ OpWrite(s)

------------------------------------------------------------------------------
(* Tracepoints *)

\* A tracepoint of the body stream that looked at the flag; it writes later.
AppTrace ==
  /\ at["app"] = "idle" /\ ~Writing("app") /\ enabled /\ messages < MaxMessages
  /\ at' = [at EXCEPT !["app"] = "traces"]
  /\ messages' = messages + 1
  /\ UNCHANGED <<enabled, ring, op, kctx_list, list_lock, timer, reader, sessions, log>>
AppWrite ==
  /\ at["app"] = "traces"
  /\ Begin("app", Body, "msg", Msg("trace", messages), "idle")
  /\ UNCHANGED <<enabled, ring, kctx_list, list_lock, timer, reader, messages, sessions, log>>

\* Mutant of CtxListed: the context is announced before the list is locked.
CtxListed_Unlocked(c) ==
  /\ at[c] = "idle"
  /\ kctx_list' = kctx_list \cup {c}
  /\ at' = [at EXCEPT ![c] = IF enabled THEN "announces" ELSE "listed"]
  /\ UNCHANGED <<enabled, ring, op, list_lock, timer, reader, messages, sessions, log>>

\* kbase_open: under the lock of the list the context enters it and is
\* announced.
CtxListed(c) ==
  /\ at[c] = "idle" /\ list_lock = "nobody"
  /\ list_lock' = c
  /\ kctx_list' = kctx_list \cup {c}
  /\ at' = [at EXCEPT ![c] = IF enabled THEN "announces" ELSE "listed"]
  /\ UNCHANGED <<enabled, ring, op, timer, reader, messages, sessions, log>>
CtxAnnounced(c) ==
  /\ at[c] = "announces"
  /\ Begin(c, Body, "msg", Msg("new", c), "listed")
  /\ UNCHANGED <<enabled, ring, kctx_list, list_lock, timer, reader, messages, sessions, log>>
CtxOpen(c) ==
  /\ at[c] = "listed" /\ ~Writing(c)
  /\ at' = [at EXCEPT ![c] = "open"]
  /\ list_lock' = IF list_lock = c THEN "nobody" ELSE list_lock
  /\ UNCHANGED <<enabled, ring, op, kctx_list, timer, reader, messages, sessions, log>>

\* kbase_release: the end is announced first, the list left after.
CtxClose(c) ==
  /\ at[c] = "open"
  /\ at' = [at EXCEPT ![c] = IF enabled THEN "ends" ELSE "leaves"]
  /\ UNCHANGED <<enabled, ring, op, kctx_list, list_lock, timer, reader, messages, sessions, log>>
CtxEnds(c) ==
  /\ at[c] = "ends"
  /\ Begin(c, Body, "msg", Msg("del", c), "leaves")
  /\ UNCHANGED <<enabled, ring, kctx_list, list_lock, timer, reader, messages, sessions, log>>
CtxLeaves(c) ==
  /\ at[c] = "leaves" /\ ~Writing(c) /\ list_lock = "nobody"
  /\ kctx_list' = kctx_list \ {c}
  /\ at' = [at EXCEPT ![c] = "closed"]
  /\ UNCHANGED <<enabled, ring, op, list_lock, timer, reader, messages, sessions, log>>

------------------------------------------------------------------------------
(* The client: kbase_tlstream_acquire, then reads, then the close *)

\* kbasep_timeline_stream_reset takes no lock.
Reset(S) ==
  /\ ResetRaces \/ \A s \in S : op[s] = Free
  /\ ring' = [s \in Streams |->
                IF s \in S THEN [ring[s] EXCEPT !.wbi = 0, !.rbi = 0,
                                                !.buffer = [i \in DOMAIN @ |-> [@[i] EXCEPT !.size = 0]]]
                ELSE ring[s]]
  /\ log' = [s \in Streams |-> IF s \in S THEN [sent |-> <<>>, got |-> <<>>] ELSE log[s]]

Client(from, to) == at["client"] = from /\ ~Writing("client") /\ at' = [at EXCEPT !["client"] = to]

Acquire ==
  /\ Client("idle", "reset") /\ ~enabled /\ sessions < Sessions
  /\ enabled' = TRUE /\ sessions' = sessions + 1
  /\ UNCHANGED <<ring, op, kctx_list, list_lock, timer, reader, messages, log>>

\* The descriptor cannot be had, or the header and summary streams are reset.
AcquireFails ==
  /\ Client("reset", "idle")
  /\ enabled' = FALSE
  /\ UNCHANGED <<ring, op, kctx_list, list_lock, timer, reader, messages, sessions, log>>
AcquireReset ==
  /\ Client("reset", "header")
  /\ Reset({Header, Summary})
  /\ UNCHANGED <<enabled, op, kctx_list, list_lock, timer, reader, messages, sessions>>

\* kbasep_tlstream_timeline_header writes the header and flushes it.
AcquireHeader ==
  /\ at["client"] = "header" /\ ~Writing("client")
  /\ Begin("client", Header, "msg", Msg("header", 0), "flush header")
  /\ UNCHANGED <<enabled, ring, kctx_list, list_lock, timer, reader, messages, sessions, log>>
AcquireFlush ==
  /\ at["client"] = "flush header" /\ ~Writing("client")
  /\ Begin("client", Header, "flush", <<>>, "timer")
  /\ UNCHANGED <<enabled, ring, kctx_list, list_lock, timer, reader, messages, sessions, log>>

AcquireTimer ==
  /\ Client("timer", "objects")
  /\ timer' = TRUE
  /\ UNCHANGED <<enabled, ring, op, kctx_list, list_lock, reader, messages, sessions, log>>

\* kbase_create_timeline_objects: slots, address spaces and the GPU, the
\* contexts on the list; the body streams are reset before it is unlocked.
AcquireObjects ==
  /\ at["client"] = "objects" /\ ~Writing("client")
  /\ Begin("client", Summary, "msg", Msg("objects", 0), "lock")
  /\ UNCHANGED <<enabled, ring, kctx_list, list_lock, timer, reader, messages, sessions, log>>
AcquireLock ==
  /\ Client("lock", "contexts") /\ list_lock = "nobody"
  /\ list_lock' = "client"
  /\ UNCHANGED <<enabled, ring, op, kctx_list, timer, reader, messages, sessions, log>>
SummaryOf == UNION {ToSet(q) : q \in ToSet(log[Summary].sent)} \cup ToSet(Holds(NextPacket(Summary)))
Unsaid == {c \in kctx_list : Msg("new", c) \notin SummaryOf}
AcquireContext ==
  /\ at["client"] = "contexts" /\ ~Writing("client")
  /\ \E c \in Unsaid : Begin("client", Summary, "msg", Msg("new", c), "contexts")
  /\ UNCHANGED <<enabled, ring, kctx_list, list_lock, timer, reader, messages, sessions, log>>
AcquireBody ==
  /\ Client("contexts", "flush") /\ Unsaid = {}
  /\ Reset({Body})
  /\ list_lock' = "nobody"
  /\ UNCHANGED <<enabled, op, kctx_list, timer, reader, messages, sessions>>

\* Mutant of AcquireFlushAll: the summary is left to the timer.
AcquireFlushAll_Lazy(s, to) ==
  /\ at["client"] = IF s = Summary THEN "flush" ELSE "flush body"
  /\ at' = [at EXCEPT !["client"] = to]
  /\ UNCHANGED <<enabled, ring, op, kctx_list, list_lock, timer, reader, messages, sessions, log>>

\* kbase_tlstream_flush_streams, then the client has its descriptor.
AcquireFlushAll(s, to) ==
  /\ at["client"] = IF s = Summary THEN "flush" ELSE "flush body"
  /\ ~Writing("client")
  /\ Begin("client", s, "flush", <<>>, to)
  /\ UNCHANGED <<enabled, ring, kctx_list, list_lock, timer, reader, messages, sessions, log>>

\* kbasep_tlstream_release.
Release ==
  /\ Client("reading", "idle") /\ reader = NoRead
  /\ enabled' = FALSE /\ timer' = FALSE
  /\ UNCHANGED <<ring, op, kctx_list, list_lock, reader, messages, sessions, log>>

------------------------------------------------------------------------------
(* kbasep_tlstream_read *)

\* kbasep_tlstream_packet_pending: the first stream with a packet.
Pending == {s \in Streams : ring[s].rbi # ring[s].wbi}
ReadPacket ==
  /\ at["client"] = "reading" /\ ~Writing("client") /\ reader.pc = "idle" /\ Pending # {}
  /\ LET s == CHOOSE x \in Pending : \A y \in Pending : x <= y
         packet == ring[s].buffer[Slot(ring[s].rbi)]
     IN  reader' = [pc |-> "copy", s |-> s, rb |-> ring[s].rbi, size |-> packet.size,
                    copy |-> <<>>, number |-> packet.number]
  /\ UNCHANGED <<enabled, ring, op, at, kctx_list, list_lock, timer, messages, sessions, log>>

\* copy_to_user, while the writers go on.
ReadCopy ==
  /\ reader.pc = "copy"
  /\ IF Len(reader.copy) < reader.size
     THEN reader' = [reader EXCEPT !.copy = Append(@, ring[reader.s].buffer[Slot(reader.rb)].data[Len(@) + 1])]
     ELSE reader' = [reader EXCEPT !.pc = "check"]
  /\ UNCHANGED <<enabled, ring, op, at, kctx_list, list_lock, timer, messages, sessions, log>>

\* Mutant of StillOldest: the reader trusts what it copied.
StillOldest_Assumed == TRUE

\* The packet was not dropped meanwhile.
StillOldest == ring[reader.s].rbi = reader.rb

ReadCheck ==
  /\ reader.pc = "check"
  /\ reader' = IF StillOldest THEN [reader EXCEPT !.pc = "take"] ELSE NoRead
  /\ UNCHANGED <<enabled, ring, op, at, kctx_list, list_lock, timer, messages, sessions, log>>

\* The read index moves on, even past a packet dropped since the check.
ReadTake ==
  /\ reader.pc = "take"
  /\ ring' = [ring EXCEPT ![reader.s].rbi = @ + 1]
  /\ log' = [log EXCEPT ![reader.s].got = Append(@, [at |-> reader.rb, number |-> reader.number, msgs |-> reader.copy])]
  /\ reader' = NoRead
  /\ UNCHANGED <<enabled, op, at, kctx_list, list_lock, timer, messages, sessions>>

------------------------------------------------------------------------------
(* kbasep_tlstream_autoflush_timer_callback, a stream at a time *)

\* The second tick without a new message flushes; the counter stops at 2.
TimerTick(s) ==
  /\ timer /\ at["timer"] = "idle" /\ ~Writing("timer") /\ ring[s].autoflush >= 0
  /\ ring' = [ring EXCEPT ![s].autoflush = IF @ = 2 THEN 2 ELSE @ + 1]
  /\ at' = [at EXCEPT !["timer"] = IF ring[s].autoflush = 0 THEN "idle" ELSE Flushes[s]]
  /\ UNCHANGED <<enabled, op, kctx_list, list_lock, timer, reader, messages, sessions, log>>
TimerFlush(s) ==
  /\ at["timer"] = Flushes[s]
  /\ Begin("timer", s, "flush", <<>>, "idle")
  /\ UNCHANGED <<enabled, ring, kctx_list, list_lock, timer, reader, messages, sessions, log>>

Next ==
  \/ \E s \in Streams : OpStep(s) \/ TimerTick(s) \/ TimerFlush(s)
  \/ AppTrace \/ AppWrite
  \/ \E c \in Contexts :
       CtxListed(c) \/ CtxAnnounced(c) \/ CtxOpen(c) \/ CtxClose(c) \/ CtxEnds(c) \/ CtxLeaves(c)
  \/ Acquire \/ AcquireFails \/ AcquireReset \/ AcquireHeader \/ AcquireFlush \/ AcquireTimer
  \/ AcquireObjects \/ AcquireLock \/ AcquireContext \/ AcquireBody
  \/ AcquireFlushAll(Summary, "flush body") \/ AcquireFlushAll(Body, "reading")
  \/ Release
  \/ ReadPacket \/ ReadCopy \/ ReadCheck \/ ReadTake

Spec == Init /\ [][Next]_vars

------------------------------------------------------------------------------
(* Properties *)

\* A packet the client is given is, unmixed, the one submitted at its place and
\* carries that place as its number; packets come in order.
DeliveredIntact ==
  \A s \in Streams :
     /\ \A i \in DOMAIN log[s].got :
          LET p == log[s].got[i]
          IN  /\ p.at < Len(log[s].sent) /\ p.msgs = log[s].sent[p.at + 1]
              /\ Numbered(s) => p.number = p.at
     /\ \A i \in 1 .. Len(log[s].got) - 1 : log[s].got[i].at < log[s].got[i + 1].at
     /\ ring[s].wbi - ring[s].rbi \in 0 .. PacketCount

\* The messages of a stream since its reset, submitted or not.
Count(q, m) == Cardinality({i \in DOMAIN q : q[i] = m})
Said(s, m) == Count(FlattenSeq(log[s].sent), m) + (IF op[s].pc = "overflow" THEN 0 ELSE Count(Holds(NextPacket(s)), m))

\* While a client reads, every context on the list was announced to it once:
\* in the summary or in the body, never in both.
AnnouncedOnce ==
  at["client"] \in {"flush", "flush body", "reading"} =>
    \A c \in Contexts :
       at[c] = "open" /\ op[Body] = Free /\ op[Summary] = Free =>
          Said(Summary, Msg("new", c)) + Said(Body, Msg("new", c)) = 1

\* The client gets the header and the summary, as they were when it acquired
\* the streams, before anything of the body.
SummaryFirst ==
  log[Body].got # <<>> /\ at["client"] = "reading" =>
    /\ Len(log[Header].got) = Len(log[Header].sent) /\ log[Header].sent # <<>>
    /\ Len(log[Summary].got) = Len(log[Summary].sent)

\* What is written and not submitted is on the timer's way: the second tick
\* flushes it.
NothingForgotten ==
  at["client"] = "reading" =>
    \A s \in Streams : op[s] = Free /\ NextPacket(s).size > 0 => timer /\ ring[s].autoflush >= 0

==============================================================================
