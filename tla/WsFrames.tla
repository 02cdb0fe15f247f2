------------------------------- MODULE WsFrames -------------------------------
(***************************************************************************)
(* How websocket_reading takes frames from a byte stream that arrives in   *)
(* pieces of any size.  A byte is known by the frame and the field it is a *)
(* part of, so that a byte read as something else can be told.  What the   *)
(* frames do to the subscriber is in Websocket; here the peer publishes.   *)
(***************************************************************************)
EXTENDS Naturals, Sequences, SequencesExt, FiniteSetsExt

CONSTANTS Frames,     \* the kinds of frames that clients send
          MaxFrames   \* bound: frames of one stream

\* A frame: a control or a data frame with len bytes of payload, whose length
\* takes ext bytes more than the header, with or without a mask.
Frame == [control : BOOLEAN, ext : {0, 2, 8}, mask : BOOLEAN, len : Nat]

ASSUME FramesAssumption == MaxFrames \in Nat /\ \A f \in Frames : f \in Frame

VARIABLE rd
rdVars == <<rd>>

Field(i, name, n) == [k \in 1 .. n |-> <<i, name, k>>]
Bytes(i, f) == Field(i, "head", 2) \o Field(i, "size", f.ext)
               \o Field(i, "mask", IF f.mask THEN 4 ELSE 0) \o Field(i, "payload", f.len)

\* stream: the frames sent; sent: their bytes; pos: how many were received;
\* here: how many have arrived.  got is what lies between start and last of
\* the buffer that is being filled.
websocket_init_frame(stream) ==
    [stream |-> stream, pos |-> 0, here |-> 0, step |-> "START", got |-> <<>>,
     reading |-> FALSE, n |-> 1, misread |-> FALSE, split |-> FALSE,
     sent |-> FoldLeft(LAMBDA bytes, i : bytes \o Bytes(i, stream[i]), <<>>,
                       [i \in 1 .. Len(stream) |-> i])]

\* The next event of the connection: set_buffer with the frame's last.
Enter(s) == [s EXCEPT !.reading = TRUE]

set_buffer(s) == [s EXCEPT !.got = <<>>]

Current(s) == s.stream[s.n]

\* c->recv takes what is there, up to the len bytes that the buffer is for.
\* The result is OK, AGAIN when bytes are still missing.
recv(s, len) ==
    LET m == Min({len - Len(s.got), s.here - s.pos})
    IN [s EXCEPT !.got = @ \o SubSeq(s.sent, s.pos + 1, s.pos + m), !.pos = @ + m]

ws_recv(s, len) ==
    LET t == recv(s, len) IN [s |-> t, rc |-> IF Len(t.got) < len THEN "AGAIN" ELSE "OK"]

\* The buffer is used as the field of the current frame.
Take(s, field, len) ==
    [s EXCEPT !.misread = @ \/ s.got # Field(s.n, field, len)]

\* The exit: the place in the buffer is kept for the next event.
Again(s) == [s EXCEPT !.reading = FALSE]

read_start(s) ==
    LET r == ws_recv(s, 2)
    IN IF r.rc = "AGAIN" THEN Again(r.s)
       ELSE set_buffer([Take(r.s, "head", 2) EXCEPT !.step = "GET_REAL_SIZE"])

read_real_size(s) ==
    LET ext == Current(s).ext
        r == ws_recv(s, ext)
    IN IF r.rc = "AGAIN" THEN Again(r.s)
       ELSE set_buffer([Take(r.s, "size", ext) EXCEPT !.step = "GET_MASK_KEY"])

read_mask_key(s) ==
    LET len == IF Current(s).mask THEN 4 ELSE 0
        r == ws_recv(s, len)
    IN IF r.rc = "AGAIN" THEN Again(r.s)
       ELSE set_buffer([Take(r.s, "mask", len) EXCEPT !.step = "GET_PAYLOAD"])

\* Fault: the payload is read from its start at each event.
read_data_payload_over(s) ==
    LET r == ws_recv(set_buffer(s), Current(s).len)
    IN IF r.rc = "AGAIN" THEN Again(r.s) ELSE [Take(r.s, "payload", Current(s).len)
                                                  EXCEPT !.step = "DONE"]

\* frame->payload is NULL until the first try, and stays with the frame.
read_data_payload(s) ==
    LET r == ws_recv(s, Current(s).len)
    IN IF r.rc = "AGAIN" THEN Again(r.s) ELSE [Take(r.s, "payload", Current(s).len)
                                                  EXCEPT !.step = "DONE"]

\* The payload of a control frame goes to a buffer on the stack: each try
\* starts from its beginning.
read_control_payload(s) ==
    LET r == ws_recv([s EXCEPT !.got = <<>>, !.split = @ \/ s.got # <<>>], Current(s).len)
    IN IF r.rc = "AGAIN" THEN Again(r.s) ELSE [Take(r.s, "payload", Current(s).len)
                                                  EXCEPT !.step = "DONE"]

read_payload(s) == IF Current(s).control THEN read_control_payload(s) ELSE read_data_payload(s)

\* The frame has been handled: "restart loop".
restart(s) == [set_buffer(s) EXCEPT !.n = @ + 1, !.step = "START",
                                    !.reading = s.n < Len(s.stream)]

-----------------------------------------------------------------------------
FramesInit == \E n \in 1 .. MaxFrames : \E stream \in [1 .. n -> Frames] :
                  rd = websocket_init_frame(stream)

arrive == /\ ~rd.reading
          /\ \E m \in (rd.here + 1) .. Len(rd.sent) : rd' = Enter([rd EXCEPT !.here = m])

Step(name, read(_)) == rd.reading /\ rd.step = name /\ rd' = read(rd)

websocket_reading == \/ Step("START", read_start)
                     \/ Step("GET_REAL_SIZE", read_real_size)
                     \/ Step("GET_MASK_KEY", read_mask_key)
                     \/ Step("GET_PAYLOAD", read_payload)
                     \/ Step("DONE", restart)

FramesNext == ~rd.misread /\ (arrive \/ websocket_reading)
FramesFairness == WF_rdVars(~rd.misread /\ arrive) /\ WF_rdVars(~rd.misread /\ websocket_reading)
FramesSpec == FramesInit /\ [][FramesNext]_rdVars /\ FramesFairness

-----------------------------------------------------------------------------
\* Whatever the pieces in which bytes arrive, each byte is read as what it is
\* and every frame that was sent is read, unless the payload of a control
\* frame arrived in more than one piece.
AllFramesRead == <>[](rd.split \/ (rd.n > Len(rd.stream) /\ ~rd.misread))
=============================================================================
