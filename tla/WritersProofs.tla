--------------------------- MODULE WritersProofs ----------------------------
(***************************************************************************)
(* Proofs about Writers, for every set of codes and of requests and any    *)
(* number of writes and header fields: what is logged, what is left of an  *)
(* answer when the handler panics, and what reaches the client when it     *)
(* returns.  The panic looks at the connection and at the history of a     *)
(* bare one; for the rest it matters what the buffers hold.                *)
(***************************************************************************)
EXTENDS Writers, SequenceTheorems, TLAPS

Pieces == {"plain", "gzip", "problem"} \X Nat

\* A writer is a record of three parts, and its header maps names.
IsWriter(w) ==
    /\ w = [header |-> w.header, status |-> w.status, body |-> w.body]
    /\ w.header = [n \in Names |-> w.header[n]]
    /\ w.status \in Nat
    /\ w.body \in Seq(Pieces)

Shape ==
    /\ IsWriter(plain)
    /\ pc = "running" => /\ writers = [w \in Layers |-> writers[w]]
                         /\ IsWriter(writers["conn"])
    /\ gzip \in [wrote: BOOLEAN, on: BOOLEAN]
    /\ asked = [n \in Names |-> asked[n]]
    /\ logged = [status |-> logged.status, done |-> logged.done]
    /\ did = [calls |-> did.calls, chunks |-> did.chunks,
              early |-> did.early, late |-> did.late]
    /\ did.chunks \in Nat
    /\ config \subseteq {"recover", "timeout", "etag", "compress"}

\* A bare connection takes no hint for its status.
StatusIsFinal == plain.status = 0 \/ plain.status >= 200

\* What Logging has recorded so far.
LogFollows ==
    ~did.late =>
        \/ logged.status = PlainStatus
        \/ did.early /\ logged.status = Early /\ PlainStatus = 200

\* Nothing reaches the connection past a buffer.
BuffersKeep ==
    Buffered /\ pc = "running" =>
        /\ writers["conn"].status = 0
        /\ writers["conn"].body = <<>>
        /\ writers["conn"].header["encoding"] = <<>>
        /\ writers["conn"].header["length"] = <<>>

\* Without one, the connection follows the bare one but for gzip.
ConnFollows ==
    ~Buffered /\ pc = "running" =>
        /\ writers["conn"].status = plain.status
        /\ writers["conn"].body = <<>> <=> plain.body = <<>>
        /\ plain.status = 0 => plain.body = <<>>
        /\ ~gzip.on =>
              /\ writers["conn"].header["encoding"] = plain.header["encoding"]
              /\ writers["conn"].header["length"] = plain.header["length"]
        /\ gzip.on => writers["conn"].header["encoding"] # <<>>
        /\ writers["conn"].header["type"] # <<"problem">>

Inv ==
    /\ Shape
    /\ StatusIsFinal
    /\ LogFollows
    /\ BuffersKeep
    /\ ConnFollows
    /\ PanicAnswerClean

-----------------------------------------------------------------------------
(***************************************************************************)
(* The operators on writers.                                               *)
(***************************************************************************)
LEMMA LengthsDiffer ==
    ASSUME NEW b \in Seq(Pieces), NEW one, NEW both,
           Len(one) = 1, Len(both) = Len(b) + 1, both = one
    PROVE  Len(b) = 0
<1>1. Len(b) \in Nat
  OBVIOUS
<1>2. Len(b) + 1 = 1
  OBVIOUS
<1> QED BY <1>1, <1>2

LEMMA OneMore ==
    ASSUME NEW b \in Seq(Pieces), NEW x \in Pieces
    PROVE  /\ b \o <<x>> \in Seq(Pieces)
           /\ b \o <<x>> # <<>>
           /\ b \o <<x>> = <<x>> <=> b = <<>>
<1>1. <<x>> \in Seq(Pieces) /\ Len(<<x>>) = 1
  OBVIOUS
<1>2. b \o <<x>> \in Seq(Pieces) /\ Len(b \o <<x>>) = Len(b) + 1
  BY <1>1
<1>3. Len(b) = 0 <=> b = <<>>
  OBVIOUS
<1>4. b = <<>> => b \o <<x>> = <<x>>
  BY <1>1
<1>5. b \o <<x>> # <<>>
  BY <1>2
<1>6. b \o <<x>> = <<x>> => Len(b) = 0
  BY <1>1, <1>2, LengthsDiffer
<1> QED BY <1>2, <1>3, <1>4, <1>5, <1>6

LEMMA HeaderWritten ==
    ASSUME NEW conn, IsWriter(conn), NEW code \in Nat
    PROVE  ConnWriteHeader(conn, code) =
             [header |-> conn.header,
              status |-> IF conn.status # 0 \/ code < 200 THEN conn.status
                         ELSE code,
              body |-> conn.body]
BY DEF ConnWriteHeader, IsWriter

\* The body after a write: nothing if the status takes none.
Longer(conn, piece) ==
    IF conn.status \in {204, 304} THEN conn.body ELSE conn.body \o <<piece>>

LEMMA BodyReplaced ==
    ASSUME NEW w, IsWriter(w), NEW b
    PROVE  [w EXCEPT !.body = b] =
             [header |-> w.header, status |-> w.status, body |-> b]
BY DEF IsWriter

LEMMA BodyWritten ==
    ASSUME NEW conn, IsWriter(conn), NEW piece \in Pieces
    PROVE  /\ IsWriter(ConnWrite(conn, <<piece>>))
           /\ ConnWrite(conn, <<piece>>).header = conn.header
           /\ ConnWrite(conn, <<piece>>).status =
                 IF conn.status = 0 THEN 200 ELSE conn.status
           /\ ConnWrite(conn, <<piece>>).body = Longer(conn, piece)
<1> DEFINE sent == ConnWriteHeader(conn, 200)
           more == sent.body \o <<piece>>
           new == ConnWrite(conn, <<piece>>)
<1>1. /\ IsWriter(sent) /\ sent.header = conn.header /\ sent.body = conn.body
      /\ sent.status = IF conn.status = 0 THEN 200 ELSE conn.status
  BY HeaderWritten DEF IsWriter
<1>2. new = IF sent.status \in {204, 304} THEN sent
            ELSE [sent EXCEPT !.body = more]
  BY DEF ConnWrite
<1>3. more \in Seq(Pieces) /\ more = conn.body \o <<piece>>
  BY <1>1, OneMore DEF IsWriter
<1>4. conn.status \in {204, 304} <=> sent.status \in {204, 304}
  BY <1>1
<1> HIDE DEF sent, more, new
<1>5. /\ IsWriter(new) /\ new.header = conn.header /\ new.status = sent.status
      /\ new.body = Longer(conn, piece)
  <2>1. CASE sent.status \in {204, 304}
    BY <1>1, <1>2, <1>4, <2>1 DEF Longer
  <2>2. CASE sent.status \notin {204, 304}
    <3>1. new = [header |-> sent.header, status |-> sent.status, body |-> more]
      BY <1>1, <1>2, <2>2, BodyReplaced
    <3> QED BY <1>1, <1>3, <1>4, <2>2, <3>1 DEF Longer, IsWriter
  <2> QED BY <2>1, <2>2
<1> QED BY <1>1, <1>5 DEF new

\* Only the writer that is called changes.
LEMMA StatusPut ==
    ASSUME NEW ws, ws = [w \in Layers |-> ws[w]], NEW w \in Layers, NEW code
    PROVE  LET new == PutStatus(ws, w, code)
           IN  /\ new = [l \in Layers |-> new[l]]
               /\ w # "conn" => new["conn"] = ws["conn"]
               /\ w = "conn" => new["conn"] = ConnWriteHeader(ws["conn"], code)
BY DEF PutStatus, Layers

LEMMA BodyPut ==
    ASSUME NEW ws, ws = [w \in Layers |-> ws[w]], NEW w \in Layers, NEW pieces
    PROVE  LET new == PutBody(ws, w, pieces)
           IN  /\ new = [l \in Layers |-> new[l]]
               /\ w # "conn" => new["conn"] = ws["conn"]
               /\ w = "conn" => new["conn"] = ConnWrite(ws["conn"], pieces)
BY DEF PutBody, Layers

LEMMA HeaderPut ==
    ASSUME NEW ws, ws = [w \in Layers |-> ws[w]], NEW l \in Layers,
           IsWriter(ws[l]), NEW n \in Names, NEW values,
           NEW new, new = PutHeader(ws, l, n, values),
           NEW h, h = [ws[l].header EXCEPT ![n] = values]
    PROVE  /\ new = [m \in Layers |-> new[m]]
           /\ \A m \in Layers \ {l} : new[m] = ws[m]
           /\ new[l] = IF l = "conn" /\ ws[l].status # 0 THEN ws[l]
                       ELSE [header |-> h, status |-> ws[l].status,
                             body |-> ws[l].body]
           /\ IsWriter(new[l])
           /\ h = [m \in Names |-> IF m = n THEN values
                                   ELSE ws[l].header[m]]
<1> DEFINE w == IF l = "conn" /\ ws[l].status # 0 THEN ws[l]
                ELSE [ws[l] EXCEPT !.header[n] = values]
<1>1. new = [ws EXCEPT ![l] = w]
  BY DEF PutHeader
<1>2. w = IF l = "conn" /\ ws[l].status # 0 THEN ws[l]
          ELSE [header |-> h, status |-> ws[l].status, body |-> ws[l].body]
  BY DEF IsWriter
<1>3. h = [m \in Names |-> IF m = n THEN values ELSE ws[l].header[m]]
  BY DEF IsWriter
<1> HIDE DEF w
<1>4. /\ new = [m \in Layers |-> new[m]] /\ new[l] = w
      /\ \A m \in Layers \ {l} : new[m] = ws[m]
  BY <1>1
<1>5. h = [m \in Names |-> h[m]]
  BY <1>3
<1>6. IsWriter(w)
  BY <1>2, <1>5 DEF IsWriter
<1> QED BY <1>2, <1>3, <1>4, <1>6

\* Base is the connection exactly if nothing buffers.
LEMMA BaseIsBuffer ==
    /\ Base \in Layers
    /\ Base = "conn" <=> ~Buffered
BY DEF Base, BelowETag, Buffered, Layers

-----------------------------------------------------------------------------
LEMMA InitEstablishes == Init => Inv
<1> SUFFICES ASSUME Init PROVE Inv
  OBVIOUS
<1>1. plain = [header |-> NoHeader, status |-> 0, body |-> <<>>]
  BY DEF Init, Fresh
<1>2. writers = [w \in Layers |->
                   IF w = BelowETag
                   THEN [Fresh EXCEPT !.header["policy"] = <<"outer">>]
                   ELSE Fresh]
  BY DEF Init, Layers
<1>3. writers["conn"] =
        [header |-> IF BelowETag = "conn"
                    THEN [NoHeader EXCEPT !["policy"] = <<"outer">>]
                    ELSE NoHeader,
         status |-> 0, body |-> <<>>]
  BY <1>2 DEF Fresh, Layers
<1>4. writers["conn"].header["encoding"] = <<>>
        /\ writers["conn"].header["length"] = <<>>
        /\ writers["conn"].header = [n \in Names |-> writers["conn"].header[n]]
  BY <1>3 DEF NoHeader, Names
<1>9. writers["conn"].header["type"] # <<"problem">>
  <2>1. writers["conn"].header["type"] = <<>>
    BY <1>3 DEF NoHeader, Names
  <2>2. <<"problem">> # <<>>
    OBVIOUS
  <2> QED BY <2>1, <2>2
<1>5. Shape
  <2>1. IsWriter(plain)
    BY <1>1 DEF IsWriter, NoHeader
  <2>2. IsWriter(writers["conn"])
    BY <1>3, <1>4 DEF IsWriter
  <2>3. writers = [w \in Layers |-> writers[w]]
    BY <1>2
  <2>4. asked = [n \in Names |-> asked[n]]
    BY DEF Init, NoHeader
  <2> QED BY <2>1, <2>2, <2>3, <2>4 DEF Init, Shape
<1>6. /\ plain.status = 0 /\ plain.body = <<>>
      /\ plain.header["encoding"] = <<>> /\ plain.header["length"] = <<>>
  BY <1>1 DEF NoHeader, Names
<1>7. /\ writers["conn"].status = 0 /\ writers["conn"].body = <<>>
  BY <1>3
<1>8. pc = "running" /\ logged.status = 200 /\ gzip.on = FALSE
  BY DEF Init
<1> QED BY <1>4, <1>5, <1>6, <1>7, <1>8, <1>9
        DEF Inv, StatusIsFinal, LogFollows, PlainStatus, BuffersKeep,
            ConnFollows, PanicAnswerClean

-----------------------------------------------------------------------------
(***************************************************************************)
(* The steps of a handler that is running.                                 *)
(***************************************************************************)
\* The writers after Compress has decided, before the call is passed on.
Decided ==
    IF StartsGzip THEN [writers EXCEPT ![Base].header = GzipHeader(@)]
    ELSE writers

LEMMA DecidedConn ==
    ASSUME Shape, pc = "running"
    PROVE  /\ Decided = [w \in Layers |-> Decided[w]]
           /\ Buffered => Decided["conn"] = writers["conn"]
           /\ IsWriter(Decided["conn"])
           /\ Decided["conn"].status = writers["conn"].status
           /\ Decided["conn"].body = writers["conn"].body
           /\ ~StartsGzip => Decided["conn"] = writers["conn"]
           /\ StartsGzip /\ ~Buffered =>
                 Decided["conn"].header["encoding"] = <<"gzip">>
           /\ Decided["conn"].header["type"] = writers["conn"].header["type"]
<1> DEFINE zipped == GzipHeader(writers["conn"].header)
<1>1. /\ writers = [w \in Layers |-> writers[w]] /\ IsWriter(writers["conn"])
      /\ "conn" \in Layers
  BY DEF Shape, Layers
<1>2. CASE ~StartsGzip
  BY <1>1, <1>2 DEF Decided
<1>3. CASE StartsGzip /\ Buffered
  <2>1. Base \in Layers /\ Base # "conn"
    BY <1>3, BaseIsBuffer
  <2>2. Decided = [writers EXCEPT ![Base].header = GzipHeader(@)]
    BY <1>3 DEF Decided
  <2>3. Decided["conn"] = writers["conn"]
    BY <1>1, <2>1, <2>2
  <2>4. Decided = [w \in Layers |-> Decided[w]]
    BY <1>1, <2>1, <2>2
  <2> QED BY <1>1, <1>3, <2>3, <2>4
<1>4. CASE StartsGzip /\ ~Buffered
  <2>1. Base = "conn"
    BY <1>4, BaseIsBuffer
  <2>2. Decided = [writers EXCEPT !["conn"].header = zipped]
    BY <1>4, <2>1 DEF Decided
  <2>3. /\ zipped = [n \in Names |-> zipped[n]]
        /\ zipped["encoding"] = <<"gzip">>
        /\ zipped["type"] = writers["conn"].header["type"]
    BY <1>1 DEF IsWriter, GzipHeader, Names
  <2> HIDE DEF zipped
  <2>4. Decided["conn"] =
          [header |-> zipped, status |-> writers["conn"].status,
           body |-> writers["conn"].body]
    BY <1>1, <2>2 DEF IsWriter
  <2>5. Decided = [w \in Layers |-> Decided[w]]
    BY <1>1, <2>2
  <2>6. /\ Decided["conn"].header = zipped
        /\ Decided["conn"].status = writers["conn"].status
        /\ Decided["conn"].body = writers["conn"].body
    BY <2>4
  <2>7. IsWriter(Decided["conn"])
    BY <1>1, <2>3, <2>4, <2>6 DEF IsWriter
  <2> QED BY <1>4, <2>3, <2>5, <2>6, <2>7
<1> QED BY <1>2, <1>3, <1>4

LEMMA SetHeaderKeeps ==
    ASSUME Inv, NEW n \in Names, NEW v, SetHeader(n, v),
           n = "type" => v # "problem"
    PROVE  Inv'
<1> DEFINE one == <<v>>
           old == writers["conn"].header
           set == [plain.header EXCEPT ![n] = one]
<1>1. /\ pc = "running"
      /\ asked' = [asked EXCEPT ![n] = one]
      /\ plain' = IF plain.status # 0 THEN plain
                  ELSE [plain EXCEPT !.header[n] = one]
      /\ writers' = PutHeader(writers, Base, n, one)
      /\ UNCHANGED <<config, request, gzip, logged, pc, did>>
  BY DEF SetHeader
<1>2. one # <<>> /\ (n = "type" => one # <<"problem">>)
  <2>1. one # <<>> /\ one[1] = v
    OBVIOUS
  <2>2. <<"problem">>[1] = "problem"
    OBVIOUS
  <2> QED BY <2>1, <2>2
<1> HIDE DEF one
<1>3. /\ writers = [w \in Layers |-> writers[w]]
      /\ IsWriter(writers["conn"]) /\ IsWriter(plain) /\ "conn" \in Layers
      /\ asked = [m \in Names |-> asked[m]]
      /\ Base \in Layers /\ (Base = "conn" <=> ~Buffered)
  BY <1>1, BaseIsBuffer DEF Inv, Shape, Layers
<1>4. /\ set = [m \in Names |-> IF m = n THEN one ELSE plain.header[m]]
      /\ plain' = IF plain.status # 0 THEN plain
                  ELSE [header |-> set, status |-> plain.status,
                        body |-> plain.body]
  <2>1. set = [m \in Names |-> IF m = n THEN one ELSE plain.header[m]]
    BY <1>3 DEF IsWriter
  <2>2. plain' = IF plain.status # 0 THEN plain
                 ELSE [plain EXCEPT !.header = set]
    BY <1>1, <1>3 DEF IsWriter
  <2> HIDE DEF set
  <2>3. [plain EXCEPT !.header = set] =
          [header |-> set, status |-> plain.status, body |-> plain.body]
    BY <1>3 DEF IsWriter
  <2> QED BY <2>1, <2>2, <2>3
<1> HIDE DEF set
<1>5. /\ plain'.status = plain.status /\ plain'.body = plain.body
      /\ plain'.header = IF plain.status # 0 THEN plain.header ELSE set
      /\ set = [m \in Names |-> set[m]]
  BY <1>4
<1>6. IsWriter(plain')
  BY <1>3, <1>4, <1>5 DEF IsWriter
<1>7. (Buffered' <=> Buffered) /\ (PlainStatus' = PlainStatus)
  BY <1>1, <1>5 DEF Buffered, ETagApplies, PlainStatus
<1>8. /\ Buffered => writers'["conn"] = writers["conn"]
      /\ writers' = [w \in Layers |-> writers'[w]]
      /\ ~Buffered =>
            writers'["conn"] =
              IF writers["conn"].status # 0 THEN writers["conn"]
              ELSE [header |-> [old EXCEPT ![n] = one],
                    status |-> writers["conn"].status,
                    body |-> writers["conn"].body]
  <2>1. CASE Buffered
    <3>1. writers' = [writers EXCEPT ![Base] = writers'[Base]]
      BY <1>1, <1>3 DEF PutHeader
    <3>2. writers' = [w \in Layers |-> writers'[w]]
            /\ writers'["conn"] = writers["conn"]
      BY <1>3, <2>1, <3>1
    <3> QED BY <2>1, <3>2
  <2>2. CASE ~Buffered
    <3>1. writers' = PutHeader(writers, "conn", n, one)
      BY <1>1, <1>3, <2>2
    <3> DEFINE new == PutHeader(writers, "conn", n, one)
               h == [writers["conn"].header EXCEPT ![n] = one]
    <3>2. /\ new = [w \in Layers |-> new[w]]
          /\ new["conn"] =
              IF writers["conn"].status # 0 THEN writers["conn"]
              ELSE [header |-> h, status |-> writers["conn"].status,
                    body |-> writers["conn"].body]
      <4>1. new = PutHeader(writers, "conn", n, one)
              /\ h = [writers["conn"].header EXCEPT ![n] = one]
        OBVIOUS
      <4> HIDE DEF new, h
      <4> QED BY <1>3, <4>1, HeaderPut
    <3> HIDE DEF new
    <3>3. writers' = new
      BY <3>1 DEF new
    <3> QED BY <2>2, <3>2, <3>3
  <2> QED BY <2>1, <2>2
<1>9. [old EXCEPT ![n] = one]
         = [m \in Names |-> IF m = n THEN one ELSE old[m]]
  BY <1>3 DEF IsWriter
<1>10. IsWriter(writers'["conn"])
  BY <1>3, <1>8, <1>9 DEF IsWriter
<1>11. asked' = [m \in Names |-> asked'[m]]
  BY <1>1, <1>3
<1>12. Shape'
  BY <1>1, <1>6, <1>8, <1>10, <1>11 DEF Inv, Shape
<1>13. ConnFollows'
  <2> SUFFICES ASSUME ~Buffered PROVE ConnFollows'
    BY <1>7 DEF ConnFollows
  <2>1. /\ writers["conn"].status = plain.status
        /\ writers["conn"].body = <<>> <=> plain.body = <<>>
        /\ plain.status = 0 => plain.body = <<>>
        /\ ~gzip.on => /\ old["encoding"] = plain.header["encoding"]
                       /\ old["length"] = plain.header["length"]
        /\ gzip.on => old["encoding"] # <<>>
        /\ old["type"] # <<"problem">>
    BY <1>1 DEF Inv, ConnFollows
  <2>2. /\ writers'["conn"].status = writers["conn"].status
        /\ writers'["conn"].body = writers["conn"].body
        /\ \A m \in Names :
              /\ writers'["conn"].header[m] =
                    IF m = n /\ plain.status = 0 THEN one ELSE old[m]
              /\ plain'.header[m] =
                    IF m = n /\ plain.status = 0 THEN one ELSE plain.header[m]
    BY <1>4, <1>5, <1>8, <1>9, <2>1
  <2>3. "encoding" \in Names /\ "length" \in Names /\ "type" \in Names
    BY DEF Names
  <2> HIDE DEF old
  <2>4. ~gzip.on =>
          /\ writers'["conn"].header["encoding"] = plain'.header["encoding"]
          /\ writers'["conn"].header["length"] = plain'.header["length"]
    BY <2>1, <2>2, <2>3
  <2>5. /\ gzip.on => writers'["conn"].header["encoding"] # <<>>
        /\ writers'["conn"].header["type"] # <<"problem">>
    BY <1>2, <2>1, <2>2, <2>3
  <2> QED BY <1>1, <1>5, <2>1, <2>2, <2>4, <2>5 DEF ConnFollows
<1>14. BuffersKeep' /\ PanicAnswerClean'
  BY <1>1, <1>7, <1>8 DEF Inv, BuffersKeep, PanicAnswerClean
<1>15. StatusIsFinal' /\ LogFollows'
  BY <1>1, <1>5, <1>7 DEF Inv, StatusIsFinal, LogFollows
<1> QED BY <1>12, <1>13, <1>14, <1>15 DEF Inv

LEMMA WriteHeaderKeeps ==
    ASSUME Inv, NEW code \in Codes \cup {Early}, WriteHeader(code)
    PROVE  Inv'
<1>1. /\ pc = "running" /\ did.calls < 2
      /\ did' = [did EXCEPT !.calls = @ + 1,
                            !.early = @ \/ (code = Early /\ plain.status = 0),
                            !.late = @ \/ plain.status # 0]
      /\ plain' = ConnWriteHeader(plain, code)
      /\ logged' = [logged EXCEPT !.status = code]
      /\ gzip' = [wrote |-> TRUE, on |-> gzip.on \/ StartsGzip]
      /\ writers' = PutStatus(Decided, Base, code)
      /\ UNCHANGED <<config, request, pc, asked>>
  BY DEF WriteHeader, CompressWriteHeader, Decided
<1>2. IsWriter(plain) /\ IsWriter(writers["conn"])
  BY <1>1 DEF Inv, Shape
<1>3. code \in Nat /\ (code < 200 <=> code = Early)
  BY CodesAssumption DEF Early
<1>4. /\ Base \in Layers /\ (Base = "conn" <=> ~Buffered)
      /\ Buffered' <=> Buffered
  BY <1>1, BaseIsBuffer DEF Buffered, ETagApplies
<1>5. /\ Decided = [w \in Layers |-> Decided[w]]
      /\ Buffered => Decided["conn"] = writers["conn"]
      /\ IsWriter(Decided["conn"])
      /\ Decided["conn"].status = writers["conn"].status
      /\ Decided["conn"].body = writers["conn"].body
      /\ ~StartsGzip => Decided["conn"] = writers["conn"]
      /\ StartsGzip /\ ~Buffered =>
            Decided["conn"].header["encoding"] = <<"gzip">>
      /\ Decided["conn"].header["type"] = writers["conn"].header["type"]
  BY <1>1, DecidedConn DEF Inv
<1>6. /\ writers' = [w \in Layers |-> writers'[w]]
      /\ Buffered => writers'["conn"] = writers["conn"]
      /\ ~Buffered => writers'["conn"] = ConnWriteHeader(Decided["conn"], code)
  BY <1>1, <1>4, <1>5, StatusPut
<1>7. ConnWriteHeader(Decided["conn"], code) =
        [header |-> Decided["conn"].header,
         status |-> IF writers["conn"].status # 0 \/ code < 200
                    THEN writers["conn"].status ELSE code,
         body |-> writers["conn"].body]
  BY <1>3, <1>5, HeaderWritten
<1>8. plain' = [header |-> plain.header,
                status |-> IF plain.status # 0 \/ code < 200
                           THEN plain.status ELSE code,
                body |-> plain.body]
  BY <1>1, <1>2, <1>3, HeaderWritten
<1>9. /\ plain'.header = plain.header /\ plain'.body = plain.body
      /\ plain'.status = IF plain.status # 0 \/ code < 200
                          THEN plain.status ELSE code
  BY <1>8
<1>10. IsWriter(plain') /\ IsWriter(writers'["conn"])
  BY <1>2, <1>3, <1>5, <1>6, <1>7, <1>8 DEF IsWriter
<1>11. /\ gzip'.on = (gzip.on \/ StartsGzip)
       /\ gzip' \in [wrote: BOOLEAN, on: BOOLEAN]
  BY <1>1 DEF Inv, Shape, StartsGzip, CompressApplies
<1>12. /\ did' = [calls |-> did'.calls, chunks |-> did'.chunks,
                  early |-> did'.early, late |-> did'.late]
       /\ did'.chunks \in Nat
       /\ did'.late <=> did.late \/ plain.status # 0
       /\ did'.early <=> did.early \/ (code = Early /\ plain.status = 0)
  <2> DEFINE e == did.early \/ (code = Early /\ plain.status = 0)
             l == did.late \/ plain.status # 0
             c == did.calls + 1
  <2>1. did' = [did EXCEPT !.calls = c, !.early = e, !.late = l]
    BY <1>1
  <2>2. did = [calls |-> did.calls, chunks |-> did.chunks,
               early |-> did.early, late |-> did.late] /\ did.chunks \in Nat
    BY DEF Inv, Shape
  <2> HIDE DEF c, e, l
  <2>3. did' = [calls |-> c, chunks |-> did.chunks, early |-> e, late |-> l]
    BY <2>1, <2>2
  <2>4. /\ did' = [calls |-> did'.calls, chunks |-> did'.chunks,
                   early |-> did'.early, late |-> did'.late]
        /\ did'.chunks \in Nat /\ did'.late = l /\ did'.early = e
    BY <2>2, <2>3
  <2> QED BY <2>4 DEF e, l
<1>13. logged' = [status |-> code, done |-> logged.done]
  BY <1>1 DEF Inv, Shape
<1>14. Shape'
  BY <1>1, <1>6, <1>10, <1>11, <1>12, <1>13 DEF Inv, Shape
<1>15. StatusIsFinal'
  BY <1>2, <1>3, <1>9 DEF Inv, StatusIsFinal, IsWriter
<1>16. LogFollows'
  BY <1>3, <1>9, <1>12, <1>13 DEF LogFollows, PlainStatus, Early
<1>17. BuffersKeep'
  BY <1>1, <1>4, <1>6 DEF Inv, BuffersKeep
<1>18. ConnFollows'
  <2> SUFFICES ASSUME ~Buffered PROVE ConnFollows'
    BY <1>4 DEF ConnFollows
  <2>1. /\ writers'["conn"].header = Decided["conn"].header
        /\ writers'["conn"].body = writers["conn"].body
        /\ writers'["conn"].status = plain'.status
    BY <1>1, <1>6, <1>7, <1>9 DEF Inv, ConnFollows
  <2>2. StartsGzip => writers'["conn"].header["encoding"] # <<>>
    <3>1. <<"gzip">> # <<>>
      OBVIOUS
    <3>2. StartsGzip => writers'["conn"].header["encoding"] = <<"gzip">>
      BY <1>5, <2>1
    <3> QED BY <3>1, <3>2
  <2>3. /\ writers["conn"].status = plain.status
        /\ writers["conn"].body = <<>> <=> plain.body = <<>>
        /\ plain.status = 0 => plain.body = <<>>
        /\ ~gzip.on =>
              /\ writers["conn"].header["encoding"] = plain.header["encoding"]
              /\ writers["conn"].header["length"] = plain.header["length"]
        /\ gzip.on => writers["conn"].header["encoding"] # <<>>
        /\ writers["conn"].header["type"] # <<"problem">>
    BY <1>1 DEF Inv, ConnFollows
  <2>4. /\ writers'["conn"].body = <<>> <=> plain'.body = <<>>
        /\ plain'.status = 0 => plain'.body = <<>>
    <3>1. plain'.status = 0 => plain.status = 0
      BY <1>3, <1>9
    <3> QED BY <1>9, <2>1, <2>3, <3>1
  <2>5. ~gzip'.on =>
          /\ writers'["conn"].header["encoding"] = plain'.header["encoding"]
          /\ writers'["conn"].header["length"] = plain'.header["length"]
    BY <1>5, <1>9, <1>11, <2>1, <2>3
  <2>6. gzip'.on => writers'["conn"].header["encoding"] # <<>>
    BY <1>5, <1>11, <2>1, <2>2, <2>3
  <2>7. writers'["conn"].header["type"] # <<"problem">>
    BY <1>5, <2>1, <2>3
  <2> QED BY <2>1, <2>4, <2>5, <2>6, <2>7 DEF ConnFollows
<1>19. PanicAnswerClean'
  BY <1>1 DEF PanicAnswerClean
<1> QED BY <1>14, <1>15, <1>16, <1>17, <1>18, <1>19 DEF Inv

LEMMA WriteKeeps ==
    ASSUME Inv, Write
    PROVE  Inv'
<1> DEFINE k == did.chunks + 1
           on == gzip.on \/ StartsGzip
           piece == IF on THEN Zipped(k) ELSE Plain(k)
           to == IF gzip.wrote THEN Decided ELSE PutStatus(Decided, Base, 200)
<1>1. /\ pc = "running"
      /\ did' = [did EXCEPT !.chunks = @ + 1]
      /\ plain' = ConnWrite(plain, <<Plain(k)>>)
      /\ gzip' = [wrote |-> TRUE, on |-> on]
      /\ writers' = PutBody(to, Base, <<piece>>)
      /\ UNCHANGED <<config, request, logged, pc, asked>>
  BY DEF Write, CompressWrite, Decided
<1>2. IsWriter(plain) /\ IsWriter(writers["conn"])
  BY <1>1 DEF Inv, Shape
<1>3. Plain(k) \in Pieces /\ piece \in Pieces
  BY DEF Inv, Shape, Pieces, Plain, Zipped
<1>4. /\ Base \in Layers /\ (Base = "conn" <=> ~Buffered)
      /\ Buffered' <=> Buffered
  BY <1>1, BaseIsBuffer DEF Buffered, ETagApplies
<1>5. /\ Decided = [w \in Layers |-> Decided[w]]
      /\ Buffered => Decided["conn"] = writers["conn"]
      /\ IsWriter(Decided["conn"])
      /\ Decided["conn"].status = writers["conn"].status
      /\ Decided["conn"].body = writers["conn"].body
      /\ ~StartsGzip => Decided["conn"] = writers["conn"]
      /\ StartsGzip /\ ~Buffered =>
            Decided["conn"].header["encoding"] = <<"gzip">>
      /\ Decided["conn"].header["type"] = writers["conn"].header["type"]
  BY <1>1, DecidedConn DEF Inv
<1> HIDE DEF piece
<1>6. /\ to = [w \in Layers |-> to[w]]
      /\ Buffered => to["conn"] = writers["conn"]
      /\ ~Buffered => \/ to["conn"] = Decided["conn"]
                      \/ to["conn"] = ConnWriteHeader(Decided["conn"], 200)
  BY <1>4, <1>5, StatusPut
<1> HIDE DEF to
<1>7. /\ writers' = [w \in Layers |-> writers'[w]]
      /\ Buffered => writers'["conn"] = writers["conn"]
      /\ ~Buffered => writers'["conn"] = ConnWrite(to["conn"], <<piece>>)
  BY <1>1, <1>4, <1>6, BodyPut
<1>8. ~Buffered =>
        /\ IsWriter(to["conn"])
        /\ to["conn"].header = Decided["conn"].header
        /\ to["conn"].body = writers["conn"].body
        /\ \/ to["conn"].status = writers["conn"].status
           \/ writers["conn"].status = 0 /\ to["conn"].status = 200
  <2> DEFINE hit == ConnWriteHeader(Decided["conn"], 200)
  <2>1. hit = [header |-> Decided["conn"].header,
               status |-> IF Decided["conn"].status # 0 \/ 200 < 200
                          THEN Decided["conn"].status ELSE 200,
               body |-> Decided["conn"].body]
    BY <1>5, HeaderWritten
  <2> HIDE DEF hit
  <2>2. /\ IsWriter(hit) /\ hit.header = Decided["conn"].header
        /\ hit.body = writers["conn"].body
        /\ hit.status = IF writers["conn"].status # 0
                        THEN writers["conn"].status ELSE 200
    BY <1>5, <2>1 DEF IsWriter
  <2> QED BY <1>5, <1>6, <2>2 DEF hit
<1>9. ~Buffered =>
        /\ IsWriter(writers'["conn"])
        /\ writers'["conn"].header = Decided["conn"].header
        /\ writers'["conn"].status =
              IF writers["conn"].status = 0 THEN 200 ELSE writers["conn"].status
        /\ writers'["conn"].body = Longer(to["conn"], piece)
  <2> SUFFICES ASSUME ~Buffered
               PROVE  /\ IsWriter(writers'["conn"])
                      /\ writers'["conn"].header = Decided["conn"].header
                      /\ writers'["conn"].status =
                            IF writers["conn"].status = 0 THEN 200
                            ELSE writers["conn"].status
                      /\ writers'["conn"].body = Longer(to["conn"], piece)
    OBVIOUS
  <2> DEFINE conn == to["conn"]
             new == ConnWrite(conn, <<piece>>)
  <2>1. IsWriter(conn) /\ writers'["conn"] = new
    BY <1>7, <1>8
  <2> HIDE DEF conn
  <2>2. /\ IsWriter(new) /\ new.header = conn.header
        /\ new.status = IF conn.status = 0 THEN 200 ELSE conn.status
        /\ new.body = Longer(conn, piece)
    BY <1>3, <2>1, BodyWritten
  <2> HIDE DEF new
  <2>3. conn.header = Decided["conn"].header
    BY <1>8 DEF conn
  <2>4. (IF conn.status = 0 THEN 200 ELSE conn.status) =
          IF writers["conn"].status = 0 THEN 200 ELSE writers["conn"].status
    BY <1>8 DEF conn
  <2> QED BY <2>1, <2>2, <2>3, <2>4 DEF conn
<1>10. /\ IsWriter(plain') /\ plain'.header = plain.header
       /\ plain'.status = IF plain.status = 0 THEN 200 ELSE plain.status
       /\ plain'.body = Longer(plain, Plain(k))
  BY <1>1, <1>2, <1>3, BodyWritten
<1> HIDE DEF k
<1>11. did' = [calls |-> did.calls, chunks |-> did.chunks + 1,
               early |-> did.early, late |-> did.late]
  BY <1>1 DEF Inv, Shape
<1>12. Shape'
  BY <1>1, <1>2, <1>7, <1>9, <1>10, <1>11
     DEF Inv, Shape, StartsGzip, CompressApplies
<1>13. StatusIsFinal'
  BY <1>2, <1>10 DEF Inv, StatusIsFinal, IsWriter
<1>14. PlainStatus' = PlainStatus
  BY <1>2, <1>10 DEF PlainStatus, IsWriter
<1>15. LogFollows'
  BY <1>1, <1>11, <1>14 DEF Inv, LogFollows
<1>16. BuffersKeep'
  BY <1>1, <1>4, <1>7 DEF Inv, BuffersKeep
<1>17. ConnFollows'
  <2> SUFFICES ASSUME ~Buffered PROVE ConnFollows'
    BY <1>4 DEF ConnFollows
  <2>1. /\ writers["conn"].status = plain.status
        /\ writers["conn"].body = <<>> <=> plain.body = <<>>
        /\ plain.status = 0 => plain.body = <<>>
        /\ ~gzip.on =>
              /\ writers["conn"].header["encoding"] = plain.header["encoding"]
              /\ writers["conn"].header["length"] = plain.header["length"]
        /\ gzip.on => writers["conn"].header["encoding"] # <<>>
        /\ writers["conn"].header["type"] # <<"problem">>
    BY <1>1 DEF Inv, ConnFollows
  <2>2. writers'["conn"].status = plain'.status /\ plain'.status # 0
    BY <1>2, <1>9, <1>10, <2>1 DEF IsWriter
  <2>3. writers'["conn"].body = <<>> <=> plain'.body = <<>>
    <3>1. to["conn"].status \in {204, 304} <=> plain.status \in {204, 304}
      BY <1>8, <2>1
    <3>2. /\ writers["conn"].body \o <<piece>> # <<>>
          /\ plain.body \o <<Plain(k)>> # <<>>
      BY <1>2, <1>3, OneMore DEF IsWriter
    <3>3. writers'["conn"].body =
            IF to["conn"].status \in {204, 304} THEN writers["conn"].body
            ELSE writers["conn"].body \o <<piece>>
      BY <1>8, <1>9 DEF Longer
    <3>4. plain'.body = IF plain.status \in {204, 304} THEN plain.body
                        ELSE plain.body \o <<Plain(k)>>
      BY <1>10 DEF Longer
    <3>5. CASE plain.status \in {204, 304}
      <4>1. /\ writers'["conn"].body = writers["conn"].body
            /\ plain'.body = plain.body
        BY <3>1, <3>3, <3>4, <3>5
      <4> QED BY <2>1, <4>1
    <3>6. CASE plain.status \notin {204, 304}
      <4>1. writers'["conn"].body # <<>> /\ plain'.body # <<>>
        BY <3>1, <3>2, <3>3, <3>4, <3>6
      <4> QED BY <4>1
    <3> QED BY <3>5, <3>6
  <2>4. gzip'.on <=> gzip.on \/ StartsGzip
    BY <1>1
  <2>5. <<"gzip">> # <<>>
    OBVIOUS
  <2>6. gzip'.on => writers'["conn"].header["encoding"] # <<>>
    BY <1>5, <1>9, <2>1, <2>4, <2>5
  <2>7. ~gzip'.on =>
          /\ writers'["conn"].header["encoding"] = plain'.header["encoding"]
          /\ writers'["conn"].header["length"] = plain'.header["length"]
    BY <1>5, <1>9, <1>10, <2>1, <2>4
  <2>8. writers'["conn"].header["type"] # <<"problem">>
    BY <1>5, <1>9, <2>1
  <2> QED BY <2>2, <2>3, <2>6, <2>7, <2>8 DEF ConnFollows
<1>18. PanicAnswerClean'
  BY <1>1 DEF PanicAnswerClean
<1> QED BY <1>12, <1>13, <1>15, <1>16, <1>17, <1>18 DEF Inv

LEMMA ReturnKeeps ==
    ASSUME Inv, Return
    PROVE  Inv'
<1>1. /\ pc' = "returned"
      /\ logged' = [logged EXCEPT !.done = TRUE]
      /\ UNCHANGED <<config, request, gzip, plain, asked, did>>
  BY DEF Return
<1>2. logged' = [status |-> logged.status, done |-> TRUE]
  BY <1>1 DEF Inv, Shape
<1>3. Shape'
  BY <1>1, <1>2 DEF Inv, Shape, IsWriter
<1>4. StatusIsFinal' /\ LogFollows'
  BY <1>1, <1>2 DEF Inv, StatusIsFinal, LogFollows, PlainStatus
<1>5. BuffersKeep' /\ ConnFollows' /\ PanicAnswerClean'
  BY <1>1 DEF BuffersKeep, ConnFollows, PanicAnswerClean
<1> QED BY <1>3, <1>4, <1>5 DEF Inv

\* After a panic: a buffer left the connection to Recover; without one,
\* what has reached it stays there.
LEMMA PanicKeeps ==
    ASSUME Inv, Panic
    PROVE  Inv'
<1> DEFINE closed == CompressClose(writers)
           headed == PutHeader(closed, "conn", "type", <<"problem">>)
           typed == PutStatus(headed, "conn", 500)
<1>1. /\ pc = "running" /\ pc' = "panicked"
      /\ "recover" \in config => writers' = PutBody(typed, "conn", <<ProblemBody>>)
      /\ UNCHANGED <<config, request, gzip, logged, plain, asked, did>>
  BY DEF Panic, WriteProblem
<1>2. /\ writers = [w \in Layers |-> writers[w]] /\ IsWriter(writers["conn"])
      /\ "conn" \in Layers /\ Base \in Layers /\ (Base = "conn" <=> ~Buffered)
  BY <1>1, BaseIsBuffer DEF Inv, Shape, Layers
<1>3. /\ closed = [w \in Layers |-> closed[w]]
      /\ IsWriter(closed["conn"])
      /\ closed["conn"].header = writers["conn"].header
      /\ ~gzip.on \/ Buffered => closed["conn"] = writers["conn"]
  <2>1. CASE ~gzip.on
    BY <1>2, <2>1 DEF CompressClose
  <2>2. CASE gzip.on
    <3>1. Trailer \in Pieces
      BY DEF Trailer, Pieces
    <3>2. /\ closed = [w \in Layers |-> closed[w]]
          /\ Base # "conn" => closed["conn"] = writers["conn"]
          /\ Base = "conn" =>
                closed["conn"] = ConnWrite(writers["conn"], <<Trailer>>)
      BY <1>2, <2>2, BodyPut DEF CompressClose
    <3>3. /\ IsWriter(ConnWrite(writers["conn"], <<Trailer>>))
          /\ ConnWrite(writers["conn"], <<Trailer>>).header =
                writers["conn"].header
      BY <1>2, <3>1, BodyWritten
    <3> HIDE DEF closed
    <3> QED BY <1>2, <2>2, <3>2, <3>3
  <2> QED BY <2>1, <2>2
<1> HIDE DEF closed
<1>4. /\ headed = [w \in Layers |-> headed[w]]
      /\ IsWriter(headed["conn"])
      /\ headed["conn"].status = closed["conn"].status
      /\ headed["conn"].body = closed["conn"].body
      /\ headed["conn"].header["encoding"] = closed["conn"].header["encoding"]
      /\ headed["conn"].header["length"] = closed["conn"].header["length"]
      /\ headed["conn"].header["type"] =
            IF closed["conn"].status = 0 THEN <<"problem">>
            ELSE closed["conn"].header["type"]
  <2> DEFINE problem == <<"problem">>
             h == [closed["conn"].header EXCEPT !["type"] = problem]
  <2>0. "type" \in Names /\ "encoding" \in Names /\ "length" \in Names
    BY DEF Names
  <2>1. headed = PutHeader(closed, "conn", "type", problem)
    OBVIOUS
  <2> HIDE DEF problem, headed
  <2>2. /\ headed = [w \in Layers |-> headed[w]]
        /\ headed["conn"] =
              IF closed["conn"].status # 0 THEN closed["conn"]
              ELSE [header |-> h, status |-> closed["conn"].status,
                    body |-> closed["conn"].body]
        /\ IsWriter(headed["conn"])
        /\ h = [m \in Names |-> IF m = "type" THEN problem
                                ELSE closed["conn"].header[m]]
    BY <1>2, <1>3, <2>0, <2>1, HeaderPut
  <2>3. /\ h["type"] = problem /\ h["encoding"] = closed["conn"].header["encoding"]
        /\ h["length"] = closed["conn"].header["length"]
    BY <2>0, <2>2
  <2> HIDE DEF h
  <2> QED BY <2>2, <2>3 DEF problem
<1>5. /\ typed = [w \in Layers |-> typed[w]]
      /\ IsWriter(typed["conn"])
      /\ typed["conn"].header = headed["conn"].header
      /\ typed["conn"].body = closed["conn"].body
      /\ typed["conn"].status = IF closed["conn"].status = 0 THEN 500
                                ELSE closed["conn"].status
  <2> DEFINE hit == ConnWriteHeader(headed["conn"], 500)
  <2>1. typed = [w \in Layers |-> typed[w]] /\ typed["conn"] = hit
    BY <1>2, <1>4, StatusPut
  <2>2. hit = [header |-> headed["conn"].header,
               status |-> IF headed["conn"].status # 0 \/ 500 < 200
                          THEN headed["conn"].status ELSE 500,
               body |-> headed["conn"].body]
    BY <1>4, HeaderWritten
  <2> HIDE DEF typed, hit
  <2>3. /\ hit.header = headed["conn"].header
        /\ hit.body = headed["conn"].body
        /\ hit.status = IF headed["conn"].status = 0 THEN 500
                        ELSE headed["conn"].status
    BY <2>2
  <2>4. headed["conn"].status \in Nat /\ hit.status \in Nat
    BY <1>4, <2>3 DEF IsWriter
  <2>5. IsWriter(hit)
    BY <1>4, <2>2, <2>3, <2>4 DEF IsWriter
  <2>6. typed = [w \in Layers |-> typed[w]] /\ typed["conn"] = hit
    BY <2>1
  <2> QED BY <1>4, <2>3, <2>5, <2>6
<1> HIDE DEF typed
<1>6. "recover" \in config =>
        /\ Answer'.header["encoding"] = writers["conn"].header["encoding"]
        /\ Answer'.header["length"] = writers["conn"].header["length"]
        /\ Answer'.header["type"] =
              IF closed["conn"].status = 0 THEN <<"problem">>
              ELSE writers["conn"].header["type"]
        /\ Answer'.status = IF closed["conn"].status = 0 THEN 500
                            ELSE closed["conn"].status
        /\ Answer'.body = IF Answer'.status \in {204, 304}
                          THEN closed["conn"].body
                          ELSE closed["conn"].body \o <<ProblemBody>>
  <2> DEFINE new == ConnWrite(typed["conn"], <<ProblemBody>>)
  <2>1. ProblemBody \in Pieces
    BY DEF ProblemBody, Pieces
  <2>2. "recover" \in config => Answer' = new
    BY <1>1, <1>2, <1>5, BodyPut DEF Answer
  <2>3. typed["conn"].status # 0
    BY <1>5
  <2>4. /\ new.header = typed["conn"].header
        /\ new.status = typed["conn"].status
        /\ new.body = IF typed["conn"].status \in {204, 304}
                      THEN typed["conn"].body
                      ELSE typed["conn"].body \o <<ProblemBody>>
    BY <1>5, <2>1, <2>3, BodyWritten DEF Longer
  <2> HIDE DEF new
  <2>5. "recover" \in config => Answer'.header = headed["conn"].header
    BY <1>5, <2>2, <2>4
  <2>6. "recover" \in config =>
          Answer'.status = IF closed["conn"].status = 0 THEN 500
                           ELSE closed["conn"].status
    BY <1>5, <2>2, <2>4
  <2>7. "recover" \in config =>
          Answer'.body = IF Answer'.status \in {204, 304}
                         THEN closed["conn"].body
                         ELSE closed["conn"].body \o <<ProblemBody>>
    BY <1>5, <2>2, <2>4
  <2> QED BY <1>3, <1>4, <2>5, <2>6, <2>7
<1>7. closed["conn"].body \o <<ProblemBody>> = <<ProblemBody>>
        <=> closed["conn"].body = <<>>
  BY <1>3, OneMore DEF IsWriter, ProblemBody, Pieces
<1>8. Buffered' <=> Buffered
  BY <1>1 DEF Buffered, ETagApplies
<1>9. PanicAnswerClean'
  <2> SUFFICES ASSUME "recover" \in config PROVE PanicAnswerClean'
    BY <1>1 DEF PanicAnswerClean
  <2> DEFINE problem == <<ProblemBody>>
             clean == /\ Answer'.status = 500
                      /\ Answer'.body = problem
                      /\ Answer'.header["type"] = <<"problem">>
                      /\ Answer'.header["encoding"] = <<>>
                      /\ Answer'.header["length"] = <<>>
             fresh == /\ plain.status = 0
                      /\ ~gzip.on
                      /\ plain.header["encoding"] = <<>>
                      /\ plain.header["length"] = <<>>
  <2>1. Answer'.status = 500 =>
           (Answer'.body = problem <=> closed["conn"].body = <<>>)
    BY <1>6, <1>7
  <2> HIDE DEF problem
  <2>2. CASE Buffered
    <3>1. /\ closed["conn"].status = 0 /\ closed["conn"].body = <<>>
          /\ writers["conn"].header["encoding"] = <<>>
          /\ writers["conn"].header["length"] = <<>>
      BY <1>1, <1>3, <2>2 DEF Inv, BuffersKeep
    <3>2. clean
      BY <1>6, <2>1, <3>1
    <3> QED BY <1>1, <1>8, <2>2, <3>2 DEF PanicAnswerClean, problem
  <2>3. CASE ~Buffered
    <3>1. /\ writers["conn"].status = plain.status
          /\ writers["conn"].body = <<>> <=> plain.body = <<>>
          /\ ~gzip.on =>
                /\ writers["conn"].header["encoding"] = plain.header["encoding"]
                /\ writers["conn"].header["length"] = plain.header["length"]
          /\ gzip.on => writers["conn"].header["encoding"] # <<>>
          /\ writers["conn"].header["type"] # <<"problem">>
          /\ plain.status = 0 => plain.body = <<>>
      BY <1>1, <2>3 DEF Inv, ConnFollows
    <3>2. clean <=> fresh
      <4>1. CASE gzip.on
        BY <1>6, <3>1, <4>1
      <4>2. CASE ~gzip.on
        <5>1. closed["conn"].status = plain.status
                /\ (closed["conn"].body = <<>> <=> plain.body = <<>>)
          BY <1>3, <3>1, <4>2
        <5>2. /\ Answer'.header["encoding"] = plain.header["encoding"]
              /\ Answer'.header["length"] = plain.header["length"]
          BY <1>6, <3>1, <4>2
        <5>3. CASE plain.status = 0
          <6>1. closed["conn"].status = 0 /\ closed["conn"].body = <<>>
            BY <3>1, <5>1, <5>3
          <6>2. /\ Answer'.status = 500 /\ Answer'.body = problem
                /\ Answer'.header["type"] = <<"problem">>
            BY <1>6, <2>1, <6>1
          <6> QED BY <4>2, <5>2, <5>3, <6>2
        <5>4. CASE plain.status # 0
          BY <1>6, <3>1, <5>1, <5>4
        <5> QED BY <5>3, <5>4
      <4> QED BY <4>1, <4>2
    <3> QED BY <1>1, <1>8, <2>3, <3>2 DEF PanicAnswerClean, problem
  <2> QED BY <2>2, <2>3
<1>10. Shape'
  BY <1>1 DEF Inv, Shape, IsWriter
<1>11. StatusIsFinal' /\ LogFollows'
  BY <1>1 DEF Inv, StatusIsFinal, LogFollows, PlainStatus
<1>12. BuffersKeep' /\ ConnFollows'
  BY <1>1 DEF BuffersKeep, ConnFollows
<1> QED BY <1>9, <1>10, <1>11, <1>12 DEF Inv

-----------------------------------------------------------------------------
LEMMA StepKeeps == Inv /\ [Next]_vars => Inv'
<1> SUFFICES ASSUME Inv, [Next]_vars PROVE Inv'
  OBVIOUS
<1>1. ASSUME NEW p \in HeaderValues, SetHeader(p[1], p[2]) PROVE Inv'
  <2>1. p[1] \in Names /\ (p[1] = "type" => p[2] # "problem")
    BY DEF HeaderValues, Names
  <2> QED BY <1>1, <2>1, SetHeaderKeeps
<1>2. ASSUME NEW tag \in {OwnTag, Weak(OwnTag)}, SetHeader("etag", tag)
      PROVE  Inv'
  <2>1. "etag" \in Names /\ "etag" # "type"
    BY DEF Names
  <2> QED BY <1>2, <2>1, SetHeaderKeeps
<1>3. ASSUME NEW code \in Codes \cup {Early}, WriteHeader(code) PROVE Inv'
  BY <1>3, WriteHeaderKeeps
<1>4. CASE Write
  BY <1>4, WriteKeeps
<1>5. CASE Return
  BY <1>5, ReturnKeeps
<1>6. CASE Panic
  BY <1>6, PanicKeeps
<1>7. CASE UNCHANGED vars
  BY <1>7
     DEF vars, Inv, Shape, IsWriter, StatusIsFinal, LogFollows, PlainStatus,
         BuffersKeep, ConnFollows, PanicAnswerClean, Answer, Buffered,
         ETagApplies
<1> QED BY <1>1, <1>2, <1>3, <1>4, <1>5, <1>6, <1>7 DEF Next

\* What Inv says holds in every state.
THEOREM InductiveInvariant == Spec => []Inv
BY InitEstablishes, StepKeeps, PTL DEF Spec

\* Recover's answer is whole exactly if nothing of the handler's was out:
\* for any number of chunks and any set of codes.
THEOREM PanicAnswerIsWhole == Spec => []PanicAnswerClean
<1>1. Inv => PanicAnswerClean
  BY DEF Inv
<1> QED BY <1>1, InductiveInvariant, PTL

-----------------------------------------------------------------------------
(***************************************************************************)
(* What reaches the client when the handler returns.  Now the buffers      *)
(* matter too: what they hold, and how ETag's flush and Timeout's copy     *)
(* pass it on.                                                             *)
(***************************************************************************)
AllWriters(ws) ==
    /\ ws = [w \in Layers |-> ws[w]]
    /\ \A w \in Layers : IsWriter(ws[w])

\* A writer after a status, and after a body: the connection takes no hint
\* for its status and no body with 204 and 304, a buffer takes everything.
StatusAfter(l, w, code) ==
    IF w.status # 0 \/ (l = "conn" /\ code < 200) THEN w.status ELSE code

StatusWritten(w) == IF w.status = 0 THEN 200 ELSE w.status

BodyAfter(l, w, pieces) ==
    IF l = "conn" /\ StatusWritten(w) \in {204, 304} THEN w.body
    ELSE w.body \o pieces

\* One writer gets a new record, the others stay.
LEMMA LayerReplaced ==
    ASSUME NEW ws, AllWriters(ws), NEW l \in Layers, NEW w, IsWriter(w)
    PROVE  /\ AllWriters([ws EXCEPT ![l] = w])
           /\ [ws EXCEPT ![l] = w][l] = w
           /\ \A m \in Layers \ {l} : [ws EXCEPT ![l] = w][m] = ws[m]
<1> DEFINE new == [ws EXCEPT ![l] = w]
<1>1. /\ new = [m \in Layers |-> new[m]] /\ new[l] = w
      /\ \A m \in Layers \ {l} : new[m] = ws[m]
  BY DEF AllWriters
<1> HIDE DEF new
<1>2. \A m \in Layers : IsWriter(new[m])
  BY <1>1 DEF AllWriters
<1> QED BY <1>1, <1>2 DEF AllWriters, new

LEMMA StatusOf ==
    ASSUME NEW w, IsWriter(w), NEW l, NEW code \in Nat
    PROVE  LET new == IF l = "conn" THEN ConnWriteHeader(w, code)
                      ELSE BufferWriteHeader(w, code)
           IN  /\ IsWriter(new) /\ new.header = w.header /\ new.body = w.body
               /\ new.status = StatusAfter(l, w, code)
<1> DEFINE new == IF l = "conn" THEN ConnWriteHeader(w, code)
                  ELSE BufferWriteHeader(w, code)
           set == [w EXCEPT !.status = code]
<1>1. set = [header |-> w.header, status |-> code, body |-> w.body]
  BY DEF IsWriter
<1>2. new = IF w.status # 0 \/ (l = "conn" /\ code < 200) THEN w ELSE set
  BY DEF ConnWriteHeader, BufferWriteHeader
<1> HIDE DEF new, set
<1>3. /\ IsWriter(set) /\ set.header = w.header /\ set.body = w.body
      /\ set.status = code
  BY <1>1 DEF IsWriter
<1>4. /\ IsWriter(new) /\ new.header = w.header /\ new.body = w.body
      /\ new.status = StatusAfter(l, w, code)
  BY <1>2, <1>3 DEF StatusAfter
<1> QED BY <1>4 DEF new

LEMMA BodyOf ==
    ASSUME NEW w, IsWriter(w), NEW l, NEW pieces \in Seq(Pieces)
    PROVE  LET new == IF l = "conn" THEN ConnWrite(w, pieces)
                      ELSE BufferWrite(w, pieces)
           IN  /\ IsWriter(new) /\ new.header = w.header
               /\ new.status = StatusWritten(w)
               /\ new.body = BodyAfter(l, w, pieces)
<1> DEFINE new == IF l = "conn" THEN ConnWrite(w, pieces)
                  ELSE BufferWrite(w, pieces)
           sent == IF l = "conn" THEN ConnWriteHeader(w, 200)
                   ELSE BufferWriteHeader(w, 200)
           more == sent.body \o pieces
           longer == [sent EXCEPT !.body = more]
<1>1. /\ IsWriter(sent) /\ sent.header = w.header /\ sent.body = w.body
      /\ sent.status = StatusAfter(l, w, 200)
  BY StatusOf
<1>2. new = IF l = "conn" /\ sent.status \in {204, 304} THEN sent ELSE longer
  <2>1. CASE l = "conn"
    BY <2>1 DEF ConnWrite
  <2>2. CASE l # "conn"
    BY <2>2 DEF BufferWrite
  <2> QED BY <2>1, <2>2
<1> HIDE DEF sent
<1>3. more \in Seq(Pieces) /\ more = w.body \o pieces
  <2>1. w.body \in Seq(Pieces) /\ more = w.body \o pieces
    BY <1>1 DEF IsWriter
  <2> HIDE DEF more
  <2> QED BY <2>1
<1>4. StatusAfter(l, w, 200) = StatusWritten(w)
  BY DEF StatusAfter, StatusWritten
<1> HIDE DEF new, more
<1>5. longer = [header |-> sent.header, status |-> sent.status, body |-> more]
  BY <1>1, BodyReplaced
<1> HIDE DEF longer
<1>6. /\ IsWriter(longer) /\ longer.header = w.header
      /\ longer.status = sent.status /\ longer.body = more
  BY <1>1, <1>3, <1>5 DEF IsWriter
<1>7. /\ IsWriter(new) /\ new.header = w.header
      /\ new.status = StatusWritten(w)
      /\ new.body = BodyAfter(l, w, pieces)
  <2>1. CASE l = "conn" /\ sent.status \in {204, 304}
    BY <1>1, <1>2, <1>4, <2>1 DEF BodyAfter
  <2>2. CASE ~(l = "conn" /\ sent.status \in {204, 304})
    <3>1. BodyAfter(l, w, pieces) = more
      BY <1>1, <1>3, <1>4, <2>2 DEF BodyAfter
    <3> QED BY <1>1, <1>2, <1>4, <1>6, <2>2, <3>1
  <2> QED BY <2>1, <2>2
<1> QED BY <1>7 DEF new

\* PutStatus, PutBody and a new header, on all the writers at once.
LEMMA StatusPutAll ==
    ASSUME NEW ws, AllWriters(ws), NEW l \in Layers, NEW code \in Nat
    PROVE  /\ AllWriters(PutStatus(ws, l, code))
           /\ \A m \in Layers \ {l} : PutStatus(ws, l, code)[m] = ws[m]
           /\ PutStatus(ws, l, code)[l].header = ws[l].header
           /\ PutStatus(ws, l, code)[l].body = ws[l].body
           /\ PutStatus(ws, l, code)[l].status = StatusAfter(l, ws[l], code)
<1> DEFINE w == IF l = "conn" THEN ConnWriteHeader(ws[l], code)
                ELSE BufferWriteHeader(ws[l], code)
<1>1. IsWriter(ws[l]) /\ ws = [m \in Layers |-> ws[m]]
  BY DEF AllWriters
<1>2. /\ IsWriter(w) /\ w.header = ws[l].header /\ w.body = ws[l].body
      /\ w.status = StatusAfter(l, ws[l], code)
  BY <1>1, StatusOf
<1>3. PutStatus(ws, l, code) = [ws EXCEPT ![l] = w]
  BY <1>1 DEF PutStatus
<1> HIDE DEF w
<1> DEFINE new == [ws EXCEPT ![l] = w]
<1>4. /\ AllWriters(new) /\ new[l] = w
      /\ \A m \in Layers \ {l} : new[m] = ws[m]
  BY <1>2, LayerReplaced
<1>5. PutStatus(ws, l, code) = new
  BY <1>3
<1> HIDE DEF new
<1> QED BY <1>2, <1>4, <1>5

LEMMA BodyPutAll ==
    ASSUME NEW ws, AllWriters(ws), NEW l \in Layers, NEW pieces \in Seq(Pieces)
    PROVE  /\ AllWriters(PutBody(ws, l, pieces))
           /\ \A m \in Layers \ {l} : PutBody(ws, l, pieces)[m] = ws[m]
           /\ PutBody(ws, l, pieces)[l].header = ws[l].header
           /\ PutBody(ws, l, pieces)[l].status = StatusWritten(ws[l])
           /\ PutBody(ws, l, pieces)[l].body = BodyAfter(l, ws[l], pieces)
<1> DEFINE w == IF l = "conn" THEN ConnWrite(ws[l], pieces)
                ELSE BufferWrite(ws[l], pieces)
<1>1. IsWriter(ws[l]) /\ ws = [m \in Layers |-> ws[m]]
  BY DEF AllWriters
<1>2. /\ IsWriter(w) /\ w.header = ws[l].header
      /\ w.status = StatusWritten(ws[l])
      /\ w.body = BodyAfter(l, ws[l], pieces)
  BY <1>1, BodyOf
<1>3. PutBody(ws, l, pieces) = [ws EXCEPT ![l] = w]
  BY <1>1 DEF PutBody
<1> HIDE DEF w
<1> DEFINE new == [ws EXCEPT ![l] = w]
<1>4. /\ AllWriters(new) /\ new[l] = w
      /\ \A m \in Layers \ {l} : new[m] = ws[m]
  BY <1>2, LayerReplaced
<1>5. PutBody(ws, l, pieces) = new
  BY <1>3
<1> HIDE DEF new
<1> QED BY <1>2, <1>4, <1>5

IsHeader(h) == h = [n \in Names |-> h[n]]
Reheaded(new, ws, l, h) == new = [ws EXCEPT ![l].header = h]

LEMMA HeaderPutAll ==
    ASSUME NEW ws, AllWriters(ws), NEW l \in Layers, NEW h, IsHeader(h),
           NEW new, Reheaded(new, ws, l, h)
    PROVE  /\ AllWriters(new)
           /\ \A m \in Layers \ {l} : new[m] = ws[m]
           /\ new[l].header = h
           /\ new[l].status = ws[l].status
           /\ new[l].body = ws[l].body
<1> DEFINE w == [ws[l] EXCEPT !.header = h]
<1>1. IsWriter(ws[l]) /\ ws = [m \in Layers |-> ws[m]]
  BY DEF AllWriters
<1>2. w = [header |-> h, status |-> ws[l].status, body |-> ws[l].body]
  BY <1>1 DEF IsWriter
<1> DEFINE put == [ws EXCEPT ![l] = w]
<1>3. new = put
  BY <1>1 DEF Reheaded
<1> HIDE DEF w
<1>4. /\ IsWriter(w) /\ w.header = h /\ w.status = ws[l].status
      /\ w.body = ws[l].body
  BY <1>1, <1>2 DEF IsWriter, IsHeader
<1>5. /\ AllWriters(put) /\ put[l] = w
      /\ \A m \in Layers \ {l} : put[m] = ws[m]
  BY <1>4, LayerReplaced
<1> HIDE DEF put
<1> QED BY <1>3, <1>4, <1>5

LEMMA FieldPutAll ==
    ASSUME NEW ws, AllWriters(ws), NEW l \in Layers, NEW n \in Names,
           NEW values, NEW new, new = PutHeader(ws, l, n, values)
    PROVE  /\ AllWriters(new)
           /\ \A m \in Layers \ {l} : new[m] = ws[m]
           /\ \A k \in Names :
                 new[l].header[k] =
                    IF k = n /\ ~(l = "conn" /\ ws[l].status # 0) THEN values
                    ELSE ws[l].header[k]
           /\ new[l].status = ws[l].status
           /\ new[l].body = ws[l].body
<1> DEFINE h == [ws[l].header EXCEPT ![n] = values]
           settled == l = "conn" /\ ws[l].status # 0
<1>1. IsWriter(ws[l]) /\ ws = [m \in Layers |-> ws[m]]
  BY DEF AllWriters
<1>2. CASE settled
  <2>1. new = ws
    BY <1>1, <1>2 DEF PutHeader
  <2> QED BY <1>2, <2>1
<1>3. CASE ~settled
  <2>1. IsHeader(h) /\ \A k \in Names :
                          h[k] = IF k = n THEN values ELSE ws[l].header[k]
    BY <1>1 DEF IsWriter, IsHeader
  <2>2. Reheaded(new, ws, l, h)
    BY <1>1, <1>3 DEF PutHeader, Reheaded
  <2> HIDE DEF h
  <2>3. /\ AllWriters(new)
        /\ \A m \in Layers \ {l} : new[m] = ws[m]
        /\ new[l].header = h
        /\ new[l].status = ws[l].status
        /\ new[l].body = ws[l].body
    BY <2>1, <2>2, HeaderPutAll
  <2> QED BY <1>3, <2>1, <2>3
<1> QED BY <1>2, <1>3

-----------------------------------------------------------------------------
(***************************************************************************)
(* The answer of a handler that returns.                                   *)
(***************************************************************************)
\* The first n chunks, as a writer after gzip or without it gets them.
Chunks(zipped, n) == [k \in 1..n |-> IF zipped THEN Zipped(k) ELSE Plain(k)]

\* What a writer nothing has been written to looks like.
FirstHeader(l) ==
    IF l = BelowETag THEN [NoHeader EXCEPT !["policy"] = <<"outer">>]
    ELSE NoHeader

Untouched(l) == [header |-> FirstHeader(l), status |-> 0, body |-> <<>>]

LEMMA UntouchedParts ==
    \A l : /\ Untouched(l).header = FirstHeader(l)
           /\ Untouched(l).status = 0 /\ Untouched(l).body = <<>>
BY DEF Untouched

\* The fields a handler has set, and what a bare connection kept of them.
HeaderHistory ==
    /\ asked["etag"] \in {<<>>, <<OwnTag>>, <<Weak(OwnTag)>>}
    /\ asked["policy"] \in {<<>>, <<"handler">>}
    /\ asked["encoding"] \in {<<>>, <<"own">>}
    /\ \A n \in Names : plain.header[n] \in {<<>>, asked[n]}

\* The calls a handler has made, as the bare connection and gzip saw them.
History ==
    /\ request \in Requests
    /\ plain.status \in Codes \cup {0, 200}
    /\ plain.status = 0 => did.chunks = 0
    /\ plain.body = IF plain.status \in {204, 304} THEN <<>>
                    ELSE Chunks(FALSE, did.chunks)
    /\ HeaderHistory
    /\ gzip.on => CompressApplies
    /\ gzip.on => gzip.wrote
    /\ gzip.wrote <=> plain.status # 0 \/ did.early

\* The same calls, as Base saw them.
BaseHeader(h) ==
    /\ h["etag"] = KeptHeader["etag"]
    /\ h["policy"] = IF KeptHeader["policy"] = <<>>
                     THEN FirstHeader(Base)["policy"]
                     ELSE KeptHeader["policy"]
    /\ h["encoding"] \in {<<>>, <<"own">>, <<"gzip">>}
    /\ ~gzip.on => h["encoding"] = KeptHeader["encoding"]
    /\ gzip.on /\ ~did.early =>
          /\ KeptHeader["encoding"] = <<>> => h["encoding"] = <<"gzip">>
          /\ KeptHeader["length"] = plain.header["length"] =>
                h["length"] = <<>>

BaseStatus == IF Swallowed THEN Early ELSE plain.status

BaseBody ==
    IF ~Buffered /\ plain.status \in {204, 304} THEN <<>>
    ELSE Chunks(gzip.on, did.chunks)

BaseFollows ==
    pc = "running" =>
        /\ AllWriters(writers)
        /\ \A l \in Layers \ {Base} : writers[l] = Untouched(l)
        /\ BaseHeader(writers[Base].header)
        /\ writers[Base].status = BaseStatus
        /\ writers[Base].body = BaseBody

Statuses(ws) ==
    /\ \A l \in Layers :
          ws[l].status \in Codes \cup {0, Early, 200, 304, 500}
    /\ ws["conn"].status # Early

\* The whole invariant: the steps, and what the client gets.
Delivery ==
    /\ Inv
    /\ History
    /\ BaseFollows
    /\ pc \in {"running", "returned", "panicked"}
    /\ pc # "running" => Statuses(writers)
    /\ logged.done => pc = "returned"
    /\ HandlersAnswerWins
    /\ DecodesToWritten
    /\ LogIsAnswer

\* What of the handler's header is kept is one of a few values.
LEMMA KeptTyped ==
    ASSUME HeaderHistory
    PROVE  /\ KeptHeader["policy"] \in {<<>>, <<"handler">>}
           /\ KeptHeader["encoding"] \in {<<>>, <<"own">>}
<1>1. "policy" \in Names /\ "encoding" \in Names
  BY DEF Names
<1> QED BY <1>1 DEF HeaderHistory, KeptHeader

\* What a step leaves alone when configuration and request stay.
LEMMA SameRequest ==
    ASSUME UNCHANGED <<config, request>>
    PROVE  /\ Base' = Base /\ BelowETag' = BelowETag
           /\ ETagApplies' <=> ETagApplies
           /\ Buffered' <=> Buffered
           /\ CompressApplies' <=> CompressApplies
           /\ FirstHeader(Base)' = FirstHeader(Base)
           /\ \A l : Untouched(l)' = Untouched(l)
BY DEF Base, BelowETag, ETagApplies, Buffered, CompressApplies, FirstHeader,
       Untouched

\* ... and the handler sets no header.
LEMMA SameHeaders ==
    ASSUME HeaderHistory, UNCHANGED <<config, request, asked>>,
           plain'.header = plain.header
    PROVE  HeaderHistory' /\ KeptHeader' = KeptHeader
<1>1. Buffered' <=> Buffered
  BY SameRequest
<1> QED BY <1>1 DEF HeaderHistory, KeptHeader

LEMMA PlainChunk == \A k \in Nat : Plain(k) \in Pieces /\ Zipped(k) \in Pieces
BY DEF Plain, Zipped, Pieces

LEMMA ChunksGrow ==
    ASSUME NEW zipped \in BOOLEAN, NEW n \in Nat
    PROVE  /\ Chunks(zipped, n) \in Seq(Pieces)
           /\ Chunks(zipped, 0) = <<>>
           /\ Chunks(zipped, n)
                 \o <<IF zipped THEN Zipped(n + 1) ELSE Plain(n + 1)>>
              = Chunks(zipped, n + 1)
<1> DEFINE piece(k) == IF zipped THEN Zipped(k) ELSE Plain(k)
           old == [k \in 1..n |-> piece(k)]
           new == [k \in 1..(n + 1) |-> piece(k)]
<1>1. \A k \in Nat : piece(k) \in Pieces
  BY PlainChunk
<1> HIDE DEF piece
<1>2. old \in Seq(Pieces) /\ Len(old) = n
  BY <1>1
<1>3. new \in Seq(Pieces) /\ Len(new) = n + 1
  BY <1>1
<1>4. old \o <<piece(n + 1)>> = new
  <2> DEFINE last == <<piece(n + 1)>>
             both == old \o last
  <2>1. last \in Seq(Pieces) /\ Len(last) = 1 /\ last[1] = piece(n + 1)
    BY <1>1
  <2>2. /\ \A k \in 1..n : old[k] = piece(k)
        /\ \A k \in 1..(n + 1) : new[k] = piece(k)
    OBVIOUS
  <2> HIDE DEF last, old, new
  <2>3. /\ both \in Seq(Pieces) /\ Len(both) = n + 1
        /\ \A k \in 1..(n + 1) :
              both[k] = IF k <= n THEN old[k] ELSE last[k - n]
    BY <1>2, <2>1, ConcatProperties
  <2> HIDE DEF both
  <2>4. \A k \in 1..(n + 1) : both[k] = new[k]
    <3> TAKE k \in 1..(n + 1)
    <3>1. CASE k <= n
      BY <2>2, <2>3, <3>1
    <3>2. CASE k = n + 1
      BY <2>1, <2>2, <2>3, <3>2
    <3> QED BY <3>1, <3>2
  <2>5. both = new
    BY <1>3, <2>3, <2>4, SeqEqual
  <2> QED BY <2>5 DEF both, last
<1>5. Chunks(zipped, 0) = <<>>
  BY DEF Chunks
<1>6. Chunks(zipped, n) = old /\ Chunks(zipped, n + 1) = new
  BY DEF Chunks, piece
<1> QED BY <1>2, <1>4, <1>5, <1>6 DEF piece

\* Where a handler starts.
LEMMA InitDelivers == Init => Delivery
<1> SUFFICES ASSUME Init PROVE Delivery
  OBVIOUS
<1>1. plain = [header |-> NoHeader, status |-> 0, body |-> <<>>]
  BY DEF Init, Fresh
<1>2. writers = [w \in Layers |->
                   IF w = BelowETag
                   THEN [Fresh EXCEPT !.header["policy"] = <<"outer">>]
                   ELSE Fresh]
  BY DEF Init, Layers
<1>3. \A l \in Layers : writers[l] = Untouched(l)
  BY <1>2 DEF Fresh, Untouched, FirstHeader
<1>4. /\ pc = "running" /\ gzip.on = FALSE /\ gzip.wrote = FALSE
      /\ did.chunks = 0 /\ did.early = FALSE
  BY DEF Init
<1>5. \A l \in Layers : FirstHeader(l) = [n \in Names |-> FirstHeader(l)[n]]
  BY DEF FirstHeader, NoHeader
<1>6. AllWriters(writers)
  <2>1. \A l \in Layers : IsWriter(Untouched(l))
    BY <1>5, UntouchedParts DEF IsWriter, Untouched
  <2> QED BY <1>2, <1>3, <2>1 DEF AllWriters
<1>7. Base \in Layers
  BY BaseIsBuffer
<1>8. /\ \A n \in Names : plain.header[n] = <<>>
      /\ \A n \in Names : asked[n] = <<>>
      /\ \A n \in Names : KeptHeader[n] = <<>>
  BY <1>1 DEF NoHeader, Init, KeptHeader
<1>9. /\ writers[Base].header = FirstHeader(Base)
      /\ writers[Base].status = 0 /\ writers[Base].body = <<>>
  BY <1>3, <1>7, UntouchedParts
<1>10. \A n \in Names \ {"policy"} : FirstHeader(Base)[n] = <<>>
  BY DEF FirstHeader, NoHeader
<1>11. BaseHeader(writers[Base].header)
  BY <1>4, <1>8, <1>9, <1>10 DEF BaseHeader, Names
<1>12. Chunks(FALSE, 0) = <<>>
  BY DEF Chunks
<1>13. plain.status = 0 /\ plain.body = <<>>
  BY <1>1
<1>14. ~Swallowed /\ BaseStatus = 0 /\ BaseBody = <<>>
  BY <1>4, <1>12, <1>13 DEF BaseStatus, Swallowed, BaseBody
<1>15. BaseFollows
  BY <1>3, <1>6, <1>9, <1>11, <1>14 DEF BaseFollows
<1>16. HeaderHistory
  BY <1>8 DEF HeaderHistory, Names
<1>17. History
  <2>1. request \in Requests
    BY DEF Init
  <2> QED BY <1>4, <1>12, <1>13, <1>16, <2>1 DEF History
<1>18. logged.done = FALSE
  BY DEF Init
<1> QED BY <1>4, <1>15, <1>17, <1>18, InitEstablishes
        DEF Delivery, HandlersAnswerWins, DecodesToWritten, LogIsAnswer


LEMMA SetHeaderDelivers ==
    ASSUME Delivery, NEW n \in Names, NEW v, SetHeader(n, v),
           n = "type" => v # "problem",
           n = "etag" => v \in {OwnTag, Weak(OwnTag)},
           n = "policy" => v = "handler", n = "encoding" => v = "own"
    PROVE  Delivery'
<1> DEFINE one == <<v>>
           old == writers[Base].header
           new == writers'[Base].header
           settled == ~Buffered /\ plain.status # 0
<1>1. /\ pc = "running" /\ asked[n] = <<>>
      /\ asked' = [asked EXCEPT ![n] = one]
      /\ plain' = IF plain.status # 0 THEN plain
                  ELSE [plain EXCEPT !.header[n] = one]
      /\ writers' = PutHeader(writers, Base, n, one)
      /\ UNCHANGED <<config, request, gzip, logged, pc, did>>
  BY DEF SetHeader
<1>2. /\ one # <<>>
      /\ n = "etag" => one \in {<<OwnTag>>, <<Weak(OwnTag)>>}
      /\ n = "policy" => one = <<"handler">>
      /\ n = "encoding" => one = <<"own">>
  OBVIOUS
<1> HIDE DEF one
<1>3. /\ AllWriters(writers) /\ IsWriter(plain)
      /\ asked = [k \in Names |-> asked[k]]
      /\ Base \in Layers /\ (Base = "conn" <=> ~Buffered)
  BY <1>1, BaseIsBuffer DEF Delivery, Inv, Shape, BaseFollows
<1>4. /\ plain'.status = plain.status /\ plain'.body = plain.body
      /\ \A k \in Names :
            plain'.header[k] = IF k = n /\ plain.status = 0 THEN one
                               ELSE plain.header[k]
      /\ \A k \in Names : asked'[k] = IF k = n THEN one ELSE asked[k]
  BY <1>1, <1>3 DEF IsWriter
<1>5. /\ Base' = Base /\ (Buffered' <=> Buffered)
      /\ (CompressApplies' <=> CompressApplies)
      /\ FirstHeader(Base)' = FirstHeader(Base)
      /\ \A l : Untouched(l)' = Untouched(l)
  BY <1>1, SameRequest
<1>6. /\ \A l \in Layers \ {Base} : writers[l] = Untouched(l)
      /\ writers[Base].status = BaseStatus
      /\ writers[Base].body = BaseBody
      /\ BaseHeader(old)
  BY <1>1 DEF Delivery, BaseFollows
<1>7. ~Buffered => BaseStatus = plain.status
  BY DEF BaseStatus, Swallowed
<1>8. /\ AllWriters(writers')
      /\ \A l \in Layers \ {Base} : writers'[l] = writers[l]
      /\ writers'[Base].status = writers[Base].status
      /\ writers'[Base].body = writers[Base].body
      /\ \A k \in Names : new[k] = IF k = n /\ ~settled THEN one ELSE old[k]
  <2>1. /\ AllWriters(writers')
        /\ \A l \in Layers \ {Base} : writers'[l] = writers[l]
        /\ writers'[Base].status = writers[Base].status
        /\ writers'[Base].body = writers[Base].body
        /\ \A k \in Names :
              writers'[Base].header[k] =
                 IF k = n /\ ~(Base = "conn" /\ writers[Base].status # 0)
                 THEN one ELSE writers[Base].header[k]
    BY <1>1, <1>3, FieldPutAll
  <2>2. settled <=> Base = "conn" /\ writers[Base].status # 0
    BY <1>3, <1>6, <1>7
  <2> HIDE DEF settled
  <2> QED BY <2>1, <2>2
<1>9. \A k \in Names :
         KeptHeader'[k] = IF k = n /\ ~settled THEN one ELSE KeptHeader[k]
  BY <1>4, <1>5 DEF KeptHeader
<1>10. /\ HeaderHistory
       /\ gzip.on => plain.status # 0 \/ did.early
  BY DEF Delivery, History
<1>11. HeaderHistory'
  BY <1>1, <1>2, <1>4, <1>10 DEF HeaderHistory, Names
<1>12. History'
  <2>1. /\ request' \in Requests
        /\ gzip'.on => CompressApplies'
        /\ gzip'.on => gzip'.wrote
        /\ gzip'.wrote <=> plain'.status # 0 \/ did'.early
    BY <1>1, <1>4, <1>5 DEF Delivery, History
  <2>2. /\ plain'.status \in Codes \cup {0, 200}
        /\ plain'.status = 0 => did'.chunks = 0
        /\ plain'.body = IF plain'.status \in {204, 304} THEN <<>>
                         ELSE Chunks(FALSE, did'.chunks)
    <3>1. /\ plain.status \in Codes \cup {0, 200}
          /\ plain.status = 0 => did.chunks = 0
          /\ plain.body = IF plain.status \in {204, 304} THEN <<>>
                          ELSE Chunks(FALSE, did.chunks)
      BY DEF Delivery, History
    <3>2. did' = did
      BY <1>1
    <3> QED BY <1>4, <3>1, <3>2
  <2> QED BY <1>11, <2>1, <2>2 DEF History
<1>13. "etag" \in Names /\ "policy" \in Names /\ "encoding" \in Names
         /\ "length" \in Names
  BY DEF Names
<1>14. plain.header[n] = <<>>
  BY <1>1, <1>10 DEF HeaderHistory
<1> HIDE DEF new, old
<1>15. /\ new["etag"] = KeptHeader'["etag"]
       /\ new["policy"] = IF KeptHeader'["policy"] = <<>>
                          THEN FirstHeader(Base)["policy"]
                          ELSE KeptHeader'["policy"]
       /\ new["encoding"] \in {<<>>, <<"own">>, <<"gzip">>}
       /\ ~gzip.on => new["encoding"] = KeptHeader'["encoding"]
  BY <1>2, <1>6, <1>8, <1>9, <1>13 DEF BaseHeader
<1>16. ASSUME gzip.on /\ ~did.early
       PROVE  /\ KeptHeader'["encoding"] = <<>> => new["encoding"] = <<"gzip">>
              /\ KeptHeader'["length"] = plain'.header["length"] =>
                    new["length"] = <<>>
  <2>1. /\ KeptHeader["encoding"] = <<>> => old["encoding"] = <<"gzip">>
        /\ KeptHeader["length"] = plain.header["length"] => old["length"] = <<>>
    BY <1>6, <1>16 DEF BaseHeader
  <2>2. plain.status # 0
    BY <1>10, <1>16
  <2> QED BY <1>2, <1>4, <1>8, <1>9, <1>13, <1>14, <2>1, <2>2
<1>17. BaseHeader(writers[Base].header)'
  BY <1>1, <1>5, <1>15, <1>16 DEF BaseHeader, new
<1>18. /\ BaseStatus' = BaseStatus
       /\ BaseBody' = BaseBody
  BY <1>1, <1>4, <1>5 DEF BaseStatus, BaseBody, Swallowed
<1>19. BaseFollows'
  BY <1>5, <1>6, <1>8, <1>17, <1>18 DEF BaseFollows
<1>20. Inv'
  BY SetHeaderKeeps DEF Delivery
<1> QED BY <1>1, <1>12, <1>19, <1>20
        DEF Delivery, HandlersAnswerWins, DecodesToWritten, LogIsAnswer

\* Compress decides on the first call, and then changes no more than the
\* two headers of a compressed answer.
LEMMA DecidedBase ==
    ASSUME Delivery, pc = "running"
    PROVE  /\ AllWriters(Decided)
           /\ \A l \in Layers \ {Base} : Decided[l] = Untouched(l)
           /\ Decided[Base].status = BaseStatus
           /\ Decided[Base].body = BaseBody
           /\ Decided[Base].header["etag"] = writers[Base].header["etag"]
           /\ Decided[Base].header["policy"] = writers[Base].header["policy"]
           /\ ~StartsGzip => Decided[Base].header = writers[Base].header
           /\ StartsGzip =>
                 /\ Decided[Base].header["encoding"] = <<"gzip">>
                 /\ Decided[Base].header["length"] = <<>>
<1> DEFINE old == writers[Base].header
           h == GzipHeader(old)
<1>1. /\ AllWriters(writers) /\ IsWriter(writers[Base]) /\ Base \in Layers
      /\ \A l \in Layers \ {Base} : writers[l] = Untouched(l)
      /\ writers[Base].status = BaseStatus
      /\ writers[Base].body = BaseBody
  BY BaseIsBuffer DEF Delivery, BaseFollows, AllWriters
<1>2. CASE ~StartsGzip
  BY <1>1, <1>2 DEF Decided
<1>3. CASE StartsGzip
  <2>1. /\ IsHeader(h)
        /\ h["encoding"] = <<"gzip">> /\ h["length"] = <<>>
        /\ h["etag"] = old["etag"] /\ h["policy"] = old["policy"]
    BY <1>1 DEF IsWriter, IsHeader, GzipHeader, Names
  <2>2. Reheaded(Decided, writers, Base, h)
    BY <1>3 DEF Decided, Reheaded
  <2> HIDE DEF h
  <2>3. /\ AllWriters(Decided)
        /\ \A l \in Layers \ {Base} : Decided[l] = writers[l]
        /\ Decided[Base].header = h
        /\ Decided[Base].status = writers[Base].status
        /\ Decided[Base].body = writers[Base].body
    BY <1>1, <2>1, <2>2, HeaderPutAll
  <2> QED BY <1>1, <1>3, <2>1, <2>3
<1> QED BY <1>2, <1>3

\* Nothing changes for gzip once the handler has given a status.
LEMMA GzipOnce ==
    ASSUME Delivery
    PROVE  /\ plain.status # 0 => ~StartsGzip
           /\ StartsGzip => CompressApplies
           /\ plain.status = 0 =>
                 /\ did.chunks = 0 /\ plain.body = <<>> /\ BaseBody = <<>>
<1>1. plain.status # 0 => ~StartsGzip
  BY DEF Delivery, History, StartsGzip
<1>2. StartsGzip => CompressApplies
  BY DEF StartsGzip
<1>3. gzip.on \in BOOLEAN
  BY DEF Delivery, Inv, Shape
<1>4. Chunks(FALSE, 0) = <<>> /\ Chunks(gzip.on, 0) = <<>>
  BY <1>3, ChunksGrow
<1>5. plain.status = 0 =>
         did.chunks = 0 /\ plain.body = <<>> /\ BaseBody = <<>>
  <2> SUFFICES ASSUME plain.status = 0
               PROVE  did.chunks = 0 /\ plain.body = <<>> /\ BaseBody = <<>>
    OBVIOUS
  <2>1. did.chunks = 0 /\ plain.body = Chunks(FALSE, did.chunks)
    BY DEF Delivery, History
  <2>2. BaseBody = Chunks(gzip.on, did.chunks)
    BY DEF BaseBody
  <2> QED BY <1>4, <2>1, <2>2
<1> QED BY <1>1, <1>2, <1>5

\* The headers, when Compress passes a call on.
LEMMA HeaderFollows ==
    ASSUME Delivery, pc = "running", UNCHANGED <<config, request, asked>>,
           plain'.header = plain.header,
           writers'[Base].header = Decided[Base].header,
           gzip'.on <=> gzip.on \/ StartsGzip,
           did.early => did'.early
    PROVE  BaseHeader(writers[Base].header)'
<1>1. BaseHeader(writers[Base].header)
  BY DEF Delivery, BaseFollows
<1>2. /\ Decided[Base].header["etag"] = writers[Base].header["etag"]
      /\ Decided[Base].header["policy"] = writers[Base].header["policy"]
      /\ ~StartsGzip => Decided[Base].header = writers[Base].header
      /\ StartsGzip =>
            /\ Decided[Base].header["encoding"] = <<"gzip">>
            /\ Decided[Base].header["length"] = <<>>
  BY DecidedBase
<1>3. Base' = Base /\ FirstHeader(Base)' = FirstHeader(Base)
        /\ KeptHeader' = KeptHeader
  BY SameRequest, SameHeaders DEF Delivery, History
<1> DEFINE h == writers'[Base].header
<1>4. /\ h["etag"] = KeptHeader["etag"]
      /\ h["policy"] = IF KeptHeader["policy"] = <<>>
                       THEN FirstHeader(Base)["policy"]
                       ELSE KeptHeader["policy"]
      /\ h["encoding"] \in {<<>>, <<"own">>, <<"gzip">>}
      /\ ~gzip'.on => h["encoding"] = KeptHeader["encoding"]
      /\ gzip'.on /\ ~did'.early =>
            /\ KeptHeader["encoding"] = <<>> => h["encoding"] = <<"gzip">>
            /\ KeptHeader["length"] = plain'.header["length"] =>
                  h["length"] = <<>>
  BY <1>1, <1>2 DEF BaseHeader
<1> QED BY <1>3, <1>4 DEF BaseHeader

LEMMA WriteHeaderDelivers ==
    ASSUME Delivery, NEW code \in Codes \cup {Early}, WriteHeader(code)
    PROVE  Delivery'
<1>1. /\ pc = "running"
      /\ plain' = ConnWriteHeader(plain, code)
      /\ gzip' = [wrote |-> TRUE, on |-> gzip.on \/ StartsGzip]
      /\ writers' = PutStatus(Decided, Base, code)
      /\ UNCHANGED <<config, request, pc, asked>>
  BY DEF WriteHeader, CompressWriteHeader, Decided
<1>2. did'.chunks = did.chunks
        /\ (did'.early <=> did.early \/ (code = Early /\ plain.status = 0))
  <2> DEFINE e == did.early \/ (code = Early /\ plain.status = 0)
             l == did.late \/ plain.status # 0
             c == did.calls + 1
  <2>1. did' = [did EXCEPT !.calls = c, !.early = e, !.late = l]
    BY DEF WriteHeader
  <2>2. did = [calls |-> did.calls, chunks |-> did.chunks,
               early |-> did.early, late |-> did.late]
    BY DEF Delivery, Inv, Shape
  <2> HIDE DEF c, e, l
  <2>3. did' = [calls |-> c, chunks |-> did.chunks, early |-> e, late |-> l]
    BY <2>1, <2>2
  <2>4. did'.chunks = did.chunks /\ did'.early = e
    BY <2>3
  <2> QED BY <2>4 DEF e
<1>3. code \in Nat /\ (code < 200 <=> code = Early) /\ code # 0
  BY CodesAssumption DEF Early
<1>4. /\ Base \in Layers /\ (Base = "conn" <=> ~Buffered)
      /\ Base' = Base /\ (Buffered' <=> Buffered)
      /\ (CompressApplies' <=> CompressApplies)
      /\ \A l : Untouched(l)' = Untouched(l)
  BY <1>1, BaseIsBuffer, SameRequest
<1>5. IsWriter(plain) /\ plain.status \in Nat
  BY DEF Delivery, Inv, Shape, IsWriter
<1>6. /\ plain'.header = plain.header /\ plain'.body = plain.body
      /\ plain'.status = IF plain.status # 0 \/ code < 200
                         THEN plain.status ELSE code
  BY <1>1, <1>3, <1>5, HeaderWritten
<1>7. gzip'.wrote = TRUE /\ (gzip'.on <=> gzip.on \/ StartsGzip)
  BY <1>1
<1>8. /\ AllWriters(Decided)
      /\ \A l \in Layers \ {Base} : Decided[l] = Untouched(l)
      /\ Decided[Base].status = BaseStatus
      /\ Decided[Base].body = BaseBody
  BY <1>1, DecidedBase
<1>9. /\ AllWriters(writers')
      /\ \A l \in Layers \ {Base} : writers'[l] = Untouched(l)
      /\ writers'[Base].header = Decided[Base].header
      /\ writers'[Base].body = BaseBody
      /\ writers'[Base].status = StatusAfter(Base, Decided[Base], code)
  BY <1>1, <1>3, <1>4, <1>8, StatusPutAll
<1>10. BaseHeader(writers[Base].header)'
  BY <1>1, <1>2, <1>6, <1>7, <1>9, HeaderFollows
<1>11. writers'[Base].status = BaseStatus'
  <2>1. writers'[Base].status =
          IF BaseStatus # 0 \/ (~Buffered /\ code < 200) THEN BaseStatus
          ELSE code
    BY <1>4, <1>8, <1>9 DEF StatusAfter
  <2>2. BaseStatus' = IF did'.early /\ Buffered THEN Early ELSE plain'.status
    BY <1>4 DEF BaseStatus, Swallowed
  <2>3. BaseStatus = IF did.early /\ Buffered THEN Early ELSE plain.status
    BY DEF BaseStatus, Swallowed
  <2> QED BY <1>2, <1>3, <1>5, <1>6, <2>1, <2>2, <2>3 DEF Early
<1>12. BaseBody = BaseBody'
  <2>1. CASE plain.status = 0
    <3>1. did.chunks = 0 /\ BaseBody = <<>>
      BY <2>1, GzipOnce
    <3>2. gzip'.on \in BOOLEAN
      BY <1>1 DEF Delivery, Inv, Shape, StartsGzip, CompressApplies
    <3>3. Chunks(gzip'.on, 0) = <<>>
      BY <3>2, ChunksGrow
    <3> QED BY <1>2, <3>1, <3>3 DEF BaseBody
  <2>2. CASE plain.status # 0
    <3>1. ~StartsGzip
      BY <2>2, GzipOnce
    <3>2. gzip'.on = gzip.on
      BY <1>1, <3>1 DEF Delivery, Inv, Shape
    <3> QED BY <1>2, <1>4, <1>6, <2>2, <3>2 DEF BaseBody
  <2> QED BY <2>1, <2>2
<1>13. BaseFollows'
  BY <1>4, <1>9, <1>10, <1>11, <1>12 DEF BaseFollows
<1>14. History'
  <2>1. /\ plain.status \in Codes \cup {0, 200}
        /\ plain.status = 0 => did.chunks = 0 /\ plain.body = <<>>
        /\ plain.status # 0 =>
              plain.body = IF plain.status \in {204, 304} THEN <<>>
                           ELSE Chunks(FALSE, did.chunks)
        /\ gzip.on => CompressApplies
    BY GzipOnce DEF Delivery, History
  <2>2. plain'.status \in Codes \cup {0, 200}
          /\ (plain'.status = 0 => did'.chunks = 0)
    BY <1>2, <1>3, <1>6, <2>1
  <2>3. plain'.body = IF plain'.status \in {204, 304} THEN <<>>
                      ELSE Chunks(FALSE, did'.chunks)
    <3> DEFINE c == Chunks(FALSE, did.chunks)
    <3>1. Chunks(FALSE, did'.chunks) = c
      BY <1>2
    <3>2. plain.status = 0 => c = <<>> /\ plain.body = <<>>
      <4>1. Chunks(FALSE, 0) = <<>>
        BY ChunksGrow
      <4>2. ASSUME did.chunks = 0 PROVE c = <<>>
        BY <4>1, <4>2
      <4> HIDE DEF c
      <4> QED BY <2>1, <4>2
    <3>3. plain.status # 0 =>
             plain.body = IF plain.status \in {204, 304} THEN <<>> ELSE c
      BY <2>1
    <3> HIDE DEF c
    <3>4. plain'.body = IF plain'.status \in {204, 304} THEN <<>> ELSE c
      BY <1>6, <3>2, <3>3
    <3> QED BY <3>1, <3>4
  <2>4. HeaderHistory' /\ request' \in Requests
    BY <1>1, <1>6, SameHeaders DEF Delivery, History
  <2>5. gzip'.on => CompressApplies'
    BY <1>4, <1>7, <2>1, GzipOnce
  <2>6. plain'.status # 0 \/ did'.early
    BY <1>2, <1>3, <1>6
  <2> QED BY <1>7, <2>2, <2>3, <2>4, <2>5, <2>6 DEF History
<1>15. Inv'
  BY WriteHeaderKeeps DEF Delivery
<1>16. logged'.done = logged.done /\ ~logged.done
  BY <1>1 DEF WriteHeader, Delivery, Inv, Shape
<1> QED BY <1>1, <1>13, <1>14, <1>15, <1>16
        DEF Delivery, HandlersAnswerWins, DecodesToWritten, LogIsAnswer

LEMMA WriteDelivers ==
    ASSUME Delivery, Write
    PROVE  Delivery'
<1> DEFINE n == did.chunks
           on == gzip.on \/ StartsGzip
           piece == IF on THEN Zipped(n + 1) ELSE Plain(n + 1)
           to == IF gzip.wrote THEN Decided ELSE PutStatus(Decided, Base, 200)
<1>1. /\ pc = "running"
      /\ did' = [did EXCEPT !.chunks = @ + 1]
      /\ plain' = ConnWrite(plain, <<Plain(n + 1)>>)
      /\ gzip' = [wrote |-> TRUE, on |-> on]
      /\ writers' = PutBody(to, Base, <<piece>>)
      /\ UNCHANGED <<config, request, logged, pc, asked>>
  BY DEF Write, CompressWrite, Decided
<1>2. /\ IsWriter(plain) /\ plain.status \in Nat /\ n \in Nat
      /\ on \in BOOLEAN /\ gzip.on \in BOOLEAN
  BY DEF Delivery, Inv, Shape, IsWriter, StartsGzip, CompressApplies
<1>3. did' = [calls |-> did.calls, chunks |-> n + 1,
              early |-> did.early, late |-> did.late]
  BY <1>1 DEF Delivery, Inv, Shape
<1>4. did'.chunks = n + 1 /\ did'.early = did.early
  BY <1>3
<1>5. /\ Base \in Layers /\ (Base = "conn" <=> ~Buffered)
      /\ Base' = Base /\ (Buffered' <=> Buffered)
      /\ (CompressApplies' <=> CompressApplies)
      /\ \A l : Untouched(l)' = Untouched(l)
  BY <1>1, BaseIsBuffer, SameRequest
<1>6. /\ plain'.header = plain.header
      /\ plain'.status = StatusWritten(plain)
      /\ plain'.body = Longer(plain, Plain(n + 1))
  BY <1>1, <1>2, PlainChunk, BodyWritten DEF StatusWritten
<1>7. /\ plain'.status = IF plain.status = 0 THEN 200 ELSE plain.status
      /\ plain'.status # 0
      /\ plain'.status \in {204, 304} <=> plain.status \in {204, 304}
  BY <1>6 DEF StatusWritten
<1>8. gzip'.wrote = TRUE /\ gzip'.on = on /\ (gzip'.on <=> gzip.on \/ StartsGzip)
  BY <1>1, <1>2
<1>9. /\ AllWriters(Decided)
      /\ \A l \in Layers \ {Base} : Decided[l] = Untouched(l)
      /\ Decided[Base].status = BaseStatus
      /\ Decided[Base].body = BaseBody
  BY <1>1, DecidedBase
<1>10. BaseStatus \in Nat
  BY <1>2 DEF BaseStatus, Early
<1>11. /\ AllWriters(to)
       /\ \A l \in Layers \ {Base} : to[l] = Untouched(l)
       /\ to[Base].header = Decided[Base].header
       /\ to[Base].body = BaseBody
       /\ StatusWritten(to[Base]) = IF BaseStatus = 0 THEN 200 ELSE BaseStatus
  <2>1. CASE gzip.wrote
    BY <1>9, <2>1 DEF StatusWritten
  <2>2. CASE ~gzip.wrote
    <3>1. BaseStatus = 0
      BY <2>2 DEF Delivery, History, BaseStatus, Swallowed
    <3> DEFINE put == PutStatus(Decided, Base, 200)
    <3>2. /\ AllWriters(put)
          /\ \A l \in Layers \ {Base} : put[l] = Decided[l]
          /\ put[Base].header = Decided[Base].header
          /\ put[Base].body = Decided[Base].body
          /\ put[Base].status = StatusAfter(Base, Decided[Base], 200)
      BY <1>5, <1>9, StatusPutAll
    <3> HIDE DEF put
    <3>3. put[Base].status = 200
      BY <1>9, <3>1, <3>2 DEF StatusAfter
    <3>4. to = put
      BY <2>2 DEF put
    <3> QED BY <1>9, <3>1, <3>2, <3>3, <3>4 DEF StatusWritten
  <2> QED BY <2>1, <2>2
<1> HIDE DEF to
<1>12. piece \in Pieces
  BY <1>2, PlainChunk
<1> HIDE DEF on
<1>13. <<piece>> \in Seq(Pieces)
  BY <1>12
<1> HIDE DEF piece
<1>14. /\ AllWriters(writers')
       /\ \A l \in Layers \ {Base} : writers'[l] = Untouched(l)
       /\ writers'[Base].header = Decided[Base].header
       /\ writers'[Base].status = StatusWritten(to[Base])
       /\ writers'[Base].body = BodyAfter(Base, to[Base], <<piece>>)
  <2> DEFINE sent == PutBody(to, Base, <<piece>>)
  <2>1. writers' = sent
    BY <1>1
  <2>2. /\ AllWriters(sent)
        /\ \A l \in Layers \ {Base} : sent[l] = to[l]
        /\ sent[Base].header = to[Base].header
        /\ sent[Base].status = StatusWritten(to[Base])
        /\ sent[Base].body = BodyAfter(Base, to[Base], <<piece>>)
    BY <1>5, <1>11, <1>13, BodyPutAll
  <2> HIDE DEF sent
  <2> QED BY <1>11, <2>1, <2>2
<1>15. BaseHeader(writers[Base].header)'
  BY <1>1, <1>4, <1>6, <1>8, <1>14, HeaderFollows
<1>16. writers'[Base].status = BaseStatus'
  BY <1>4, <1>5, <1>7, <1>11, <1>14 DEF BaseStatus, Swallowed, Early
<1>17. Chunks(gzip.on, n) = Chunks(on, n) /\ (plain.status = 0 => n = 0)
  <2>1. CASE plain.status = 0
    <3>1. n = 0
      BY <2>1, GzipOnce
    <3> QED BY <1>2, <3>1, ChunksGrow
  <2>2. CASE plain.status # 0
    <3>1. on = gzip.on
      BY <1>2, <2>2, GzipOnce DEF on
    <3> QED BY <2>2, <3>1
  <2> QED BY <2>1, <2>2
<1>18. Chunks(on, n) \o <<piece>> = Chunks(on, n + 1)
  BY <1>2, ChunksGrow DEF piece
<1>19. writers'[Base].body = BaseBody'
  <2>1. BaseBody' = IF ~Buffered /\ plain.status \in {204, 304} THEN <<>>
                    ELSE Chunks(on, n + 1)
    BY <1>4, <1>5, <1>7, <1>8 DEF BaseBody
  <2>2. BaseBody = IF ~Buffered /\ plain.status \in {204, 304} THEN <<>>
                   ELSE Chunks(on, n)
    BY <1>17 DEF BaseBody
  <2>3. ~Buffered => BaseStatus = plain.status
    BY DEF BaseStatus, Swallowed
  <2>4. writers'[Base].body =
          IF ~Buffered /\ plain.status \in {204, 304} THEN BaseBody
          ELSE BaseBody \o <<piece>>
    BY <1>5, <1>11, <1>14, <2>3 DEF BodyAfter
  <2> QED BY <1>18, <2>1, <2>2, <2>4
<1>20. BaseFollows'
  BY <1>5, <1>14, <1>15, <1>16, <1>19 DEF BaseFollows
<1>21. History'
  <2>1. plain'.status \in Codes \cup {0, 200}
    BY <1>7 DEF Delivery, History
  <2>2. plain'.body = IF plain'.status \in {204, 304} THEN <<>>
                      ELSE Chunks(FALSE, n + 1)
    <3>1. Chunks(FALSE, n) \o <<Plain(n + 1)>> = Chunks(FALSE, n + 1)
      BY <1>2, ChunksGrow
    <3>2. plain.body = IF plain.status \in {204, 304} THEN <<>>
                       ELSE Chunks(FALSE, n)
      BY DEF Delivery, History
    <3>3. CASE plain.status \in {204, 304}
      BY <1>6, <1>7, <3>2, <3>3 DEF Longer
    <3>4. CASE plain.status \notin {204, 304}
      <4>1. plain'.body = plain.body \o <<Plain(n + 1)>>
        BY <1>6, <3>4 DEF Longer
      <4>2. plain.body = Chunks(FALSE, n)
        BY <3>2, <3>4
      <4>3. plain'.status \notin {204, 304}
        BY <1>7, <3>4
      <4> QED BY <3>1, <4>1, <4>2, <4>3
    <3> QED BY <3>3, <3>4
  <2>3. HeaderHistory' /\ request' \in Requests
    BY <1>1, <1>6, SameHeaders DEF Delivery, History
  <2>4. gzip'.on => CompressApplies'
    BY <1>5, <1>8, GzipOnce DEF Delivery, History
  <2> QED BY <1>4, <1>7, <1>8, <2>1, <2>2, <2>3, <2>4 DEF History
<1>22. Inv'
  BY WriteKeeps DEF Delivery
<1> QED BY <1>1, <1>20, <1>21, <1>22
        DEF Delivery, HandlersAnswerWins, DecodesToWritten, LogIsAnswer


\* No writer's status is other than one of the codes, and the connection
\* takes no hint for one.
LEMMA StatusPutTyped ==
    ASSUME NEW ws, AllWriters(ws), Statuses(ws), NEW l \in Layers,
           NEW code \in Codes \cup {Early, 200, 304, 500}
    PROVE  Statuses(PutStatus(ws, l, code))
<1> DEFINE new == PutStatus(ws, l, code)
<1>1. code \in Nat
  BY CodesAssumption DEF Early
<1>2. /\ \A m \in Layers \ {l} : new[m] = ws[m]
      /\ new[l].status = StatusAfter(l, ws[l], code)
  BY <1>1, StatusPutAll
<1> HIDE DEF new
<1>3. \A m \in Layers : new[m].status \in Codes \cup {0, Early, 200, 304, 500}
  BY <1>2 DEF Statuses, StatusAfter
<1>4. new["conn"].status # Early
  BY <1>2 DEF Statuses, StatusAfter, Layers, Early
<1> QED BY <1>3, <1>4 DEF Statuses, new

LEMMA BodyPutTyped ==
    ASSUME NEW ws, AllWriters(ws), Statuses(ws), NEW l \in Layers,
           NEW pieces \in Seq(Pieces)
    PROVE  Statuses(PutBody(ws, l, pieces))
<1> DEFINE new == PutBody(ws, l, pieces)
<1>1. /\ \A m \in Layers \ {l} : new[m] = ws[m]
      /\ new[l].status = StatusWritten(ws[l])
  BY BodyPutAll
<1> HIDE DEF new
<1> QED BY <1>1 DEF Statuses, StatusWritten, Layers, Early, new

LEMMA HeaderPutTyped ==
    ASSUME NEW ws, AllWriters(ws), Statuses(ws), NEW l \in Layers,
           NEW h, IsHeader(h), NEW new, Reheaded(new, ws, l, h)
    PROVE  Statuses(new)
<1>1. \A m \in Layers : new[m].status = ws[m].status
  BY HeaderPutAll
<1> QED BY <1>1 DEF Statuses, Layers

\* A buffered answer is played to the next writer.
Taken(l, code) == IF l = "conn" /\ code < 200 THEN 200 ELSE code

BodyTaken(l, code, body) ==
    IF l = "conn" /\ Taken(l, code) \in {204, 304} THEN <<>> ELSE body

Replay(ws, l, code, body) == PutBody(PutStatus(ws, l, code), l, body)

Blank(ws, l) == AllWriters(ws) /\ ws[l].status = 0 /\ ws[l].body = <<>>

ReplayTyped(ws, l, code, body) ==
    Statuses(ws) /\ code \in Codes \cup {Early, 200, 304, 500} =>
       Statuses(Replay(ws, l, code, body))

LEMMA Replayed ==
    ASSUME NEW ws, NEW l \in Layers, Blank(ws, l),
           NEW code \in Nat, code # 0, NEW body \in Seq(Pieces)
    PROVE  /\ AllWriters(Replay(ws, l, code, body))
           /\ \A m \in Layers \ {l} : Replay(ws, l, code, body)[m] = ws[m]
           /\ Replay(ws, l, code, body)[l].header = ws[l].header
           /\ Replay(ws, l, code, body)[l].status = Taken(l, code)
           /\ Replay(ws, l, code, body)[l].body = BodyTaken(l, code, body)
           /\ ReplayTyped(ws, l, code, body)
<1> DEFINE headed == PutStatus(ws, l, code)
           new == PutBody(headed, l, body)
<1>1. /\ AllWriters(headed)
      /\ \A m \in Layers \ {l} : headed[m] = ws[m]
      /\ headed[l].header = ws[l].header
      /\ headed[l].body = <<>>
      /\ headed[l].status = StatusAfter(l, ws[l], code)
  BY StatusPutAll DEF Blank
<1>2. Statuses(ws) /\ code \in Codes \cup {Early, 200, 304, 500} =>
         Statuses(headed)
  BY StatusPutTyped DEF Blank
<1> HIDE DEF headed
<1>3. /\ AllWriters(new)
      /\ \A m \in Layers \ {l} : new[m] = headed[m]
      /\ new[l].header = headed[l].header
      /\ new[l].status = StatusWritten(headed[l])
      /\ new[l].body = BodyAfter(l, headed[l], body)
  BY <1>1, BodyPutAll
<1>4. Statuses(headed) => Statuses(new)
  BY <1>1, BodyPutTyped
<1>5. new = Replay(ws, l, code, body)
  BY DEF Replay, headed
<1> HIDE DEF new
<1>6. <<>> \o body = body
  BY ConcatEmptySeq
<1>7. StatusWritten(headed[l]) = Taken(l, code)
  BY <1>1 DEF StatusAfter, StatusWritten, Taken, Blank
<1>8. BodyAfter(l, headed[l], body) = BodyTaken(l, code, body)
  BY <1>1, <1>6, <1>7 DEF BodyAfter, BodyTaken
<1>9. ReplayTyped(ws, l, code, body)
  BY <1>2, <1>4, <1>5 DEF ReplayTyped
<1> QED BY <1>1, <1>3, <1>5, <1>7, <1>8, <1>9

LEMMA RunningStatuses ==
    ASSUME Delivery, pc = "running"
    PROVE  Statuses(writers)
<1>1. /\ \A l \in Layers \ {Base} : writers[l] = Untouched(l)
      /\ writers[Base].status = BaseStatus
      /\ Base = "conn" <=> ~Buffered
  BY BaseIsBuffer DEF Delivery, BaseFollows
<1>2. BaseStatus \in Codes \cup {0, Early, 200, 304, 500}
  BY DEF Delivery, History, BaseStatus
<1>3. ~Buffered => BaseStatus # Early
  BY CodesAssumption DEF Delivery, History, BaseStatus, Swallowed, Early
<1>4. \A l \in Layers \ {Base} : writers[l].status = 0
  BY <1>1, UntouchedParts
<1> QED BY <1>1, <1>2, <1>3, <1>4 DEF Statuses, Layers, Early

\* Compress ends its stream.
Closed == CompressClose(writers)

LEMMA CloseWrites ==
    ASSUME Delivery, pc = "running"
    PROVE  /\ AllWriters(Closed)
           /\ \A l \in Layers \ {Base} : Closed[l] = Untouched(l)
           /\ Closed[Base].header = writers[Base].header
           /\ StatusWritten(Closed[Base]) = StatusWritten(writers[Base])
           /\ Closed[Base].body =
                 IF gzip.on THEN BodyAfter(Base, writers[Base], <<Trailer>>)
                 ELSE writers[Base].body
           /\ Statuses(Closed)
<1>1. /\ AllWriters(writers) /\ Base \in Layers /\ Statuses(writers)
      /\ \A l \in Layers \ {Base} : writers[l] = Untouched(l)
  BY BaseIsBuffer, RunningStatuses DEF Delivery, BaseFollows
<1>2. CASE ~gzip.on
  BY <1>1, <1>2 DEF Closed, CompressClose
<1>3. CASE gzip.on
  <2>1. <<Trailer>> \in Seq(Pieces)
    BY DEF Trailer, Pieces
  <2> DEFINE put == PutBody(writers, Base, <<Trailer>>)
  <2>2. /\ AllWriters(put)
        /\ \A l \in Layers \ {Base} : put[l] = writers[l]
        /\ put[Base].header = writers[Base].header
        /\ put[Base].status = StatusWritten(writers[Base])
        /\ put[Base].body = BodyAfter(Base, writers[Base], <<Trailer>>)
    BY <1>1, <2>1, BodyPutAll
  <2>3. Statuses(put)
    BY <1>1, <2>1, BodyPutTyped
  <2>4. Closed = put
    BY <1>3 DEF Closed, CompressClose
  <2> HIDE DEF put
  <2>5. StatusWritten(put[Base]) = StatusWritten(writers[Base])
    BY <2>2 DEF StatusWritten
  <2> QED BY <1>1, <1>3, <2>2, <2>3, <2>4, <2>5
<1> QED BY <1>2, <1>3

LEMMA SameHistory ==
    ASSUME History, UNCHANGED <<config, request, gzip, plain, asked, did>>
    PROVE  History'
<1>1. CompressApplies' <=> CompressApplies
  BY SameRequest
<1>2. plain' = plain /\ gzip' = gzip /\ did' = did
  OBVIOUS
<1> DEFINE c == Chunks(FALSE, did.chunks)
<1>3. /\ plain'.status \in Codes \cup {0, 200}
      /\ plain'.status = 0 => did'.chunks = 0
      /\ plain'.body = IF plain'.status \in {204, 304} THEN <<>>
                       ELSE Chunks(FALSE, did'.chunks)
  <2>1. Chunks(FALSE, did'.chunks) = c
    BY <1>2
  <2>2. /\ plain.status \in Codes \cup {0, 200}
        /\ plain.status = 0 => did.chunks = 0
        /\ plain.body = IF plain.status \in {204, 304} THEN <<>> ELSE c
    BY DEF History
  <2> HIDE DEF c
  <2>3. plain'.status \in Codes \cup {0, 200}
    BY <1>2, <2>2
  <2>4. plain'.status = 0 => did'.chunks = 0
    BY <1>2, <2>2
  <2>5. plain'.body = IF plain'.status \in {204, 304} THEN <<>> ELSE c
    BY <1>2, <2>2
  <2>6. plain'.body = IF plain'.status \in {204, 304} THEN <<>>
                      ELSE Chunks(FALSE, did'.chunks)
    BY <2>1, <2>5, Zenon
  <2> QED BY <2>3, <2>4, <2>6
<1>4. HeaderHistory' /\ request' \in Requests
  BY <1>2, SameHeaders DEF History
<1>5. /\ gzip'.on => CompressApplies'
      /\ gzip'.on => gzip'.wrote
      /\ gzip'.wrote <=> plain'.status # 0 \/ did'.early
  BY <1>1, <1>2 DEF History
<1> QED BY <1>3, <1>4, <1>5 DEF History

LEMMA PanicDelivers ==
    ASSUME Delivery, Panic
    PROVE  Delivery'
<1> DEFINE problem == <<"problem">>
           headed == PutHeader(Closed, "conn", "type", problem)
           typed == PutStatus(headed, "conn", 500)
<1>1. /\ pc = "running" /\ pc' = "panicked"
      /\ writers' = IF "recover" \in config
                    THEN PutBody(typed, "conn", <<ProblemBody>>) ELSE Closed
      /\ UNCHANGED <<config, request, gzip, logged, plain, asked, did>>
  BY DEF Panic, WriteProblem, Closed
<1>2. AllWriters(Closed) /\ Statuses(Closed) /\ "conn" \in Layers
  BY <1>1, CloseWrites DEF Layers
<1>3. /\ AllWriters(headed)
      /\ \A m \in Layers : headed[m].status = Closed[m].status
  <2>1. headed = PutHeader(Closed, "conn", "type", problem)
          /\ "type" \in Names
    BY DEF Names
  <2> HIDE DEF headed, problem
  <2>2. /\ AllWriters(headed)
        /\ \A m \in Layers \ {"conn"} : headed[m] = Closed[m]
        /\ headed["conn"].status = Closed["conn"].status
    BY <1>2, <2>1, FieldPutAll
  <2> QED BY <2>2
<1> HIDE DEF headed
<1>4. Statuses(headed)
  BY <1>2, <1>3 DEF Statuses
<1>5. AllWriters(typed) /\ Statuses(typed)
  BY <1>2, <1>3, <1>4, StatusPutAll, StatusPutTyped
<1> HIDE DEF typed
<1>6. <<ProblemBody>> \in Seq(Pieces)
  BY DEF ProblemBody, Pieces
<1>7. Statuses(PutBody(typed, "conn", <<ProblemBody>>))
  BY <1>2, <1>5, <1>6, BodyPutTyped
<1>8. Statuses(writers')
  BY <1>1, <1>2, <1>7
<1>9. Statuses(writers)'
  BY <1>8 DEF Statuses
<1>10. Inv'
  BY PanicKeeps DEF Delivery
<1>11. History'
  BY <1>1, SameHistory DEF Delivery
<1> QED BY <1>1, <1>9, <1>10, <1>11
        DEF Delivery, BaseFollows, HandlersAnswerWins, DecodesToWritten,
            LogIsAnswer


\* A buffer that is passed on has a status.
LEMMA BufferEnds ==
    ASSUME NEW w, IsWriter(w)
    PROVE  /\ IsWriter(BufferWriteHeader(w, 200))
           /\ BufferWriteHeader(w, 200).header = w.header
           /\ BufferWriteHeader(w, 200).body = w.body
           /\ BufferWriteHeader(w, 200).status = StatusWritten(w)
<1> DEFINE new == BufferWriteHeader(w, 200)
<1>1. new = [header |-> w.header, status |-> StatusWritten(w), body |-> w.body]
  BY DEF BufferWriteHeader, StatusWritten, IsWriter
<1> HIDE DEF new
<1>2. /\ new.header = w.header /\ new.body = w.body
      /\ new.status = StatusWritten(w) /\ StatusWritten(w) \in Nat
  BY <1>1 DEF StatusWritten, IsWriter
<1>3. IsWriter(new)
  BY <1>1, <1>2 DEF IsWriter
<1> QED BY <1>2, <1>3 DEF new

\* ETag's flush: 304 for a match, else the buffered answer, to the next
\* writer out, which has had nothing but a header.
FlushHits(ws) ==
    /\ StatusWritten(ws["etag"]) \in 200..299
    /\ IfNoneMatchMatches(TagOf(ws["etag"]))

LEMMA Flushed ==
    ASSUME NEW ws, AllWriters(ws), Statuses(ws),
           ws[BelowETag] = Untouched(BelowETag)
    PROVE  /\ AllWriters(Flush(ws)) /\ Statuses(Flush(ws))
           /\ \A m \in Layers \ {BelowETag} : Flush(ws)[m] = ws[m]
           /\ Flush(ws)[BelowETag].status =
                 IF FlushHits(ws) THEN 304
                 ELSE Taken(BelowETag, StatusWritten(ws["etag"]))
           /\ Flush(ws)[BelowETag].body =
                 IF FlushHits(ws) THEN <<>>
                 ELSE BodyTaken(BelowETag, StatusWritten(ws["etag"]),
                                ws["etag"].body)
           /\ \A n \in Names \ {"etag"} :
                 Flush(ws)[BelowETag].header[n] =
                    FirstHeader(BelowETag)[n] \o ws["etag"].header[n]
<1> DEFINE e == ws["etag"]
           l == BelowETag
           S == StatusWritten(e)
           buffer == BufferWriteHeader(e, 200)
           h == CopyHeader(ws[l].header, buffer.header)
           copied == [ws EXCEPT ![l].header = CopyHeader(@, buffer.header)]
           tag == <<TagOf(buffer)>>
           g == [copied[l].header EXCEPT !["etag"] = tag]
           tagged == [copied EXCEPT ![l].header["etag"] = tag]
<1>1. /\ IsWriter(e) /\ l \in Layers /\ "etag" \in Layers /\ l # "etag"
      /\ ws[l].status = 0 /\ ws[l].body = <<>>
      /\ ws[l].header = FirstHeader(l)
  BY UntouchedParts DEF AllWriters, BelowETag, Layers
<1>2. /\ IsWriter(buffer) /\ buffer.header = e.header /\ buffer.body = e.body
      /\ buffer.status = S
  BY <1>1, BufferEnds
<1>3. TagOf(buffer) = TagOf(e)
  BY <1>2 DEF TagOf
<1>4. Flush(ws) =
        IF S \notin 200..299 THEN Replay(copied, l, S, e.body)
        ELSE IF IfNoneMatchMatches(TagOf(e)) THEN PutStatus(tagged, l, 304)
        ELSE Replay(tagged, l, S, e.body)
  BY <1>2, <1>3 DEF Flush, Replay
<1>5. S \in Nat \ {0} /\ e.body \in Seq(Pieces)
  BY <1>1 DEF StatusWritten, IsWriter
<1>6. S \in Codes \cup {Early, 200, 304, 500}
  BY <1>1 DEF Statuses, StatusWritten
<1>7. IsHeader(h) /\ \A n \in Names : h[n] = FirstHeader(l)[n] \o e.header[n]
  BY <1>1, <1>2 DEF IsHeader, CopyHeader
<1>8. Reheaded(copied, ws, l, h)
  BY DEF Reheaded
<1> HIDE DEF h, copied, buffer
<1>9. /\ AllWriters(copied) /\ Statuses(copied)
      /\ \A m \in Layers \ {l} : copied[m] = ws[m]
      /\ copied[l].header = h /\ copied[l].status = 0 /\ copied[l].body = <<>>
  BY <1>1, <1>7, <1>8, HeaderPutAll, HeaderPutTyped
<1> HIDE DEF tag
<1>10. IsHeader(g) /\ \A n \in Names \ {"etag"} : g[n] = h[n]
  BY <1>7, <1>9 DEF IsHeader
<1>11. Reheaded(tagged, copied, l, g)
  BY <1>1, <1>9 DEF Reheaded
<1> HIDE DEF g, tagged, l, S, e
<1>12. /\ AllWriters(tagged) /\ Statuses(tagged)
       /\ \A m \in Layers \ {l} : tagged[m] = ws[m]
       /\ tagged[l].header = g /\ tagged[l].status = 0 /\ tagged[l].body = <<>>
  <2>1. /\ AllWriters(tagged)
        /\ \A m \in Layers \ {l} : tagged[m] = copied[m]
        /\ tagged[l].header = g /\ tagged[l].status = copied[l].status
        /\ tagged[l].body = copied[l].body
    BY <1>1, <1>9, <1>10, <1>11, HeaderPutAll
  <2>2. Statuses(tagged)
    BY <1>1, <1>9, <1>10, <1>11, HeaderPutTyped
  <2> QED BY <1>9, <2>1, <2>2
<1> DEFINE new == Flush(ws)
           hit == S \in 200..299 /\ IfNoneMatchMatches(TagOf(e))
<1>13. /\ AllWriters(new) /\ Statuses(new)
       /\ \A m \in Layers \ {l} : new[m] = ws[m]
       /\ new[l].status = IF hit THEN 304 ELSE Taken(l, S)
       /\ new[l].body = IF hit THEN <<>> ELSE BodyTaken(l, S, e.body)
       /\ \A n \in Names \ {"etag"} : new[l].header[n] = h[n]
  <2>1. CASE S \notin 200..299
    <3> DEFINE r == Replay(copied, l, S, e.body)
    <3>1. /\ AllWriters(r) /\ Statuses(r)
          /\ \A m \in Layers \ {l} : r[m] = copied[m]
          /\ r[l].header = copied[l].header
          /\ r[l].status = Taken(l, S) /\ r[l].body = BodyTaken(l, S, e.body)
      <4>1. Blank(copied, l) /\ S \in Nat /\ S # 0
        BY <1>5, <1>9 DEF Blank
      <4>2. ReplayTyped(copied, l, S, e.body) => Statuses(r)
        BY <1>6, <1>9 DEF ReplayTyped
      <4> HIDE DEF r
      <4>3. /\ AllWriters(Replay(copied, l, S, e.body))
            /\ \A m \in Layers \ {l} :
                  Replay(copied, l, S, e.body)[m] = copied[m]
            /\ Replay(copied, l, S, e.body)[l].header = copied[l].header
            /\ Replay(copied, l, S, e.body)[l].status = Taken(l, S)
            /\ Replay(copied, l, S, e.body)[l].body = BodyTaken(l, S, e.body)
            /\ ReplayTyped(copied, l, S, e.body)
        BY <1>1, <1>5, <4>1, Replayed
      <4> QED BY <4>2, <4>3 DEF r
    <3>2. new = r
      BY <1>4, <2>1
    <3>3. ~hit
      BY <2>1
    <3> HIDE DEF r, new, hit
    <3>4. /\ AllWriters(new) /\ Statuses(new)
          /\ \A m \in Layers \ {l} : new[m] = ws[m]
      BY <1>9, <3>1, <3>2
    <3>5. new[l].status = Taken(l, S) /\ new[l].body = BodyTaken(l, S, e.body)
      BY <3>1, <3>2
    <3>6. \A n \in Names \ {"etag"} : new[l].header[n] = h[n]
      BY <1>9, <3>1, <3>2
    <3> QED BY <3>3, <3>4, <3>5, <3>6
  <2>2. CASE hit
    <3> DEFINE code == 304
               r == PutStatus(tagged, l, code)
    <3>0. code = 304 /\ code \in Nat /\ code \in Codes \cup {Early, 200, 304, 500}
      OBVIOUS
    <3> HIDE DEF code
    <3>1. /\ AllWriters(r)
          /\ \A m \in Layers \ {l} : r[m] = tagged[m]
          /\ r[l].header = tagged[l].header /\ r[l].body = tagged[l].body
          /\ r[l].status = StatusAfter(l, tagged[l], code)
      <4>1. l \in Layers /\ AllWriters(tagged) /\ code \in Nat
        BY <1>1, <1>12, <3>0
      <4> QED BY <4>1, StatusPutAll
    <3>2. Statuses(r)
      BY <1>1, <1>12, <3>0, StatusPutTyped
    <3>3. StatusAfter(l, tagged[l], code) = 304
      BY <1>12, <3>0 DEF StatusAfter
    <3>4. new = r
      BY <1>4, <2>2, <3>0
    <3> HIDE DEF r, new
    <3> QED BY <1>10, <1>12, <2>2, <3>1, <3>2, <3>3, <3>4
  <2>3. CASE S \in 200..299 /\ ~hit
    <3> DEFINE r == Replay(tagged, l, S, e.body)
    <3>1. /\ AllWriters(r) /\ Statuses(r)
          /\ \A m \in Layers \ {l} : r[m] = tagged[m]
          /\ r[l].header = tagged[l].header
          /\ r[l].status = Taken(l, S) /\ r[l].body = BodyTaken(l, S, e.body)
      <4>1. Blank(tagged, l) /\ S \in Nat /\ S # 0
        BY <1>5, <1>12 DEF Blank
      <4>2. ReplayTyped(tagged, l, S, e.body) => Statuses(r)
        BY <1>6, <1>12 DEF ReplayTyped
      <4> HIDE DEF r
      <4>3. /\ AllWriters(Replay(tagged, l, S, e.body))
            /\ \A m \in Layers \ {l} :
                  Replay(tagged, l, S, e.body)[m] = tagged[m]
            /\ Replay(tagged, l, S, e.body)[l].header = tagged[l].header
            /\ Replay(tagged, l, S, e.body)[l].status = Taken(l, S)
            /\ Replay(tagged, l, S, e.body)[l].body = BodyTaken(l, S, e.body)
            /\ ReplayTyped(tagged, l, S, e.body)
        BY <1>1, <1>5, <4>1, Replayed
      <4> QED BY <4>2, <4>3 DEF r
    <3>2. new = r
      BY <1>4, <2>3
    <3> HIDE DEF r, new
    <3> QED BY <1>10, <1>12, <2>3, <3>1, <3>2
  <2> QED BY <2>1, <2>2, <2>3
<1>14. hit <=> FlushHits(ws)
  BY DEF FlushHits, S, e
<1> HIDE DEF new, hit
<1>15. /\ AllWriters(new) /\ Statuses(new)
       /\ \A m \in Layers \ {l} : new[m] = ws[m]
       /\ new[l].status = IF FlushHits(ws) THEN 304 ELSE Taken(l, S)
       /\ new[l].body = IF FlushHits(ws) THEN <<>> ELSE BodyTaken(l, S, e.body)
       /\ \A n \in Names \ {"etag"} :
             new[l].header[n] = FirstHeader(l)[n] \o e.header[n]
  <2>1. \A n \in Names \ {"etag"} : new[l].header[n] = h[n]
    BY <1>13
  <2>2. \A n \in Names : h[n] = FirstHeader(l)[n] \o e.header[n]
    BY <1>7
  <2>3. \A n \in Names \ {"etag"} :
           new[l].header[n] = FirstHeader(l)[n] \o e.header[n]
    BY <2>1, <2>2
  <2>4. /\ new[l].status = IF FlushHits(ws) THEN 304 ELSE Taken(l, S)
        /\ new[l].body = IF FlushHits(ws) THEN <<>>
                         ELSE BodyTaken(l, S, e.body)
    BY <1>13, <1>14
  <2> QED BY <1>13, <2>3, <2>4
<1> QED BY <1>15 DEF new, l, S, e

\* Timeout's copy: the connection has had nothing at all.
LEMMA CopiedOut ==
    ASSUME NEW ws, AllWriters(ws), Statuses(ws),
           "timeout" \in config, ws["conn"] = Untouched("conn")
    PROVE  /\ Statuses(CopyBuffered(ws))
           /\ CopyBuffered(ws)["conn"].status =
                 Taken("conn", StatusWritten(ws["timeout"]))
           /\ CopyBuffered(ws)["conn"].body =
                 BodyTaken("conn", StatusWritten(ws["timeout"]),
                           ws["timeout"].body)
           /\ \A n \in Names : CopyBuffered(ws)["conn"].header[n] =
                                  ws["timeout"].header[n]
<1> DEFINE t == ws["timeout"]
           S == StatusWritten(t)
           buffer == BufferWriteHeader(t, 200)
           h == ReplaceHeader(ws["conn"].header, buffer.header)
           headed == [ws EXCEPT !["conn"].header =
                                   ReplaceHeader(@, buffer.header)]
<1>1. /\ IsWriter(t) /\ "timeout" \in Layers /\ "conn" \in Layers
      /\ ws["conn"].status = 0 /\ ws["conn"].body = <<>>
      /\ ws["conn"].header = NoHeader
  BY UntouchedParts DEF AllWriters, BelowETag, Layers, FirstHeader
<1>2. /\ IsWriter(buffer) /\ buffer.header = t.header /\ buffer.body = t.body
      /\ buffer.status = S
  BY <1>1, BufferEnds
<1>3. CopyBuffered(ws) = Replay(headed, "conn", S, t.body)
  BY <1>2 DEF CopyBuffered, Replay
<1>4. S \in Nat \ {0} /\ t.body \in Seq(Pieces)
  BY <1>1 DEF StatusWritten, IsWriter
<1>5. S \in Codes \cup {Early, 200, 304, 500}
  BY <1>1 DEF Statuses, StatusWritten
<1>6. IsHeader(h) /\ \A n \in Names : h[n] = t.header[n]
  BY <1>1, <1>2 DEF IsHeader, ReplaceHeader, NoHeader
<1>7. Reheaded(headed, ws, "conn", h)
  BY DEF Reheaded
<1> HIDE DEF h, headed, buffer
<1>8. /\ AllWriters(headed) /\ Statuses(headed)
      /\ headed["conn"].header = h
      /\ headed["conn"].status = 0 /\ headed["conn"].body = <<>>
  BY <1>1, <1>6, <1>7, HeaderPutAll, HeaderPutTyped
<1> HIDE DEF S, t
<1> DEFINE new == Replay(headed, "conn", S, t.body)
<1>9. /\ Statuses(new)
      /\ new["conn"].header = headed["conn"].header
      /\ new["conn"].status = Taken("conn", S)
      /\ new["conn"].body = BodyTaken("conn", S, t.body)
  <2>1. Blank(headed, "conn") /\ S \in Nat /\ S # 0
    BY <1>4, <1>8 DEF Blank
  <2>2. ReplayTyped(headed, "conn", S, t.body) => Statuses(new)
    BY <1>5, <1>8 DEF ReplayTyped
  <2> HIDE DEF new
  <2>3. /\ Replay(headed, "conn", S, t.body)["conn"].header
              = headed["conn"].header
        /\ Replay(headed, "conn", S, t.body)["conn"].status
              = Taken("conn", S)
        /\ Replay(headed, "conn", S, t.body)["conn"].body
              = BodyTaken("conn", S, t.body)
        /\ ReplayTyped(headed, "conn", S, t.body)
    BY <1>1, <1>4, <2>1, Replayed
  <2> QED BY <2>2, <2>3 DEF new
<1> HIDE DEF new
<1>10. /\ Statuses(new)
       /\ new["conn"].status = Taken("conn", S)
       /\ new["conn"].body = BodyTaken("conn", S, t.body)
       /\ \A n \in Names : new["conn"].header[n] = t.header[n]
  BY <1>6, <1>8, <1>9
<1> QED BY <1>3, <1>10 DEF new, S, t

\* What the client has after the handler returned.
Hit ==
    /\ ETagApplies
    /\ StatusWritten(writers[Base]) \in 200..299
    /\ IfNoneMatchMatches(TagOf(Closed[Base]))

LEMMA ReturnAnswers ==
    ASSUME Delivery, Return
    PROVE  /\ Statuses(writers')
           /\ (IF writers'["conn"].status = 0 THEN 200
               ELSE writers'["conn"].status) =
                 IF Hit THEN 304 ELSE Taken("conn", StatusWritten(writers[Base]))
           /\ writers'["conn"].body =
                 IF Hit THEN <<>>
                 ELSE BodyTaken("conn", StatusWritten(writers[Base]),
                                Closed[Base].body)
           /\ \A n \in Names \ {"etag"} :
                 writers'["conn"].header[n] =
                    IF ETagApplies
                    THEN FirstHeader(BelowETag)[n] \o writers[Base].header[n]
                    ELSE writers[Base].header[n]
<1> DEFINE S == StatusWritten(writers[Base])
           B == Closed[Base].body
           b == writers[Base].header
<1>1. /\ pc = "running"
      /\ writers' = LET flushed == IF ETagApplies THEN Flush(Closed) ELSE Closed
                    IN  IF "timeout" \in config THEN CopyBuffered(flushed)
                        ELSE flushed
  BY DEF Return, Closed
<1>2. /\ AllWriters(Closed) /\ Statuses(Closed)
      /\ \A l \in Layers \ {Base} : Closed[l] = Untouched(l)
      /\ Closed[Base].header = b /\ StatusWritten(Closed[Base]) = S
  BY <1>1, CloseWrites
<1>3. writers[Base].status \in Nat /\ S \in Nat \ {0}
  <2>1. IsWriter(writers[Base])
    BY <1>1, BaseIsBuffer DEF Delivery, BaseFollows, AllWriters
  <2> QED BY <2>1 DEF IsWriter, StatusWritten
<1>4. CASE ETagApplies
  <2> DEFINE f == Flush(Closed)
             l == BelowETag
  <2>1. Base = "etag" /\ l \in Layers \ {Base} /\ "conn" \in Layers
    BY <1>4 DEF Base, BelowETag, Layers
  <2>2. Closed[l] = Untouched(l)
    BY <1>2, <2>1
  <2>3. FlushHits(Closed) <=> Hit
    BY <1>2, <1>4, <2>1 DEF FlushHits, Hit
  <2>4. /\ AllWriters(f) /\ Statuses(f)
        /\ \A m \in Layers \ {l} : f[m] = Closed[m]
        /\ f[l].status = IF Hit THEN 304 ELSE Taken(l, S)
        /\ f[l].body = IF Hit THEN <<>> ELSE BodyTaken(l, S, B)
        /\ \A n \in Names \ {"etag"} :
              f[l].header[n] = FirstHeader(l)[n] \o b[n]
    <3>1. /\ AllWriters(Closed) /\ Statuses(Closed)
          /\ Closed[BelowETag] = Untouched(BelowETag)
      BY <1>2, <2>2
    <3>2. /\ AllWriters(f) /\ Statuses(f)
          /\ \A m \in Layers \ {l} : f[m] = Closed[m]
          /\ f[l].status = IF FlushHits(Closed) THEN 304
                           ELSE Taken(l, StatusWritten(Closed["etag"]))
          /\ f[l].body = IF FlushHits(Closed) THEN <<>>
                         ELSE BodyTaken(l, StatusWritten(Closed["etag"]),
                                        Closed["etag"].body)
          /\ \A n \in Names \ {"etag"} :
                f[l].header[n] = FirstHeader(l)[n] \o Closed["etag"].header[n]
      BY <3>1, Flushed
    <3>3. /\ StatusWritten(Closed["etag"]) = S /\ Closed["etag"].body = B
          /\ Closed["etag"].header = b
      BY <1>2, <2>1
    <3> HIDE DEF f, l, S, B, b
    <3> QED BY <2>3, <3>2, <3>3
  <2>5. CASE "timeout" \in config
    <3>1. l = "timeout"
      BY <2>5 DEF BelowETag
    <3> HIDE DEF f, S, B, b
    <3>2. f["conn"] = Untouched("conn")
      BY <1>2, <2>1, <2>4, <3>1
    <3>3. StatusWritten(f["timeout"]) = IF Hit THEN 304 ELSE S
      BY <1>3, <2>4, <3>1 DEF StatusWritten, Taken
    <3>4. f["timeout"].body = IF Hit THEN <<>> ELSE B
      BY <2>4, <3>1 DEF BodyTaken
    <3> DEFINE c == CopyBuffered(f)
    <3>5. /\ Statuses(c)
          /\ c["conn"].status = Taken("conn", StatusWritten(f["timeout"]))
          /\ c["conn"].body = BodyTaken("conn", StatusWritten(f["timeout"]),
                                        f["timeout"].body)
          /\ \A n \in Names : c["conn"].header[n] = f["timeout"].header[n]
      BY <2>4, <2>5, <3>2, CopiedOut
    <3>6. writers' = c
      BY <1>1, <1>4, <2>5 DEF f
    <3> HIDE DEF c
    <3>7. c["conn"].status = IF Hit THEN 304 ELSE Taken("conn", S)
      <4>1. Taken("conn", 304) = 304
        BY DEF Taken
      <4>2. c["conn"].status = Taken("conn", StatusWritten(f["timeout"]))
        BY <3>5
      <4>3. CASE Hit
        BY <3>3, <4>1, <4>2, <4>3
      <4>4. CASE ~Hit
        BY <3>3, <4>2, <4>4
      <4> QED BY <4>3, <4>4
    <3>8. c["conn"].body = IF Hit THEN <<>> ELSE BodyTaken("conn", S, B)
      BY <3>3, <3>4, <3>5 DEF BodyTaken
    <3>9. c["conn"].status # 0
      BY <1>3, <3>7 DEF Taken
    <3>10. \A n \in Names \ {"etag"} :
              c["conn"].header[n] = FirstHeader(l)[n] \o b[n]
      BY <2>4, <3>1, <3>5
    <3>11. /\ Statuses(writers')
           /\ (IF writers'["conn"].status = 0 THEN 200
               ELSE writers'["conn"].status) =
                 IF Hit THEN 304 ELSE Taken("conn", S)
           /\ writers'["conn"].body =
                 IF Hit THEN <<>> ELSE BodyTaken("conn", S, B)
      BY <3>5, <3>6, <3>7, <3>8, <3>9
    <3> QED BY <1>4, <3>6, <3>10, <3>11 DEF S, B, b
  <2>6. CASE "timeout" \notin config
    <3>1. l = "conn"
      BY <2>6 DEF BelowETag
    <3>2. writers' = f
      BY <1>1, <1>4, <2>6
    <3> HIDE DEF f, S, B, b
    <3>3. f["conn"].status # 0
      BY <1>3, <2>4, <3>1 DEF Taken
    <3>4. /\ Statuses(writers')
          /\ (IF writers'["conn"].status = 0 THEN 200
              ELSE writers'["conn"].status) =
                IF Hit THEN 304 ELSE Taken("conn", S)
          /\ writers'["conn"].body =
                IF Hit THEN <<>> ELSE BodyTaken("conn", S, B)
      BY <2>4, <3>1, <3>2, <3>3
    <3>5. \A n \in Names \ {"etag"} :
             writers'["conn"].header[n] = FirstHeader(l)[n] \o b[n]
      BY <2>4, <3>1, <3>2
    <3> QED BY <1>4, <3>4, <3>5 DEF S, B, b
  <2> QED BY <2>5, <2>6
<1>5. CASE ~ETagApplies /\ "timeout" \in config
  <2>1. Base = "timeout" /\ "conn" \in Layers \ {Base} /\ ~Hit
    BY <1>5 DEF Base, BelowETag, Layers, Hit
  <2>2. Closed["conn"] = Untouched("conn")
    BY <1>2, <2>1
  <2> DEFINE c == CopyBuffered(Closed)
  <2>3. /\ Statuses(c)
        /\ c["conn"].status = Taken("conn", S)
        /\ c["conn"].body = BodyTaken("conn", S, B)
        /\ \A n \in Names : c["conn"].header[n] = b[n]
    BY <1>2, <1>5, <2>1, <2>2, CopiedOut
  <2>4. writers' = c
    BY <1>1, <1>5
  <2> HIDE DEF c, S, B, b
  <2>5. c["conn"].status # 0
    BY <1>3, <2>3 DEF Taken
  <2>6. /\ Statuses(writers')
        /\ (IF writers'["conn"].status = 0 THEN 200
            ELSE writers'["conn"].status) =
              IF Hit THEN 304 ELSE Taken("conn", S)
        /\ writers'["conn"].body =
              IF Hit THEN <<>> ELSE BodyTaken("conn", S, B)
    BY <2>1, <2>3, <2>4, <2>5
  <2> QED BY <1>5, <2>3, <2>4, <2>6 DEF S, B, b
<1>6. CASE ~ETagApplies /\ "timeout" \notin config
  <2>1. Base = "conn" /\ ~Buffered /\ ~Hit
    BY <1>6 DEF Base, BelowETag, Buffered, Hit
  <2>2. writers' = Closed
    BY <1>1, <1>6
  <2>3. plain.status = 0 \/ plain.status >= 200
    BY DEF Delivery, Inv, StatusIsFinal
  <2>4. writers[Base].status = plain.status /\ writers[Base].body = BaseBody
    BY <1>1, <2>1 DEF Delivery, BaseFollows, BaseStatus, Swallowed
  <2>5. S = StatusWritten(Closed["conn"]) /\ Taken("conn", S) = S
    BY <1>2, <1>3, <2>1, <2>3, <2>4 DEF StatusWritten, Taken
  <2>6. S \in {204, 304} => B = <<>>
    <3>1. S \in {204, 304} => B = BaseBody
      BY <1>1, <2>1, <2>4, CloseWrites DEF BodyAfter
    <3>2. S \in {204, 304} => BaseBody = <<>>
      BY <2>1, <2>4 DEF StatusWritten, BaseBody
    <3> QED BY <3>1, <3>2
  <2>7. B = Closed["conn"].body /\ Closed["conn"].header = b
    BY <1>2, <2>1
  <2> HIDE DEF S, B, b
  <2>8. B = BodyTaken("conn", S, B)
    BY <2>5, <2>6 DEF BodyTaken
  <2>9. /\ Statuses(writers')
        /\ (IF writers'["conn"].status = 0 THEN 200
            ELSE writers'["conn"].status) =
              IF Hit THEN 304 ELSE Taken("conn", S)
        /\ writers'["conn"].body =
              IF Hit THEN <<>> ELSE BodyTaken("conn", S, B)
    BY <1>2, <2>1, <2>2, <2>5, <2>7, <2>8 DEF StatusWritten
  <2> QED BY <1>6, <2>2, <2>7, <2>9 DEF S, B, b
<1> QED BY <1>4, <1>5, <1>6


LEMMA Joined ==
    ASSUME NEW S, NEW a \in S, NEW c \in S
    PROVE  <<a>> \o <<c>> = <<a, c>> /\ <<>> \o <<a>> = <<a>>
<1> DEFINE x == <<a>>
           y == <<c>>
           xy == <<a, c>>
           joined == x \o y
<1>1. /\ x \in Seq(S) /\ Len(x) = 1 /\ x[1] = a
      /\ y \in Seq(S) /\ Len(y) = 1 /\ y[1] = c
  OBVIOUS
<1>2. xy \in Seq(S) /\ Len(xy) = 2 /\ xy[1] = a /\ xy[2] = c
  OBVIOUS
<1> HIDE DEF x, y, xy
<1>3. /\ joined \in Seq(S) /\ Len(joined) = 2
      /\ \A i \in 1..2 : joined[i] = IF i <= 1 THEN x[i] ELSE y[i - 1]
  <2>1. /\ joined \in Seq(S) /\ Len(joined) = Len(x) + Len(y)
        /\ \A i \in 1..(Len(x) + Len(y)) :
              joined[i] = IF i <= Len(x) THEN x[i] ELSE y[i - Len(x)]
    BY <1>1, ConcatProperties
  <2> HIDE DEF joined
  <2> QED BY <1>1, <2>1
<1> HIDE DEF joined
<1>4. \A i \in 1..2 : joined[i] = xy[i]
  <2>1. joined[1] = x[1] /\ joined[2] = y[1]
    BY <1>3
  <2> QED BY <1>1, <1>2, <2>1
<1>5. joined = xy
  BY <1>2, <1>3, <1>4, SeqEqual
<1>6. <<>> \o x = x
  BY <1>1, ConcatEmptySeq
<1> QED BY <1>5, <1>6 DEF joined, x, y, xy

LEMMA BodiesAreChunks ==
    ASSUME Delivery
    PROVE  /\ PlainBody = Chunks(FALSE, did.chunks)
           /\ ZippedBody = Chunks(TRUE, did.chunks) \o <<Trailer>>
           /\ ZippedBody # <<>>
<1>1. did.chunks \in Nat
  BY DEF Delivery, Inv, Shape
<1>2. PlainBody = Chunks(FALSE, did.chunks)
  BY DEF PlainBody, Chunks
<1> DEFINE z == [k \in 1..did.chunks |-> Zipped(k)]
<1>3. z = Chunks(TRUE, did.chunks)
  BY DEF Chunks
<1>4. z \in Seq(Pieces)
  BY <1>1, <1>3, ChunksGrow
<1>5. Trailer \in Pieces
  BY DEF Trailer, Pieces
<1> HIDE DEF z
<1>6. Append(z, Trailer) = z \o <<Trailer>> /\ Append(z, Trailer) # <<>>
  BY <1>4, <1>5, AppendIsConcat, AppendProperties
<1>7. ZippedBody = Append(z, Trailer)
  BY DEF ZippedBody, z
<1> QED BY <1>2, <1>3, <1>6, <1>7

\* What Base holds when the handler is done.
LEMMA BaseDone ==
    ASSUME Delivery, pc = "running"
    PROVE  /\ StatusWritten(writers[Base]) =
                 IF Swallowed THEN Early ELSE PlainStatus
           /\ PlainStatus \in Nat /\ PlainStatus >= 200
           /\ Closed[Base].body =
                 IF ~Buffered /\ PlainStatus \in {204, 304} THEN <<>>
                 ELSE IF gzip.on THEN ZippedBody ELSE PlainBody
           /\ plain.body =
                 IF PlainStatus \in {204, 304} THEN <<>> ELSE PlainBody
<1>1. /\ plain.status \in Nat /\ (plain.status = 0 \/ plain.status >= 200)
      /\ gzip.on \in BOOLEAN
  BY DEF Delivery, Inv, Shape, IsWriter, StatusIsFinal
<1>2. PlainStatus \in Nat /\ PlainStatus >= 200
  BY <1>1 DEF PlainStatus
<1>3. /\ writers[Base].status = BaseStatus /\ writers[Base].body = BaseBody
      /\ Base = "conn" <=> ~Buffered
  BY BaseIsBuffer DEF Delivery, BaseFollows
<1>4. StatusWritten(writers[Base]) = IF Swallowed THEN Early ELSE PlainStatus
  BY <1>3 DEF StatusWritten, BaseStatus, PlainStatus, Early
<1>5. plain.status \in {204, 304} <=> PlainStatus \in {204, 304}
  BY DEF PlainStatus
<1>6. /\ PlainBody = Chunks(FALSE, did.chunks)
      /\ ZippedBody = Chunks(TRUE, did.chunks) \o <<Trailer>>
  BY BodiesAreChunks
<1> DEFINE bare == ~Buffered /\ PlainStatus \in {204, 304}
<1>7. BaseBody = IF bare THEN <<>> ELSE Chunks(gzip.on, did.chunks)
  BY <1>5 DEF BaseBody
<1>8. Closed[Base].body =
        IF gzip.on THEN BodyAfter(Base, writers[Base], <<Trailer>>)
        ELSE BaseBody
  BY <1>3, CloseWrites
<1>9. ~Buffered => ~Swallowed
  BY DEF Swallowed
<1>10. BodyAfter(Base, writers[Base], <<Trailer>>) =
         IF bare THEN BaseBody ELSE BaseBody \o <<Trailer>>
  BY <1>3, <1>4, <1>9 DEF BodyAfter
<1> HIDE DEF bare
<1>11. Closed[Base].body =
         IF bare THEN <<>> ELSE IF gzip.on THEN ZippedBody ELSE PlainBody
  <2>1. CASE bare
    BY <1>7, <1>8, <1>10, <2>1
  <2>2. CASE ~bare /\ gzip.on
    <3>1. gzip.on = TRUE
      BY <1>1, <2>2
    <3>2. BaseBody = Chunks(TRUE, did.chunks)
      BY <1>7, <2>2, <3>1
    <3> QED BY <1>6, <1>8, <1>10, <2>2, <3>2
  <2>3. CASE ~bare /\ ~gzip.on
    <3>1. gzip.on = FALSE
      BY <1>1, <2>3
    <3>2. BaseBody = Chunks(FALSE, did.chunks)
      BY <1>7, <2>3, <3>1
    <3> QED BY <1>6, <1>8, <2>3, <3>2
  <2> QED BY <2>1, <2>2, <2>3
<1>12. plain.body = IF PlainStatus \in {204, 304} THEN <<>> ELSE PlainBody
  <2> DEFINE c == Chunks(FALSE, did.chunks)
  <2>1. plain.body = IF plain.status \in {204, 304} THEN <<>> ELSE c
    BY DEF Delivery, History
  <2>2. PlainBody = c
    BY <1>6
  <2> HIDE DEF c
  <2> QED BY <1>5, <2>1, <2>2
<1> QED BY <1>2, <1>4, <1>11, <1>12 DEF bare

\* "W/" in front of a tag does not count.
StrongOf(kind, body) == [kind |-> kind, body |-> body, weak |-> FALSE]
WeakOf(kind, body) == [kind |-> kind, body |-> body, weak |-> TRUE]

LEMMA Reweighed ==
    ASSUME NEW kind, NEW body
    PROVE  /\ Opaque(StrongOf(kind, body)) = StrongOf(kind, body)
           /\ Opaque(WeakOf(kind, body)) = StrongOf(kind, body)
           /\ Weak(StrongOf(kind, body)) = WeakOf(kind, body)
<1> DEFINE strong == StrongOf(kind, body)
           weak == WeakOf(kind, body)
<1>1. \A x : [strong EXCEPT !.weak = x] =
                [kind |-> kind, body |-> body, weak |-> x]
  BY DEF StrongOf
<1>2. \A x : [weak EXCEPT !.weak = x] =
                [kind |-> kind, body |-> body, weak |-> x]
  BY DEF WeakOf
<1> QED BY <1>1, <1>2 DEF Opaque, Weak, StrongOf, WeakOf

LEMMA SameTag ==
    ASSUME NEW k1, NEW b1, NEW k2, NEW b2
    PROVE  /\ StrongOf(k1, b1) = StrongOf(k2, b2) <=> k1 = k2 /\ b1 = b2
           /\ WeakOf(k1, b1) = WeakOf(k2, b2) <=> k1 = k2 /\ b1 = b2
           /\ WeakOf(k1, b1) # StrongOf(k2, b2)
<1>1. /\ StrongOf(k1, b1) = StrongOf(k2, b2) <=> k1 = k2 /\ b1 = b2
      /\ WeakOf(k1, b1) = WeakOf(k2, b2) <=> k1 = k2 /\ b1 = b2
  BY DEF StrongOf, WeakOf
<1>2. WeakOf(k1, b1) # StrongOf(k2, b2)
  <2>1. WeakOf(k1, b1).weak /\ ~StrongOf(k2, b2).weak
    BY DEF StrongOf, WeakOf
  <2> QED BY <2>1
<1> QED BY <1>1, <1>2

\* ETag answers 304 exactly for the representation the client names.
LEMMA HitIsNotModified ==
    ASSUME Delivery, pc = "running"
    PROVE  Hit <=> NotModified
<1> SUFFICES ASSUME ETagApplies PROVE Hit <=> NotModified
  BY DEF Hit, NotModified
<1>1. Buffered /\ (Swallowed <=> did.early)
  BY DEF Buffered, Swallowed
<1>2. StatusWritten(writers[Base]) = IF did.early THEN Early ELSE PlainStatus
  BY <1>1, BaseDone
<1>3. StatusWritten(writers[Base]) \in 200..299
        <=> ~did.early /\ PlainStatus \in 200..299
  BY <1>2 DEF Early
<1> DEFINE body == IF gzip.on THEN ZippedBody ELSE PlainBody
           own == asked["etag"]
           tag == IF own # <<>> THEN OwnTag ELSE HashTag(body)
<1>4. Closed[Base].body = body
  BY <1>1, BaseDone
<1>5. Closed[Base].header["etag"] = own
  BY <1>1, CloseWrites DEF Delivery, BaseFollows, BaseHeader, KeptHeader
<1>6. own \in {<<>>, <<OwnTag>>, <<Weak(OwnTag)>>}
  BY DEF Delivery, History, HeaderHistory
<1>7. TagOf(Closed[Base]) = IF own = <<>> THEN HashTag(body) ELSE own[1]
  BY <1>4, <1>5 DEF TagOf
<1>8. Opaque(TagOf(Closed[Base])) = tag
  <2>1. /\ Opaque(OwnTag) = OwnTag /\ Opaque(Weak(OwnTag)) = OwnTag
        /\ Opaque(HashTag(body)) = HashTag(body)
    <3>1. /\ OwnTag = StrongOf("own", <<>>)
          /\ HashTag(body) = StrongOf("hash", body)
      BY DEF OwnTag, HashTag, StrongOf
    <3> HIDE DEF body
    <3> QED BY <3>1, Reweighed
  <2>2. own = <<>> \/ own[1] = OwnTag \/ own[1] = Weak(OwnTag)
    BY <1>6
  <2> HIDE DEF own, body
  <2> QED BY <1>7, <2>1, <2>2
<1>9. request.match \subseteq Tags
  BY RequestsAssumption DEF Delivery, History
<1>10. \A c \in Tags : Opaque(c) = tag <=> c \in {tag, Weak(tag)}
  <2> TAKE c \in Tags
  <2> DEFINE kind == IF own # <<>> THEN "own" ELSE "hash"
             of == IF own # <<>> THEN <<>> ELSE body
  <2>1. tag = StrongOf(kind, of)
    BY DEF OwnTag, HashTag, StrongOf
  <2> HIDE DEF own, body, kind, of, tag
  <2>2. Weak(tag) = WeakOf(kind, of)
    BY <2>1, Reweighed
  <2>3. c = StrongOf(c.kind, c.body) \/ c = WeakOf(c.kind, c.body)
    BY DEF Tags, StrongOf, WeakOf
  <2>4. Opaque(c) = StrongOf(c.kind, c.body)
    BY <2>3, Reweighed
  <2>5. Opaque(c) = tag <=> c.kind = kind /\ c.body = of
    BY <2>1, <2>4, SameTag
  <2>6. c \in {tag, Weak(tag)} <=> c.kind = kind /\ c.body = of
    BY <2>1, <2>2, <2>3, SameTag
  <2> QED BY <2>5, <2>6
<1> HIDE DEF tag
<1>11. Hit <=> /\ ~did.early /\ PlainStatus \in 200..299
               /\ \/ request.match = {AnyTag}
                  \/ \E c \in request.match : Opaque(c) = tag
  BY <1>3, <1>8 DEF Hit, IfNoneMatchMatches
<1>12. NotModified <=> /\ ~did.early /\ PlainStatus \in 200..299
                       /\ \/ request.match = {AnyTag}
                          \/ \E c \in request.match : c \in {tag, Weak(tag)}
  BY DEF NotModified, tag
<1> QED BY <1>9, <1>10, <1>11, <1>12

LEMMA ReturnDelivers ==
    ASSUME Delivery, Return
    PROVE  Delivery'
<1> DEFINE st == Answer'.status
           final == IF st = 0 THEN 200 ELSE st
           code == IF Swallowed THEN 200 ELSE PlainStatus
           b == writers[Base].header
<1>1. /\ pc = "running" /\ pc' = "returned"
      /\ UNCHANGED <<config, request, gzip, plain, asked, did>>
  BY DEF Return
<1>2. Base' = Base /\ (Buffered' <=> Buffered) /\ (ETagApplies' <=> ETagApplies)
  BY <1>1, SameRequest
<1>3. /\ PlainStatus' = PlainStatus /\ (Swallowed' <=> Swallowed)
      /\ PlainBody' = PlainBody /\ ZippedBody' = ZippedBody
  BY <1>1, <1>2 DEF PlainStatus, Swallowed, PlainBody, ZippedBody
<1>4. (NotModified' <=> NotModified) /\ KeptHeader' = KeptHeader
        /\ KeptHeader["policy"] \in {<<>>, <<"handler">>}
        /\ KeptHeader["encoding"] \in {<<>>, <<"own">>}
  BY <1>1, <1>2, <1>3, KeptTyped
     DEF NotModified, KeptHeader, Delivery, History
<1>5. /\ PlainStatus \in Nat /\ PlainStatus >= 200
      /\ plain.body = IF PlainStatus \in {204, 304} THEN <<>> ELSE PlainBody
      /\ ZippedBody # <<>>
  BY <1>1, BaseDone, BodiesAreChunks
<1>6. Taken("conn", StatusWritten(writers[Base])) = code
  BY <1>1, <1>5, BaseDone DEF Taken, Early
<1>7. final = IF NotModified THEN 304 ELSE code
  BY <1>1, <1>6, ReturnAnswers, HitIsNotModified DEF Answer
<1>8. Answer'.body = IF NotModified THEN <<>>
                     ELSE IF code \in {204, 304} THEN <<>> ELSE Closed[Base].body
  BY <1>1, <1>6, ReturnAnswers, HitIsNotModified DEF Answer, BodyTaken
<1>9. \A n \in Names \ {"etag"} :
         Answer'.header[n] = IF ETagApplies THEN FirstHeader(BelowETag)[n] \o b[n]
                             ELSE b[n]
  BY ReturnAnswers DEF Answer
<1>10. BaseHeader(b)
  BY <1>1 DEF Delivery, BaseFollows
<1>11. HandlersAnswerWins'
  <2>1. final = CASE NotModified -> 304
                  [] Swallowed -> 200
                  [] OTHER -> PlainStatus
    <3>1. NotModified => ~Swallowed
      BY DEF NotModified, Swallowed
    <3>2. CASE NotModified
      BY <1>7, <3>1, <3>2
    <3>3. CASE ~NotModified /\ Swallowed
      BY <1>7, <3>3
    <3>4. CASE ~NotModified /\ ~Swallowed
      BY <1>7, <3>4
    <3> QED BY <3>2, <3>3, <3>4
  <2>2. Answer'.header["policy"] =
           IF KeptHeader["policy"] = <<>> THEN <<"outer">>
           ELSE IF ETagApplies THEN <<"outer", "handler">>
           ELSE <<"handler">>
    <3> DEFINE p == b["policy"]
               first == FirstHeader(BelowETag)["policy"]
    <3>1. first = <<"outer">>
            /\ (ETagApplies => FirstHeader(Base)["policy"] = <<>>)
            /\ (~ETagApplies => FirstHeader(Base)["policy"] = <<"outer">>)
      BY DEF FirstHeader, NoHeader, Names, Base, BelowETag
    <3>2. p = IF KeptHeader["policy"] = <<>> THEN FirstHeader(Base)["policy"]
              ELSE <<"handler">>
      BY <1>4, <1>10 DEF BaseHeader
    <3>3. /\ <<"outer">> \o <<"handler">> = <<"outer", "handler">>
          /\ <<"outer">> \o <<>> = <<"outer">>
      <4> DEFINE words == {"outer", "handler"}
      <4>1. "outer" \in words /\ "handler" \in words
        OBVIOUS
      <4>2. <<"outer">> \in Seq(words)
        BY <4>1
      <4> HIDE DEF words
      <4> QED BY <4>1, <4>2, Joined, ConcatEmptySeq
    <3>4. "policy" \in Names \ {"etag"}
      BY DEF Names
    <3>5. Answer'.header["policy"] = IF ETagApplies THEN first \o p ELSE p
      BY <1>9, <3>4
    <3> HIDE DEF p, first
    <3>6. CASE KeptHeader["policy"] = <<>>
      <4>1. CASE ETagApplies
        <5>1. p = <<>> /\ first = <<"outer">>
          BY <3>1, <3>2, <3>6, <4>1
        <5>2. first \o p = <<"outer">>
          BY <3>3, <5>1
        <5> QED BY <3>5, <3>6, <4>1, <5>2
      <4>2. CASE ~ETagApplies
        BY <3>1, <3>2, <3>5, <3>6, <4>2
      <4> QED BY <4>1, <4>2
    <3>7. CASE KeptHeader["policy"] # <<>> /\ ETagApplies
      BY <3>1, <3>2, <3>3, <3>5, <3>7
    <3>8. CASE KeptHeader["policy"] # <<>> /\ ~ETagApplies
      BY <3>2, <3>5, <3>8
    <3> QED BY <3>6, <3>7, <3>8
  <2>3. Sent' = final
    BY DEF Sent, Answer
  <2> HIDE DEF final
  <2> QED BY <1>2, <1>3, <1>4, <2>1, <2>2, <2>3 DEF HandlersAnswerWins
<1>12. DecodesToWritten'
  <2> SUFFICES ASSUME st # 304, ~Swallowed,
                      gzip.on => /\ KeptHeader["encoding"] = <<>>
                                 /\ KeptHeader["length"] =
                                       plain.header["length"]
                                 /\ ~did.early
               PROVE  Readable'
    BY <1>1, <1>3, <1>4 DEF DecodesToWritten
  <2>1. ~NotModified /\ code = PlainStatus
    BY <1>7
  <2>2. Answer'.body = IF PlainStatus \in {204, 304} THEN <<>>
                       ELSE IF gzip.on THEN ZippedBody ELSE PlainBody
    BY <1>1, <1>8, <2>1, BaseDone
  <2>3. /\ b["encoding"] = IF gzip.on THEN <<"gzip">>
                           ELSE KeptHeader["encoding"]
        /\ gzip.on => b["length"] = <<>>
        /\ b["encoding"] \in {<<>>, <<"own">>, <<"gzip">>}
    BY <1>10 DEF BaseHeader
  <2>4. /\ "encoding" \in Names \ {"etag"} /\ "length" \in Names \ {"etag"}
        /\ FirstHeader(BelowETag)["encoding"] = <<>>
        /\ FirstHeader(BelowETag)["length"] = <<>>
    BY DEF FirstHeader, NoHeader, Names
  <2>5. \A s \in {<<>>, <<"own">>, <<"gzip">>} : <<>> \o s = s
    <3>1. <<>> \o <<>> = <<>>
      <4>1. <<>> \in Seq(Pieces)
        OBVIOUS
      <4> QED BY <4>1, ConcatEmptySeq
    <3> DEFINE words == {"own", "gzip"}
    <3>2. "own" \in words /\ "gzip" \in words
      OBVIOUS
    <3> HIDE DEF words
    <3>3. <<>> \o <<"own">> = <<"own">> /\ <<>> \o <<"gzip">> = <<"gzip">>
      BY <3>2, Joined
    <3> QED BY <3>1, <3>3
  <2>6. Answer'.header["encoding"] = b["encoding"]
    <3> DEFINE first == FirstHeader(BelowETag)["encoding"]
    <3>1. Answer'.header["encoding"]
             = IF ETagApplies THEN first \o b["encoding"] ELSE b["encoding"]
      BY <1>9, <2>4
    <3>2. first = <<>>
      BY <2>4
    <3> HIDE DEF first
    <3>3. first \o b["encoding"] = b["encoding"]
      BY <2>3, <2>5, <3>2
    <3> QED BY <3>1, <3>3
  <2>7. gzip.on => Answer'.header["length"] = <<>>
    <3> DEFINE first == FirstHeader(BelowETag)["length"]
    <3>1. Answer'.header["length"]
             = IF ETagApplies THEN first \o b["length"] ELSE b["length"]
      BY <1>9, <2>4
    <3>2. first = <<>>
      BY <2>4
    <3> HIDE DEF first
    <3>3. gzip.on => first \o b["length"] = <<>>
      BY <2>3, <2>5, <3>2
    <3> QED BY <3>1, <3>3, <2>3
  <2>8. CASE gzip.on /\ Answer'.body # <<>>
    <3>1. /\ Answer'.header["encoding"] = <<"gzip">>
          /\ Answer'.header["length"] = <<>>
          /\ KeptHeader["encoding"] = <<>>
          /\ Answer'.body = ZippedBody
      BY <2>2, <2>3, <2>6, <2>7, <2>8
    <3> QED BY <1>1, <1>3, <1>4, <2>8, <3>1 DEF Readable
  <2>9. CASE ~(gzip.on /\ Answer'.body # <<>>)
    <3>1. /\ Answer'.body = plain.body
          /\ \/ Answer'.header["encoding"] = KeptHeader["encoding"]
             \/ Answer'.body = <<>>
      BY <1>5, <2>2, <2>3, <2>6, <2>9
    <3> QED BY <1>1, <1>3, <1>4, <2>9, <3>1 DEF Readable
  <2> QED BY <2>8, <2>9
<1>13. Statuses(writers)'
  <2>1. Statuses(writers')
    BY ReturnAnswers
  <2> QED BY <2>1 DEF Statuses
<1>14. Inv'
  BY ReturnKeeps DEF Delivery
<1>15. History'
  BY <1>1, SameHistory DEF Delivery
<1>16. LogIsAnswer'
  <2> SUFFICES ASSUME ~did.late PROVE LogIsAnswer'
    BY <1>1 DEF LogIsAnswer
  <2>1. logged' = [logged EXCEPT !.done = TRUE]
    BY DEF Return
  <2>2. logged'.status = logged.status
    BY <2>1 DEF Delivery, Inv, Shape
  <2>3. \/ logged.status = PlainStatus
        \/ did.early /\ logged.status = Early /\ PlainStatus = 200
    BY DEF Delivery, Inv, LogFollows
  <2>4. Sent' = final
    BY DEF Sent, Answer
  <2>5. Swallowed => did.early /\ Buffered
    BY DEF Swallowed
  <2>6. (did' = did) /\ (Buffered' <=> Buffered)
    BY <1>1, <1>2
  <2> HIDE DEF final
  <2> QED BY <1>4, <1>7, <2>2, <2>3, <2>4, <2>5, <2>6 DEF LogIsAnswer
<1> QED BY <1>1, <1>11, <1>12, <1>13, <1>14, <1>15, <1>16
        DEF Delivery, BaseFollows


LEMMA DeliveryStep == Delivery /\ [Next]_vars => Delivery'
<1> SUFFICES ASSUME Delivery, [Next]_vars PROVE Delivery'
  OBVIOUS
<1>1. ASSUME NEW p \in HeaderValues, SetHeader(p[1], p[2]) PROVE Delivery'
  <2>1. /\ p[1] \in Names /\ p[1] # "etag"
        /\ p[1] = "type" => p[2] # "problem"
        /\ p[1] = "policy" => p[2] = "handler"
        /\ p[1] = "encoding" => p[2] = "own"
    BY DEF HeaderValues, Names
  <2> QED BY <1>1, <2>1, SetHeaderDelivers
<1>2. ASSUME NEW tag \in {OwnTag, Weak(OwnTag)}, SetHeader("etag", tag)
      PROVE  Delivery'
  BY <1>2, SetHeaderDelivers DEF Names
<1>3. ASSUME NEW code \in Codes \cup {Early}, WriteHeader(code) PROVE Delivery'
  BY <1>3, WriteHeaderDelivers
<1>4. CASE Write
  BY <1>4, WriteDelivers
<1>5. CASE Return
  BY <1>5, ReturnDelivers
<1>6. CASE Panic
  BY <1>6, PanicDelivers
<1>7. CASE UNCHANGED vars
  <2>1. Inv'
    BY <1>7, StepKeeps DEF Delivery
  <2>2. History'
    BY <1>7, SameHistory DEF vars, Delivery
  <2>3. BaseFollows'
    <3>1. UNCHANGED <<config, request, writers, gzip, logged, pc, plain, asked, did>>
      BY <1>7 DEF vars
    <3>2. /\ Base' = Base /\ Swallowed' = Swallowed /\ Buffered' = Buffered
          /\ BaseStatus' = BaseStatus /\ BaseBody' = BaseBody
      BY <3>1 DEF BaseStatus, BaseBody, Swallowed, Buffered, ETagApplies, Base,
                  BelowETag
    <3>3. /\ \A l : FirstHeader(l)' = FirstHeader(l)
          /\ \A l : Untouched(l)' = Untouched(l)
      BY <3>1 DEF FirstHeader, Untouched, BelowETag
    <3>4. \A h : BaseHeader(h)' = BaseHeader(h)
      BY <3>1, <3>2, <3>3 DEF BaseHeader, KeptHeader
    <3>5. BaseFollows
      BY DEF Delivery
    <3>6. AllWriters(writers)' = AllWriters(writers)
      BY <3>1 DEF AllWriters, IsWriter
    <3> QED BY <3>1, <3>2, <3>3, <3>4, <3>5, <3>6 DEF BaseFollows
  <2>4. HandlersAnswerWins' /\ LogIsAnswer'
    BY <1>7 DEF vars, Delivery, HandlersAnswerWins, Answer, NotModified, Sent,
                Swallowed, Buffered, ETagApplies, PlainStatus, PlainBody,
                ZippedBody, KeptHeader, LogIsAnswer
  <2>5. DecodesToWritten'
    <3>1. UNCHANGED <<config, request, writers, gzip, pc, plain, asked, did>>
      BY <1>7 DEF vars
    <3>2. Readable' = Readable /\ Answer' = Answer /\ Swallowed' = Swallowed
          /\ KeptHeader' = KeptHeader
      BY <3>1 DEF Readable, Answer, Swallowed, Buffered, ETagApplies,
                  ZippedBody, KeptHeader
    <3>3. DecodesToWritten
      BY DEF Delivery
    <3> QED BY <3>1, <3>2, <3>3 DEF DecodesToWritten
  <2>6. (pc # "running" => Statuses(writers))'
    BY <1>7 DEF vars, Delivery, Statuses
  <2> QED BY <1>7, <2>1, <2>2, <2>3, <2>4, <2>5, <2>6 DEF vars, Delivery
<1> QED BY <1>1, <1>2, <1>3, <1>4, <1>5, <1>6, <1>7 DEF Next

\* The invariant above holds in every state.
LEMMA DeliveryHolds == Spec => []Delivery
BY InitDelivers, DeliveryStep, PTL DEF Spec

\* Every writer's status is one that was written, and the connection's is
\* final: whatever the codes and however many the writes.
THEOREM WritersTyped == Spec => []TypeOK
<1>1. Delivery => TypeOK
  <2> SUFFICES ASSUME Delivery PROVE TypeOK
    OBVIOUS
  <2>1. Statuses(writers)
    BY RunningStatuses DEF Delivery
  <2> QED BY <2>1 DEF Delivery, History, TypeOK, Statuses, Answer
<1> QED BY <1>1, DeliveryHolds, PTL

\* The first status the handler gave reaches the client, but for ETag's 304
\* and for a hint through a buffer, and its header, set before the status or
\* after it, takes the place of an outer middleware's exactly where the code
\* delivers it: with any of the middlewares installed, for any request.
THEOREM HandlersAnswerReaches == Spec => []HandlersAnswerWins
<1>1. Delivery => HandlersAnswerWins
  BY DEF Delivery
<1> QED BY <1>1, DeliveryHolds, PTL

\* The client decodes what the handler wrote, chunk by chunk, however many
\* chunks there were, unless Compress encoded an encoded body again, a late
\* length or encoding in a buffer contradicts the gzip body, or a hint made
\* a writer decide too early.
THEOREM AnswerIsReadable == Spec => []DecodesToWritten
<1>1. Delivery => DecodesToWritten
  BY DEF Delivery
<1> QED BY <1>1, DeliveryHolds, PTL

\* The status Logging records is the one that was sent, through Compress,
\* ETag and Timeout, but for ETag's 304, for a WriteHeader that came too
\* late, and for a hint.
THEOREM LogIsTrue == Spec => []LogIsAnswer
<1>1. Delivery => LogIsAnswer
  BY DEF Delivery
<1> QED BY <1>1, DeliveryHolds, PTL
=============================================================================
