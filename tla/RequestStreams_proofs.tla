------------------------ MODULE RequestStreams_proofs ------------------------
(***************************************************************************)
(* What a client reads, for any tools, policies, upstreams and bounds.     *)
(* The streams are proved about one after the other: that of a chat        *)
(* completion, a relayed message, and a response; then together.           *)
(***************************************************************************)
EXTENDS RequestStreams, TLAPS, FiniteSetTheorems, SequenceTheorems, WellFoundedInduction

-----------------------------------------------------------------------------
(* The stream of a chat completion: OpenAIChatStream *)

-----------------------------------------------------------------------------
\* The operators on sets that the modules of the streams use are those of this module.
LEMMA ChatSets == /\ \A S : Chat!IsFiniteSet(S) <=> IsFiniteSet(S)
                  /\ \A S : Chat!Cardinality(S) = Cardinality(S)
BY DEF Chat!IsFiniteSet, IsFiniteSet, Chat!Cardinality, Cardinality

LEMMA RelaySets == \A S : Relay!Cardinality(S) = Cardinality(S)
BY DEF Relay!IsFiniteSet, IsFiniteSet, Relay!Cardinality, Cardinality

LEMMA ResponsesSets == \A S : Responses!Cardinality(S) = Cardinality(S)
BY DEF Responses!IsFiniteSet, IsFiniteSet, Responses!Cardinality, Cardinality

BlockTypes == {"start", "delta", "stop"}
ChatEvents == [type : BlockTypes \union {"message_start", "message_delta", "message_stop"},
               block : Nat, kind : {"thinking", "text", "tool_use", "message"}, gen : Nat]

ChatBlocks == [kind : {"thinking", "text", "tool_use"}, open : BOOLEAN]
ToolStates == [named : BOOLEAN, block : Nat, pre : Nat, buffer : Nat, sent : Nat, raw : BOOLEAN]
Ledgers == [blocks : Seq(ChatBlocks), text : Nat, textOn : BOOLEAN, thinking : Nat,
            thinkingOn : BOOLEAN, tools : [ChatTools -> ToolStates], started : BOOLEAN]
Emissions == [l : Ledgers, ev : Seq(ChatEvents)]

Is(e, type, b) == e.type = type /\ e.block = b

\* The events of a block: one start, before everything else; no stop while it is open,
\* and one, behind everything else, when it is not.
Shaped(S, b, open) ==
    \E p \in DOMAIN S :
       /\ \A i \in DOMAIN S : Is(S[i], "start", b) <=> i = p
       /\ \A i \in DOMAIN S : Is(S[i], "delta", b) \/ Is(S[i], "stop", b) => p < i
       /\ open => \A i \in DOMAIN S : ~Is(S[i], "stop", b)
       /\ ~open => \E q \in DOMAIN S :
                      /\ \A i \in DOMAIN S : Is(S[i], "stop", b) <=> i = q
                      /\ \A i \in DOMAIN S : Is(S[i], "delta", b) => i < q

\* What was said of the message agrees with the ledger.
Agree(l, S, g) ==
    /\ S \in Seq(ChatEvents) /\ S # <<>> /\ S[1].type = "message_start"
    /\ \A i \in DOMAIN S : S[i].gen = g /\ S[i].type # "message_stop"
    /\ \A i \in DOMAIN S : IF S[i].type \in BlockTypes THEN S[i].block \in DOMAIN l.blocks
                           ELSE S[i].block = 0
    /\ \A b \in DOMAIN l.blocks : Shaped(S, b, l.blocks[b].open)

\* The open blocks of a ledger are the current text and thinking, those of the tools, and
\* those in X.
Current(l, X) ==
    /\ l \in Ledgers
    /\ l.textOn => /\ l.text \in DOMAIN l.blocks
                   /\ l.blocks[l.text].kind = "text" /\ l.blocks[l.text].open
    /\ l.thinkingOn => /\ l.thinking \in DOMAIN l.blocks
                       /\ l.blocks[l.thinking].kind = "thinking" /\ l.blocks[l.thinking].open
    /\ \A t \in Chat!StartedTools(l) : LET b == l.tools[t].block
                                       IN  /\ b \in DOMAIN l.blocks /\ b \notin X
                                           /\ l.blocks[b].kind = "tool_use" /\ l.blocks[b].open
    /\ \A t, u \in Chat!StartedTools(l) : l.tools[t].block = l.tools[u].block => t = u
    /\ \A b \in DOMAIN l.blocks : l.blocks[b].open =>
          \/ l.textOn /\ b = l.text
          \/ l.thinkingOn /\ b = l.thinking
          \/ \E t \in Chat!StartedTools(l) : l.tools[t].block = b
          \/ b \in X

AllClosed(l) == \A b \in DOMAIN l.blocks : ~l.blocks[b].open

-----------------------------------------------------------------------------
\* The two halves of a concatenation.
LEMMA Halves ==
    ASSUME NEW R, NEW S \in Seq(R), NEW D \in Seq(R)
    PROVE  /\ S \o D \in Seq(R) /\ Len(S) \in Nat /\ Len(D) \in Nat
           /\ DOMAIN S = 1 .. Len(S) /\ DOMAIN D = 1 .. Len(D)
           /\ DOMAIN (S \o D) = 1 .. Len(S) + Len(D)
           /\ \A i \in 1 .. Len(S) : i \in DOMAIN (S \o D) /\ (S \o D)[i] = S[i]
           /\ \A j \in 1 .. Len(D) :
                 Len(S) + j \in DOMAIN (S \o D) /\ (S \o D)[Len(S) + j] = D[j]
           /\ \A i \in DOMAIN (S \o D) :
                 i \in DOMAIN S \/ \E j \in DOMAIN D : i = Len(S) + j
<1>1. /\ S \o D \in Seq(R) /\ Len(S) \in Nat /\ Len(D) \in Nat
      /\ DOMAIN S = 1 .. Len(S) /\ DOMAIN D = 1 .. Len(D)
      /\ Len(S \o D) = Len(S) + Len(D)
      /\ \A i \in 1 .. Len(S) + Len(D) :
            (S \o D)[i] = IF i <= Len(S) THEN S[i] ELSE D[i - Len(S)]
  BY ConcatProperties, LenProperties
<1>2. DOMAIN (S \o D) = 1 .. Len(S) + Len(D)
  BY <1>1, LenProperties
<1> DEFINE m == Len(S)
           n == Len(D)
<1>3. m \in Nat /\ n \in Nat
  BY <1>1
<1>4. \A i \in 1 .. Len(S) : i \in DOMAIN (S \o D) /\ (S \o D)[i] = S[i]
  <2>1. \A i \in 1 .. m : i \in 1 .. m + n /\ i <= m
    BY <1>3
  <2> QED BY <1>1, <1>2, <2>1
<1>5. \A j \in 1 .. Len(D) : Len(S) + j \in DOMAIN (S \o D) /\ (S \o D)[Len(S) + j] = D[j]
  <2>1. \A j \in 1 .. n : m + j \in 1 .. m + n /\ ~(m + j <= m) /\ m + j - m = j
    BY <1>3
  <2> QED BY <1>1, <1>2, <2>1
<1>6. \A i \in DOMAIN (S \o D) : i \in DOMAIN S \/ \E j \in DOMAIN D : i = Len(S) + j
  <2>1. \A i \in 1 .. m + n : i \in 1 .. m \/ (i - m \in 1 .. n /\ i = m + (i - m))
    BY <1>3
  <2> QED BY <1>1, <1>2, <2>1
<1> QED BY <1>1, <1>2, <1>4, <1>5, <1>6

\* Events of other blocks.
LEMMA ShapeStays ==
    ASSUME NEW S \in Seq(ChatEvents), NEW D \in Seq(ChatEvents), NEW b, NEW open \in BOOLEAN,
           Shaped(S, b, open),
           \A j \in DOMAIN D : D[j].block # b \/ (open /\ D[j].type = "delta")
    PROVE  Shaped(S \o D, b, open)
<1> DEFINE T == S \o D
           m == Len(S)
<1>1. /\ m \in Nat /\ DOMAIN S = 1 .. m
      /\ \A i \in DOMAIN S : i \in DOMAIN T /\ T[i] = S[i]
      /\ \A i \in DOMAIN T : i \in DOMAIN S \/ \E j \in DOMAIN D : i = m + j
      /\ \A j \in DOMAIN D : j \in Nat /\ j > 0 /\ m + j \in DOMAIN T /\ T[m + j] = D[j]
  BY Halves
<1> HIDE DEF T, m
<1>2. PICK p \in DOMAIN S :
       /\ \A i \in DOMAIN S : Is(S[i], "start", b) <=> i = p
       /\ \A i \in DOMAIN S : Is(S[i], "delta", b) \/ Is(S[i], "stop", b) => p < i
       /\ open => \A i \in DOMAIN S : ~Is(S[i], "stop", b)
       /\ ~open => \E q \in DOMAIN S :
                      /\ \A i \in DOMAIN S : Is(S[i], "stop", b) <=> i = q
                      /\ \A i \in DOMAIN S : Is(S[i], "delta", b) => i < q
  BY DEF Shaped
<1>3. \A i \in DOMAIN T : i \in DOMAIN S
                          \/ (i > m /\ i > p /\ i # p /\ (T[i].block # b \/ (open /\ T[i].type = "delta")))
  BY <1>1
<1>4. p \in DOMAIN T
  BY <1>1
<1>5. \A i \in DOMAIN T : Is(T[i], "start", b) <=> i = p
  BY <1>1, <1>2, <1>3 DEF Is
<1>6. \A i \in DOMAIN T : Is(T[i], "delta", b) \/ Is(T[i], "stop", b) => p < i
  BY <1>1, <1>2, <1>3 DEF Is
<1>7. open => \A i \in DOMAIN T : ~Is(T[i], "stop", b)
  BY <1>1, <1>2, <1>3 DEF Is
<1>8. ASSUME ~open
      PROVE  \E q \in DOMAIN T : /\ \A i \in DOMAIN T : Is(T[i], "stop", b) <=> i = q
                                 /\ \A i \in DOMAIN T : Is(T[i], "delta", b) => i < q
  <2>1. PICK q \in DOMAIN S : /\ \A i \in DOMAIN S : Is(S[i], "stop", b) <=> i = q
                              /\ \A i \in DOMAIN S : Is(S[i], "delta", b) => i < q
    BY <1>2, <1>8
  <2>2. q \in DOMAIN T /\ \A i \in DOMAIN T : i \in DOMAIN S \/ (i # q /\ T[i].block # b)
    BY <1>1, <1>3, <1>8
  <2> QED BY <1>1, <2>1, <2>2 DEF Is
<1> QED BY <1>4, <1>5, <1>6, <1>7, <1>8 DEF Shaped, T

\* The stop of a block that is open.
LEMMA ShapeStops ==
    ASSUME NEW S \in Seq(ChatEvents), NEW D \in Seq(ChatEvents), NEW b, Shaped(S, b, TRUE),
           NEW k \in DOMAIN D, Is(D[k], "stop", b),
           \A j \in DOMAIN D : j # k => D[j].block # b
    PROVE  Shaped(S \o D, b, FALSE)
<1> DEFINE T == S \o D
           m == Len(S)
           q == m + k
<1>1. /\ m \in Nat /\ DOMAIN S = 1 .. m
      /\ \A i \in DOMAIN S : i \in DOMAIN T /\ T[i] = S[i]
      /\ \A i \in DOMAIN T : i \in DOMAIN S \/ \E j \in DOMAIN D : i = m + j
      /\ \A j \in DOMAIN D : j \in Nat /\ j > 0 /\ m + j \in DOMAIN T /\ T[m + j] = D[j]
  BY Halves
<1> HIDE DEF T, m
<1>2. PICK p \in DOMAIN S :
       /\ \A i \in DOMAIN S : Is(S[i], "start", b) <=> i = p
       /\ \A i \in DOMAIN S : Is(S[i], "delta", b) \/ Is(S[i], "stop", b) => p < i
       /\ \A i \in DOMAIN S : ~Is(S[i], "stop", b)
  BY DEF Shaped
<1>3. \A i \in DOMAIN T : i \in DOMAIN S
                          \/ (i > p /\ i # p /\ (T[i].block # b \/ (i = q /\ Is(T[i], "stop", b))))
  BY <1>1
<1>4. q \in DOMAIN T /\ Is(T[q], "stop", b) /\ p \in DOMAIN T /\ \A i \in DOMAIN S : i < q
  BY <1>1
<1> HIDE DEF q
<1>5. \A i \in DOMAIN T : Is(T[i], "start", b) <=> i = p
  BY <1>1, <1>2, <1>3 DEF Is
<1>6. \A i \in DOMAIN T : Is(T[i], "delta", b) \/ Is(T[i], "stop", b) => p < i
  BY <1>1, <1>2, <1>3 DEF Is
<1>7. /\ \A i \in DOMAIN T : Is(T[i], "stop", b) <=> i = q
      /\ \A i \in DOMAIN T : Is(T[i], "delta", b) => i < q
  BY <1>1, <1>2, <1>3, <1>4 DEF Is
<1> QED BY <1>4, <1>5, <1>6, <1>7 DEF Shaped, T

\* The first event of a block.
LEMMA ShapeStarts ==
    ASSUME NEW S \in Seq(ChatEvents), NEW D \in Seq(ChatEvents), NEW b,
           \A i \in DOMAIN S : S[i].block # b,
           NEW k \in DOMAIN D, Is(D[k], "start", b),
           \A j \in DOMAIN D : j # k => D[j].block # b
    PROVE  Shaped(S \o D, b, TRUE)
<1> DEFINE T == S \o D
           p == Len(S) + k
<1>1. /\ \A i \in DOMAIN S : i \in DOMAIN T /\ T[i] = S[i]
      /\ \A i \in DOMAIN T : i \in DOMAIN S \/ \E j \in DOMAIN D : i = Len(S) + j
      /\ \A j \in DOMAIN D : j \in Nat /\ Len(S) + j \in DOMAIN T /\ T[Len(S) + j] = D[j]
  BY Halves
<1>2. p \in DOMAIN T /\ Is(T[p], "start", b)
  BY <1>1
<1> HIDE DEF T
<1>3. \A i \in DOMAIN T : i = p \/ T[i].block # b
  BY <1>1
<1> HIDE DEF p
<1> QED BY <1>2, <1>3 DEF Shaped, Is, T

-----------------------------------------------------------------------------
\* Any events go on behind others of the same message.
LEMMA AgreesBehind ==
    ASSUME NEW l, NEW g, NEW S, Agree(l, S, g), NEW n, NEW D \in Seq(ChatEvents),
           DOMAIN l.blocks \subseteq DOMAIN n.blocks,
           \A j \in DOMAIN D : D[j].gen = g /\ D[j].type # "message_stop",
           \A j \in DOMAIN D : IF D[j].type \in BlockTypes THEN D[j].block \in DOMAIN n.blocks
                               ELSE D[j].block = 0,
           \A b \in DOMAIN n.blocks : Shaped(S \o D, b, n.blocks[b].open)
    PROVE  Agree(n, S \o D, g)
<1> DEFINE T == S \o D
           m == Len(S)
<1>1. /\ S \in Seq(ChatEvents) /\ S # <<>> /\ S[1].type = "message_start"
      /\ \A i \in DOMAIN S : S[i].gen = g /\ S[i].type # "message_stop"
      /\ \A i \in DOMAIN S : IF S[i].type \in BlockTypes THEN S[i].block \in DOMAIN l.blocks
                             ELSE S[i].block = 0
  BY DEF Agree
<1>2. /\ T \in Seq(ChatEvents) /\ m \in Nat /\ DOMAIN S = 1 .. m
      /\ \A i \in DOMAIN S : i \in DOMAIN T /\ T[i] = S[i]
      /\ \A i \in DOMAIN T : i \in DOMAIN S \/ \E j \in DOMAIN D : i = m + j
      /\ \A j \in DOMAIN D : m + j \in DOMAIN T /\ T[m + j] = D[j]
  BY <1>1, Halves
<1>3. 1 \in DOMAIN S
  <2>1. m # 0
    BY <1>1, EmptySeq
  <2> QED BY <1>2, <2>1
<1> HIDE DEF T, m
<1>4. T # <<>> /\ T[1].type = "message_start"
  <2>1. DOMAIN T # {}
    BY <1>2, <1>3
  <2>2. DOMAIN <<>> = {}
    OBVIOUS
  <2> QED BY <1>1, <1>2, <1>3, <2>1, <2>2
<1>5. \A i \in DOMAIN T : T[i].gen = g /\ T[i].type # "message_stop"
  BY <1>1, <1>2
<1>6. \A i \in DOMAIN T : IF T[i].type \in BlockTypes THEN T[i].block \in DOMAIN n.blocks
                          ELSE T[i].block = 0
  <2>1. \A i \in DOMAIN S : IF T[i].type \in BlockTypes THEN T[i].block \in DOMAIN n.blocks
                            ELSE T[i].block = 0
    BY <1>1, <1>2
  <2>2. \A j \in DOMAIN D : IF T[m + j].type \in BlockTypes THEN T[m + j].block \in DOMAIN n.blocks
                            ELSE T[m + j].block = 0
    BY <1>2
  <2> QED BY <1>2, <2>1, <2>2
<1>7. \A b \in DOMAIN n.blocks : Shaped(T, b, n.blocks[b].open)
  BY DEF T
<1> QED BY <1>2, <1>4, <1>5, <1>6, <1>7 DEF Agree, T

\* The blocks of a ledger.
LEMMA BlocksAre ==
    ASSUME NEW l \in Ledgers
    PROVE  /\ l.blocks \in Seq(ChatBlocks) /\ Len(l.blocks) \in Nat
           /\ DOMAIN l.blocks = 1 .. Len(l.blocks)
           /\ 0 \notin DOMAIN l.blocks /\ DOMAIN l.blocks \subseteq Nat
           /\ \A b \in DOMAIN l.blocks : /\ l.blocks[b] \in ChatBlocks
                                         /\ l.blocks[b].open \in BOOLEAN
                                         /\ l.blocks[b].kind \in {"thinking", "text", "tool_use"}
<1>1. l.blocks \in Seq(ChatBlocks)
  BY DEF Ledgers
<1>2. Len(l.blocks) \in Nat /\ DOMAIN l.blocks = 1 .. Len(l.blocks)
  BY <1>1, LenProperties
<1>3. \A b \in DOMAIN l.blocks : l.blocks[b] \in ChatBlocks
  BY <1>1, <1>2, ElementOfSeq
<1>4. \A x \in ChatBlocks : x.open \in BOOLEAN /\ x.kind \in {"thinking", "text", "tool_use"}
  BY DEF ChatBlocks
<1> QED BY <1>1, <1>2, <1>3, <1>4

\* Deltas of open blocks, and message_delta.
LEMMA AgreesWithDeltas ==
    ASSUME NEW l \in Ledgers, NEW g, NEW S, Agree(l, S, g), NEW D \in Seq(ChatEvents),
           \A j \in DOMAIN D : /\ D[j].gen = g
                               /\ \/ D[j].type = "message_delta" /\ D[j].block = 0
                                  \/ /\ D[j].type = "delta" /\ D[j].block \in DOMAIN l.blocks
                                     /\ l.blocks[D[j].block].open
    PROVE  Agree(l, S \o D, g)
<1>1. S \in Seq(ChatEvents) /\ \A b \in DOMAIN l.blocks : Shaped(S, b, l.blocks[b].open)
  BY DEF Agree
<1>2. ASSUME NEW b \in DOMAIN l.blocks PROVE Shaped(S \o D, b, l.blocks[b].open)
  <2>1. b # 0 /\ l.blocks[b].open \in BOOLEAN
    BY BlocksAre
  <2>2. \A j \in DOMAIN D : D[j].block # b \/ (l.blocks[b].open /\ D[j].type = "delta")
    BY <2>1
  <2> QED BY <1>1, <2>1, <2>2, ShapeStays
<1>3. \A j \in DOMAIN D : IF D[j].type \in BlockTypes THEN D[j].block \in DOMAIN l.blocks
                          ELSE D[j].block = 0
  BY DEF BlockTypes
<1>4. \A j \in DOMAIN D : D[j].gen = g /\ D[j].type # "message_stop"
  OBVIOUS
<1> QED BY <1>2, <1>3, <1>4, AgreesBehind

\* The stops of some open blocks.
LEMMA AgreesWithStops ==
    ASSUME NEW l \in Ledgers, NEW g, NEW S, Agree(l, S, g), NEW n, DOMAIN n.blocks = DOMAIN l.blocks,
           NEW D \in Seq(ChatEvents),
           \A j \in DOMAIN D : /\ D[j].gen = g /\ D[j].type = "stop" /\ D[j].block \in DOMAIN l.blocks
                               /\ l.blocks[D[j].block].open,
           \A j, k \in DOMAIN D : D[j].block = D[k].block => j = k,
           \A b \in DOMAIN n.blocks :
              n.blocks[b].open = (l.blocks[b].open /\ ~\E j \in DOMAIN D : D[j].block = b)
    PROVE  Agree(n, S \o D, g)
<1>1. S \in Seq(ChatEvents) /\ \A b \in DOMAIN l.blocks : Shaped(S, b, l.blocks[b].open)
  BY DEF Agree
<1>2. ASSUME NEW b \in DOMAIN n.blocks PROVE Shaped(S \o D, b, n.blocks[b].open)
  <2>1. l.blocks[b].open \in BOOLEAN /\ Shaped(S, b, l.blocks[b].open)
    BY <1>1, BlocksAre
  <2>2. CASE \E j \in DOMAIN D : D[j].block = b
    <3>1. PICK k \in DOMAIN D : D[k].block = b
      BY <2>2
    <3>2. l.blocks[b].open = TRUE /\ n.blocks[b].open = FALSE /\ Is(D[k], "stop", b)
      BY <2>1, <3>1 DEF Is
    <3>3. Shaped(S, b, TRUE)
      BY <2>1, <3>2
    <3>4. Shaped(S \o D, b, FALSE)
      BY <1>1, <3>1, <3>2, <3>3, ShapeStops
    <3> QED BY <3>2, <3>4
  <2>3. CASE ~\E j \in DOMAIN D : D[j].block = b
    <3>1. n.blocks[b].open = l.blocks[b].open
      BY <2>1, <2>3
    <3>2. Shaped(S \o D, b, l.blocks[b].open)
      BY <1>1, <2>1, <2>3, ShapeStays
    <3> QED BY <3>1, <3>2
  <2> QED BY <2>2, <2>3
<1>3. \A j \in DOMAIN D : IF D[j].type \in BlockTypes THEN D[j].block \in DOMAIN n.blocks
                          ELSE D[j].block = 0
  BY DEF BlockTypes
<1>4. \A j \in DOMAIN D : D[j].gen = g /\ D[j].type # "message_stop"
  OBVIOUS
<1> QED BY <1>2, <1>3, <1>4, AgreesBehind

\* The start of the next block.
LEMMA AgreesWithStart ==
    ASSUME NEW l \in Ledgers, NEW g, NEW S, Agree(l, S, g), NEW n \in Ledgers, NEW b,
           b = Len(l.blocks) + 1, NEW c \in ChatBlocks, c.open = TRUE,
           n.blocks = Append(l.blocks, c),
           NEW e \in ChatEvents, Is(e, "start", b), e.gen = g
    PROVE  Agree(n, S \o <<e>>, g)
<1> DEFINE D == <<e>>
<1>1. /\ S \in Seq(ChatEvents) /\ \A x \in DOMAIN l.blocks : Shaped(S, x, l.blocks[x].open)
      /\ \A i \in DOMAIN S : IF S[i].type \in BlockTypes THEN S[i].block \in DOMAIN l.blocks
                             ELSE S[i].block = 0
  BY DEF Agree
<1>2. D \in Seq(ChatEvents) /\ DOMAIN D = {1} /\ D[1] = e
  OBVIOUS
<1> HIDE DEF D
<1>3. /\ l.blocks \in Seq(ChatBlocks) /\ Len(l.blocks) \in Nat
      /\ DOMAIN l.blocks = 1 .. Len(l.blocks)
      /\ \A x \in DOMAIN l.blocks : l.blocks[x].open \in BOOLEAN
  BY BlocksAre
<1>4. /\ DOMAIN n.blocks = 1 .. b /\ n.blocks[b] = c
      /\ \A x \in DOMAIN l.blocks : n.blocks[x] = l.blocks[x]
      /\ \A x \in DOMAIN n.blocks : x \in DOMAIN l.blocks \/ x = b
      /\ b \in DOMAIN n.blocks /\ b \notin DOMAIN l.blocks /\ b # 0
      /\ DOMAIN l.blocks \subseteq DOMAIN n.blocks
  <2>1. DOMAIN n.blocks = 1 .. b
    BY <1>3, AppendProperties, LenProperties
  <2> QED BY <1>3, <2>1, AppendProperties
<1>5. Shaped(S \o D, b, TRUE)
  <2>1. \A i \in DOMAIN S : S[i].block # b
    BY <1>1, <1>4
  <2>2. 1 \in DOMAIN D /\ Is(D[1], "start", b) /\ \A j \in DOMAIN D : j # 1 => D[j].block # b
    BY <1>2
  <2> QED BY <1>1, <1>2, <2>1, <2>2, ShapeStarts
<1>6. \A x \in DOMAIN l.blocks : Shaped(S \o D, x, l.blocks[x].open)
  <2>1. \A j \in DOMAIN D : D[j].block = b
    BY <1>2 DEF Is
  <2> QED BY <1>1, <1>2, <1>3, <1>4, <2>1, ShapeStays
<1>7. \A x \in DOMAIN n.blocks : Shaped(S \o D, x, n.blocks[x].open)
  BY <1>4, <1>5, <1>6
<1>8. \A j \in DOMAIN D : IF D[j].type \in BlockTypes THEN D[j].block \in DOMAIN n.blocks
                          ELSE D[j].block = 0
  BY <1>2, <1>4 DEF BlockTypes, Is
<1>9. \A j \in DOMAIN D : D[j].gen = g /\ D[j].type # "message_stop"
  BY <1>2 DEF Is
<1> QED BY <1>2, <1>4, <1>7, <1>8, <1>9, AgreesBehind DEF D

-----------------------------------------------------------------------------
\* An emission behind the events B.
Emits(e, B, X) ==
    /\ e \in Emissions /\ B \in Seq(ChatEvents) /\ gen \in Nat
    /\ Agree(e.l, B \o e.ev, gen) /\ Current(e.l, X)

LEMMA EmissionFields ==
    ASSUME NEW e \in Emissions
    PROVE  e.l \in Ledgers /\ e.ev \in Seq(ChatEvents) /\ e.l.tools \in [ChatTools -> ToolStates]
           /\ e.l.textOn \in BOOLEAN /\ e.l.thinkingOn \in BOOLEAN /\ e.l.started \in BOOLEAN
           /\ e.l.text \in Nat /\ e.l.thinking \in Nat
BY DEF Emissions, Ledgers

LEMMA ChatEvent ==
    ASSUME gen \in Nat, NEW type \in BlockTypes \union {"message_start", "message_delta", "message_stop"},
           NEW b \in Nat, NEW kind \in {"thinking", "text", "tool_use", "message"}
    PROVE  /\ Chat!Event(type, b, kind) \in ChatEvents /\ Chat!Event(type, b, kind).gen = gen
           /\ Is(Chat!Event(type, b, kind), type, b)
BY DEF Chat!Event, ChatEvents, Is

LEMMA EmissionIs ==
    ASSUME NEW l, NEW B, NEW X, gen \in Nat, Agree(l, B, gen), Current(l, X)
    PROVE  Emits(Chat!Emission(l), B, X) /\ Chat!Emission(l).l = l /\ Chat!Emission(l).ev = <<>>
<1>1. B \in Seq(ChatEvents) /\ l \in Ledgers
  BY DEF Agree, Current
<1>2. Chat!Emission(l) \in Emissions /\ Chat!Emission(l).l = l /\ Chat!Emission(l).ev = <<>>
  BY <1>1, EmptySeq DEF Chat!Emission, Emissions
<1>3. B \o <<>> = B
  BY <1>1, ConcatEmptySeq
<1> QED BY <1>1, <1>2, <1>3 DEF Emits

\* More events at the end.
LEMMA EventsBehind ==
    ASSUME NEW e \in Emissions, NEW B \in Seq(ChatEvents), NEW D \in Seq(ChatEvents)
    PROVE  B \o (e.ev \o D) = (B \o e.ev) \o D /\ e.ev \o D \in Seq(ChatEvents)
<1> DEFINE v == e.ev
<1>1. v \in Seq(ChatEvents)
  BY EmissionFields
<1> HIDE DEF v
<1>2. v \o D \in Seq(ChatEvents) /\ B \o (v \o D) = (B \o v) \o D
  BY <1>1, ConcatAssociative, ConcatProperties
<1> QED BY <1>2 DEF v

LEMMA DeltaIs ==
    ASSUME NEW e, NEW B, NEW X, Emits(e, B, X), NEW b \in DOMAIN e.l.blocks, e.l.blocks[b].open
    PROVE  Emits(Chat!Delta(e, b), B, X) /\ Chat!Delta(e, b).l = e.l
<1> DEFINE x == Chat!Event("delta", b, e.l.blocks[b].kind)
           D == <<x>>
<1>1. /\ e \in Emissions /\ B \in Seq(ChatEvents) /\ gen \in Nat /\ e.l \in Ledgers
      /\ e.ev \in Seq(ChatEvents) /\ Agree(e.l, B \o e.ev, gen) /\ Current(e.l, X)
  BY EmissionFields DEF Emits
<1>2. x \in ChatEvents /\ x.gen = gen /\ Is(x, "delta", b)
  <2>1. b \in Nat /\ e.l.blocks[b].kind \in {"thinking", "text", "tool_use", "message"}
    BY <1>1, BlocksAre
  <2> QED BY <1>1, <2>1, ChatEvent DEF BlockTypes
<1>3. Chat!Delta(e, b) = [e EXCEPT !.ev = Append(e.ev, x)]
  BY DEF Chat!Delta
<1> HIDE DEF x
<1>4. D \in Seq(ChatEvents) /\ DOMAIN D = {1} /\ D[1] = x
  BY <1>2
<1>5. Append(e.ev, x) = e.ev \o D
  BY <1>1, <1>2, AppendIsConcat
<1> HIDE DEF D
<1>6. Agree(e.l, (B \o e.ev) \o D, gen)
  BY <1>1, <1>2, <1>4, AgreesWithDeltas DEF Is
<1>7. Chat!Delta(e, b).l = e.l /\ Chat!Delta(e, b).ev = e.ev \o D /\ Chat!Delta(e, b) \in Emissions
  <2>1. e.ev \o D \in Seq(ChatEvents)
    BY <1>1, <1>4, EventsBehind
  <2> QED BY <1>1, <1>3, <1>5, <2>1 DEF Emissions
<1>8. B \o (e.ev \o D) = (B \o e.ev) \o D
  BY <1>1, <1>4, EventsBehind
<1> QED BY <1>1, <1>6, <1>7, <1>8 DEF Emits

LEMMA StartIs ==
    ASSUME NEW e, NEW B, NEW X, Emits(e, B, X), NEW kind \in {"thinking", "text", "tool_use"},
           kind = "text" => ~e.l.textOn, kind = "thinking" => ~e.l.thinkingOn
    PROVE  LET a == Chat!StartBlock(e, kind)
               b == Len(a.l.blocks)
           IN  /\ Emits(a, B, IF kind = "tool_use" THEN X \union {b} ELSE X)
               /\ b \in DOMAIN a.l.blocks /\ a.l.blocks[b].open /\ a.l.blocks[b].kind = kind
               /\ a.l.tools = e.l.tools /\ b \in Nat \ {0}
               /\ \A t \in Chat!StartedTools(e.l) : e.l.tools[t].block # b
               /\ a.l.textOn = (e.l.textOn \/ kind = "text")
               /\ a.l.thinkingOn = (e.l.thinkingOn \/ kind = "thinking")
               /\ (kind = "text" => a.l.text = b) /\ (kind = "thinking" => a.l.thinking = b)
<1> DEFINE b == Len(e.l.blocks) + 1
           c == [kind |-> kind, open |-> TRUE]
           x == Chat!Event("start", b, kind)
           n == Chat!StartBlock(e, kind).l
           Y == IF kind = "tool_use" THEN X \union {b} ELSE X
<1>1. /\ e \in Emissions /\ B \in Seq(ChatEvents) /\ gen \in Nat /\ e.l \in Ledgers
      /\ e.ev \in Seq(ChatEvents) /\ Agree(e.l, B \o e.ev, gen) /\ Current(e.l, X)
      /\ e.l.textOn \in BOOLEAN /\ e.l.thinkingOn \in BOOLEAN
  BY EmissionFields DEF Emits
<1>2. /\ e.l.blocks \in Seq(ChatBlocks) /\ Len(e.l.blocks) \in Nat /\ b \in Nat /\ b # 0
      /\ DOMAIN e.l.blocks = 1 .. Len(e.l.blocks)
  BY <1>1, BlocksAre
<1>3. c \in ChatBlocks /\ c.open = TRUE /\ c.kind = kind
  BY DEF ChatBlocks
<1>4. x \in ChatEvents /\ x.gen = gen /\ Is(x, "start", b)
  BY <1>1, <1>2, ChatEvent DEF BlockTypes
<1>5. /\ n = [e.l EXCEPT !.blocks = Append(e.l.blocks, c),
                         !.text = IF kind = "text" THEN b ELSE @,
                         !.textOn = @ \/ kind = "text",
                         !.thinking = IF kind = "thinking" THEN b ELSE @,
                         !.thinkingOn = @ \/ kind = "thinking"]
      /\ Chat!StartBlock(e, kind).ev = Append(e.ev, x)
      /\ Chat!StartBlock(e, kind) = [l |-> n, ev |-> Append(e.ev, x)]
  BY DEF Chat!StartBlock
<1>6. Append(e.l.blocks, c) \in Seq(ChatBlocks) /\ Len(Append(e.l.blocks, c)) = b
      /\ \A i \in 1 .. Len(e.l.blocks) : Append(e.l.blocks, c)[i] = e.l.blocks[i]
      /\ Append(e.l.blocks, c)[b] = c
  BY <1>2, <1>3, AppendProperties
<1> HIDE DEF c, x
<1>7. /\ n \in Ledgers /\ n.blocks = Append(e.l.blocks, c)
      /\ n.text = (IF kind = "text" THEN b ELSE e.l.text)
      /\ n.textOn = (e.l.textOn \/ kind = "text")
      /\ n.thinking = (IF kind = "thinking" THEN b ELSE e.l.thinking)
      /\ n.thinkingOn = (e.l.thinkingOn \/ kind = "thinking")
      /\ n.tools = e.l.tools
  BY <1>1, <1>2, <1>5, <1>6 DEF Ledgers
<1> HIDE DEF n
<1>8. /\ DOMAIN n.blocks = 1 .. b /\ n.blocks[b] = c
      /\ \A i \in DOMAIN e.l.blocks : n.blocks[i] = e.l.blocks[i] /\ i # b /\ i \in DOMAIN n.blocks
      /\ \A i \in DOMAIN n.blocks : i \in DOMAIN e.l.blocks \/ i = b
      /\ b \in DOMAIN n.blocks
  <2>1. DOMAIN n.blocks = 1 .. b
    BY <1>6, <1>7, LenProperties
  <2> QED BY <1>2, <1>6, <1>7, <2>1
<1>9. Agree(n, (B \o e.ev) \o <<x>>, gen)
  BY <1>1, <1>3, <1>4, <1>7, AgreesWithStart
<1>10. /\ Append(e.ev, x) = e.ev \o <<x>> /\ <<x>> \in Seq(ChatEvents)
  BY <1>1, <1>4, AppendIsConcat
<1>11. Chat!StartBlock(e, kind) \in Emissions /\ Agree(n, B \o Chat!StartBlock(e, kind).ev, gen)
  <2>1. e.ev \o <<x>> \in Seq(ChatEvents) /\ B \o (e.ev \o <<x>>) = (B \o e.ev) \o <<x>>
    BY <1>1, <1>10, EventsBehind
  <2>2. Chat!StartBlock(e, kind).ev = e.ev \o <<x>>
    BY <1>5, <1>10
  <2>3. Chat!StartBlock(e, kind) \in Emissions
    BY <1>5, <1>7, <1>10, <2>1 DEF Emissions
  <2> QED BY <1>9, <2>1, <2>2, <2>3
<1>12. Chat!StartedTools(n) = Chat!StartedTools(e.l)
  BY <1>7 DEF Chat!StartedTools
<1>13. Current(n, Y)
  <2>1. /\ e.l.textOn => /\ e.l.text \in DOMAIN e.l.blocks
                         /\ e.l.blocks[e.l.text].kind = "text" /\ e.l.blocks[e.l.text].open
        /\ e.l.thinkingOn => /\ e.l.thinking \in DOMAIN e.l.blocks
                             /\ e.l.blocks[e.l.thinking].kind = "thinking"
                             /\ e.l.blocks[e.l.thinking].open
    BY <1>1 DEF Current
  <2>2. \A t \in Chat!StartedTools(e.l) :
           /\ e.l.tools[t].block \in DOMAIN e.l.blocks /\ e.l.tools[t].block \notin X
           /\ e.l.blocks[e.l.tools[t].block].kind = "tool_use"
           /\ e.l.blocks[e.l.tools[t].block].open
    BY <1>1 DEF Current
  <2>3. \A t, u \in Chat!StartedTools(e.l) : e.l.tools[t].block = e.l.tools[u].block => t = u
    BY <1>1 DEF Current
  <2>4. \A i \in DOMAIN e.l.blocks : e.l.blocks[i].open =>
          \/ e.l.textOn /\ i = e.l.text
          \/ e.l.thinkingOn /\ i = e.l.thinking
          \/ \E t \in Chat!StartedTools(e.l) : e.l.tools[t].block = i
          \/ i \in X
    BY <1>1 DEF Current
  <2>5. n.textOn => n.text \in DOMAIN n.blocks /\ n.blocks[n.text].kind = "text" /\ n.blocks[n.text].open
    BY <1>3, <1>7, <1>8, <2>1
  <2>6. n.thinkingOn => /\ n.thinking \in DOMAIN n.blocks
                        /\ n.blocks[n.thinking].kind = "thinking" /\ n.blocks[n.thinking].open
    BY <1>3, <1>7, <1>8, <2>1
  <2>7. \A t \in Chat!StartedTools(n) :
           /\ n.tools[t].block \in DOMAIN n.blocks /\ n.tools[t].block \notin Y
           /\ n.blocks[n.tools[t].block].kind = "tool_use"
           /\ n.blocks[n.tools[t].block].open
    BY <1>7, <1>8, <1>12, <2>2
  <2>8. \A i \in DOMAIN n.blocks : n.blocks[i].open =>
          \/ n.textOn /\ i = n.text
          \/ n.thinkingOn /\ i = n.thinking
          \/ \E t \in Chat!StartedTools(n) : n.tools[t].block = i
          \/ i \in Y
    <3>1. ASSUME NEW i \in DOMAIN e.l.blocks, n.blocks[i].open
          PROVE  \/ n.textOn /\ i = n.text
                 \/ n.thinkingOn /\ i = n.thinking
                 \/ \E t \in Chat!StartedTools(n) : n.tools[t].block = i
                 \/ i \in Y
      BY <1>7, <1>8, <1>12, <2>4, <3>1
    <3>2. \/ n.textOn /\ b = n.text
          \/ n.thinkingOn /\ b = n.thinking
          \/ b \in Y
      BY <1>7
    <3> QED BY <1>8, <3>1, <3>2
  <2> QED BY <1>7, <1>12, <2>3, <2>5, <2>6, <2>7, <2>8 DEF Current
<1>14. \A t \in Chat!StartedTools(e.l) : e.l.tools[t].block # b
  BY <1>1, <1>8 DEF Current
<1>15. Chat!StartBlock(e, kind).l = n /\ Len(n.blocks) = b
  BY <1>6, <1>7 DEF n
<1>16. Emits(Chat!StartBlock(e, kind), B, Y)
  BY <1>1, <1>11, <1>13, <1>15 DEF Emits
<1>17. n.blocks[b].open /\ n.blocks[b].kind = kind
  BY <1>3, <1>8
<1> HIDE DEF b
<1> QED BY <1>2, <1>7, <1>8, <1>14, <1>15, <1>16, <1>17

\* Blocks are stopped, one after the other.
LEMMA StopsAre ==
    ASSUME NEW e, NEW B, NEW X, Emits(e, B, X), NEW order \in Seq(Nat),
           \A i \in DOMAIN order : order[i] \in DOMAIN e.l.blocks /\ e.l.blocks[order[i]].open,
           \A i, j \in DOMAIN order : order[i] = order[j] => i = j
    PROVE  LET a == Chat!StopBlocks(e, order)
               stopped == {order[i] : i \in DOMAIN order}
           IN  /\ a \in Emissions /\ Agree(a.l, B \o a.ev, gen)
               /\ DOMAIN a.l.blocks = DOMAIN e.l.blocks /\ a.l.tools = e.l.tools
               /\ \A b \in DOMAIN e.l.blocks :
                     /\ a.l.blocks[b].kind = e.l.blocks[b].kind
                     /\ a.l.blocks[b].open = (e.l.blocks[b].open /\ b \notin stopped)
               /\ a.l.text = e.l.text /\ a.l.thinking = e.l.thinking
               /\ a.l.textOn = (e.l.textOn /\ e.l.text \notin stopped)
               /\ a.l.thinkingOn = (e.l.thinkingOn /\ e.l.thinking \notin stopped)
<1> DEFINE stopped == {order[i] : i \in DOMAIN order}
           F == [b \in DOMAIN e.l.blocks |-> [kind |-> e.l.blocks[b].kind,
                                              open |-> e.l.blocks[b].open /\ b \notin stopped]]
           D == [i \in DOMAIN order |-> Chat!Event("stop", order[i], e.l.blocks[order[i]].kind)]
           n == Chat!StopBlocks(e, order).l
<1>1. /\ e \in Emissions /\ B \in Seq(ChatEvents) /\ gen \in Nat /\ e.l \in Ledgers
      /\ e.ev \in Seq(ChatEvents) /\ Agree(e.l, B \o e.ev, gen) /\ Current(e.l, X)
      /\ e.l.textOn \in BOOLEAN /\ e.l.thinkingOn \in BOOLEAN
  BY EmissionFields DEF Emits
<1>2. /\ Len(e.l.blocks) \in Nat /\ DOMAIN e.l.blocks = 1 .. Len(e.l.blocks)
      /\ \A b \in DOMAIN e.l.blocks : e.l.blocks[b].kind \in {"thinking", "text", "tool_use"}
  BY <1>1, BlocksAre
<1>3. Len(order) \in Nat /\ DOMAIN order = 1 .. Len(order) /\ \A i \in DOMAIN order : order[i] \in Nat
  BY LenProperties, ElementOfSeq
<1> HIDE DEF stopped
<1>4. F \in Seq(ChatBlocks) /\ DOMAIN F = DOMAIN e.l.blocks
  <2>1. \A b \in 1 .. Len(e.l.blocks) :
           [kind |-> e.l.blocks[b].kind, open |-> e.l.blocks[b].open /\ b \notin stopped] \in ChatBlocks
    <3>1. \A b \in 1 .. Len(e.l.blocks) : (e.l.blocks[b].open /\ b \notin stopped) \in BOOLEAN
      OBVIOUS
    <3> QED BY <1>2, <3>1 DEF ChatBlocks
  <2> QED BY <1>2, <2>1, IsASeq
<1>5. \A i \in DOMAIN order : /\ D[i] \in ChatEvents /\ D[i].gen = gen /\ D[i].type = "stop"
                              /\ D[i].block = order[i]
  <2>1. SUFFICES ASSUME NEW i \in DOMAIN order
                 PROVE  /\ D[i] \in ChatEvents /\ D[i].gen = gen /\ D[i].type = "stop"
                        /\ D[i].block = order[i]
    OBVIOUS
  <2>2. D[i] = Chat!Event("stop", order[i], e.l.blocks[order[i]].kind)
    OBVIOUS
  <2> HIDE DEF D
  <2>3. order[i] \in Nat /\ e.l.blocks[order[i]].kind \in {"thinking", "text", "tool_use", "message"}
    BY <1>2, <1>3
  <2> DEFINE o == order[i]
             k == e.l.blocks[order[i]].kind
  <2>4. D[i] = Chat!Event("stop", o, k) /\ o \in Nat /\ k \in {"thinking", "text", "tool_use", "message"}
    BY <2>2, <2>3
  <2> HIDE DEF o, k
  <2>5. /\ Chat!Event("stop", o, k) \in ChatEvents /\ Chat!Event("stop", o, k).gen = gen
        /\ Is(Chat!Event("stop", o, k), "stop", o)
    BY <1>1, <2>4, ChatEvent DEF BlockTypes
  <2> QED BY <2>4, <2>5 DEF Is, o
<1>6. D \in Seq(ChatEvents) /\ DOMAIN D = DOMAIN order
  <2>1. DOMAIN D = 1 .. Len(order)
    BY <1>3
  <2> HIDE DEF D
  <2>2. D = [i \in 1 .. Len(order) |-> D[i]]
    BY <1>3 DEF D
  <2> QED BY <1>3, <1>5, <2>1, <2>2, IsASeq
<1>7. /\ n = [e.l EXCEPT !.blocks = F,
                         !.textOn = @ /\ e.l.text \notin stopped,
                         !.thinkingOn = @ /\ e.l.thinking \notin stopped]
      /\ Chat!StopBlocks(e, order) = [l |-> n, ev |-> e.ev \o D]
  BY DEF Chat!StopBlocks, stopped
<1>8. \A b \in DOMAIN e.l.blocks : /\ F[b].kind = e.l.blocks[b].kind
                                   /\ F[b].open = (e.l.blocks[b].open /\ b \notin stopped)
  OBVIOUS
<1> HIDE DEF F, D, n
<1>9. /\ n \in Ledgers /\ n.blocks = F /\ n.tools = e.l.tools
      /\ n.text = e.l.text /\ n.thinking = e.l.thinking
      /\ n.textOn = (e.l.textOn /\ e.l.text \notin stopped)
      /\ n.thinkingOn = (e.l.thinkingOn /\ e.l.thinking \notin stopped)
  BY <1>1, <1>4, <1>7 DEF Ledgers
<1>10. \A b : b \in stopped <=> \E j \in DOMAIN D : D[j].block = b
  BY <1>5, <1>6 DEF stopped
<1>11. Agree(n, (B \o e.ev) \o D, gen)
  <2>1. \A b \in DOMAIN n.blocks :
           n.blocks[b].open = (e.l.blocks[b].open /\ ~\E j \in DOMAIN D : D[j].block = b)
    BY <1>4, <1>8, <1>9, <1>10
  <2>2. \A j, k \in DOMAIN D : D[j].block = D[k].block => j = k
    BY <1>5, <1>6
  <2>3. \A j \in DOMAIN D : /\ D[j].gen = gen /\ D[j].type = "stop"
                            /\ D[j].block \in DOMAIN e.l.blocks /\ e.l.blocks[D[j].block].open
    BY <1>5, <1>6
  <2>4. DOMAIN n.blocks = DOMAIN e.l.blocks
    BY <1>4, <1>9
  <2> DEFINE S == B \o e.ev
             l == e.l
  <2>5. /\ Agree(l, S, gen) /\ l \in Ledgers /\ DOMAIN n.blocks = DOMAIN l.blocks
        /\ D \in Seq(ChatEvents)
        /\ \A j \in DOMAIN D : /\ D[j].gen = gen /\ D[j].type = "stop"
                               /\ D[j].block \in DOMAIN l.blocks /\ l.blocks[D[j].block].open
        /\ \A b \in DOMAIN n.blocks :
              n.blocks[b].open = (l.blocks[b].open /\ ~\E j \in DOMAIN D : D[j].block = b)
    BY <1>1, <1>6, <2>1, <2>3, <2>4
  <2> HIDE DEF S, l
  <2>6. Agree(n, S \o D, gen)
    BY <2>2, <2>5, AgreesWithStops
  <2> QED BY <2>6 DEF S
<1>12. Chat!StopBlocks(e, order) \in Emissions /\ Agree(n, B \o Chat!StopBlocks(e, order).ev, gen)
  <2>1. e.ev \o D \in Seq(ChatEvents) /\ B \o (e.ev \o D) = (B \o e.ev) \o D
    BY <1>1, <1>6, EventsBehind
  <2>2. Chat!StopBlocks(e, order) \in Emissions /\ Chat!StopBlocks(e, order).ev = e.ev \o D
    BY <1>7, <1>9, <2>1 DEF Emissions
  <2> QED BY <1>11, <2>1, <2>2
<1>13. Chat!StopBlocks(e, order).l = n
  BY DEF n
<1>14. /\ DOMAIN n.blocks = DOMAIN e.l.blocks
       /\ \A b \in DOMAIN e.l.blocks : /\ n.blocks[b].kind = e.l.blocks[b].kind
                                       /\ n.blocks[b].open = (e.l.blocks[b].open /\ b \notin stopped)
  BY <1>4, <1>8, <1>9
<1> QED BY <1>9, <1>12, <1>13, <1>14 DEF stopped

\* One block, which is not a tool's that is still to be served.
LEMMA StopIs ==
    ASSUME NEW e, NEW B, NEW X, Emits(e, B, X), NEW b \in DOMAIN e.l.blocks, e.l.blocks[b].open,
           \A t \in Chat!StartedTools(e.l) : e.l.tools[t].block # b
    PROVE  LET a == Chat!StopBlock(e, b)
           IN  /\ Emits(a, B, X \ {b}) /\ a.l.tools = e.l.tools
               /\ a.l.textOn = (e.l.textOn /\ e.l.text # b)
               /\ a.l.thinkingOn = (e.l.thinkingOn /\ e.l.thinking # b)
               /\ a.l.text = e.l.text /\ a.l.thinking = e.l.thinking
               /\ DOMAIN a.l.blocks = DOMAIN e.l.blocks
               /\ \A c \in DOMAIN e.l.blocks : a.l.blocks[c].kind = e.l.blocks[c].kind
<1> DEFINE order == <<b>>
           a == Chat!StopBlock(e, b)
           l == e.l
<1>1. /\ e \in Emissions /\ B \in Seq(ChatEvents) /\ gen \in Nat /\ l \in Ledgers /\ Current(l, X)
      /\ l.textOn \in BOOLEAN /\ l.thinkingOn \in BOOLEAN
  BY EmissionFields DEF Emits
<1>2. b \in Nat
  BY <1>1, BlocksAre
<1>3. order \in Seq(Nat) /\ DOMAIN order = {1} /\ order[1] = b
  BY <1>2
<1>4. a = Chat!StopBlocks(e, order)
  BY DEF Chat!StopBlock
<1> HIDE DEF order, a
<1>5. {order[i] : i \in DOMAIN order} = {b}
  BY <1>3
<1>6. /\ \A i \in DOMAIN order : order[i] \in DOMAIN e.l.blocks /\ e.l.blocks[order[i]].open
      /\ \A i, j \in DOMAIN order : order[i] = order[j] => i = j
  BY <1>3
<1>7. /\ a \in Emissions /\ Agree(a.l, B \o a.ev, gen)
      /\ DOMAIN a.l.blocks = DOMAIN l.blocks /\ a.l.tools = l.tools
      /\ \A c \in DOMAIN l.blocks : /\ a.l.blocks[c].kind = l.blocks[c].kind
                                    /\ a.l.blocks[c].open = (l.blocks[c].open /\ c # b)
      /\ a.l.text = l.text /\ a.l.thinking = l.thinking
      /\ a.l.textOn = (l.textOn /\ l.text # b)
      /\ a.l.thinkingOn = (l.thinkingOn /\ l.thinking # b)
  <2>1. \A c : c \notin {b} <=> c # b
    OBVIOUS
  <2> QED BY <1>3, <1>4, <1>5, <1>6, <2>1, StopsAre
<1>8. a.l \in Ledgers
  BY <1>7, EmissionFields
<1> DEFINE n == a.l
<1> HIDE DEF n, l
<1>9. Chat!StartedTools(n) = Chat!StartedTools(l)
  BY <1>7 DEF Chat!StartedTools, n
<1>10. Current(n, X \ {b})
  <2>1. /\ l.textOn => /\ l.text \in DOMAIN l.blocks
                       /\ l.blocks[l.text].kind = "text" /\ l.blocks[l.text].open
        /\ l.thinkingOn => /\ l.thinking \in DOMAIN l.blocks
                           /\ l.blocks[l.thinking].kind = "thinking" /\ l.blocks[l.thinking].open
        /\ \A t, u \in Chat!StartedTools(l) : l.tools[t].block = l.tools[u].block => t = u
    BY <1>1 DEF Current
  <2>2. \A t \in Chat!StartedTools(l) :
           /\ l.tools[t].block \in DOMAIN l.blocks /\ l.tools[t].block \notin X
           /\ l.blocks[l.tools[t].block].kind = "tool_use"
           /\ l.blocks[l.tools[t].block].open
    BY <1>1 DEF Current
  <2>3. \A i \in DOMAIN l.blocks : l.blocks[i].open =>
          \/ l.textOn /\ i = l.text
          \/ l.thinkingOn /\ i = l.thinking
          \/ \E t \in Chat!StartedTools(l) : l.tools[t].block = i
          \/ i \in X
    BY <1>1 DEF Current
  <2>4. /\ n.textOn => n.text \in DOMAIN n.blocks /\ n.blocks[n.text].kind = "text" /\ n.blocks[n.text].open
        /\ n.thinkingOn => /\ n.thinking \in DOMAIN n.blocks
                           /\ n.blocks[n.thinking].kind = "thinking" /\ n.blocks[n.thinking].open
    <3>1. ASSUME n.textOn
          PROVE  n.text \in DOMAIN n.blocks /\ n.blocks[n.text].kind = "text" /\ n.blocks[n.text].open
      <4> DEFINE c == l.text
      <4>1. l.textOn /\ c # b /\ n.text = c
        BY <1>7, <3>1 DEF n
      <4>2. c \in DOMAIN l.blocks /\ l.blocks[c].kind = "text" /\ l.blocks[c].open
        BY <2>1, <4>1
      <4> HIDE DEF c
      <4> QED BY <1>7, <4>1, <4>2 DEF n
    <3>2. ASSUME n.thinkingOn
          PROVE  /\ n.thinking \in DOMAIN n.blocks /\ n.blocks[n.thinking].kind = "thinking"
                 /\ n.blocks[n.thinking].open
      <4> DEFINE c == l.thinking
      <4>1. l.thinkingOn /\ c # b /\ n.thinking = c
        BY <1>7, <3>2 DEF n
      <4>2. c \in DOMAIN l.blocks /\ l.blocks[c].kind = "thinking" /\ l.blocks[c].open
        BY <2>1, <4>1
      <4> HIDE DEF c
      <4> QED BY <1>7, <4>1, <4>2 DEF n
    <3> QED BY <3>1, <3>2
  <2>5. \A t \in Chat!StartedTools(n) :
           /\ n.tools[t].block \in DOMAIN n.blocks /\ n.tools[t].block \notin X \ {b}
           /\ n.blocks[n.tools[t].block].kind = "tool_use"
           /\ n.blocks[n.tools[t].block].open
    <3>1. SUFFICES ASSUME NEW t \in Chat!StartedTools(l)
                   PROVE  /\ n.tools[t].block \in DOMAIN n.blocks /\ n.tools[t].block \notin X \ {b}
                          /\ n.blocks[n.tools[t].block].kind = "tool_use"
                          /\ n.blocks[n.tools[t].block].open
      BY <1>9
    <3>2. l.tools[t].block # b
      BY DEF l
    <3>3. n.tools[t].block = l.tools[t].block
      BY <1>7 DEF n
    <3> DEFINE c == l.tools[t].block
    <3>4. /\ c \in DOMAIN l.blocks /\ c \notin X /\ l.blocks[c].kind = "tool_use"
          /\ l.blocks[c].open /\ c # b /\ n.tools[t].block = c
      BY <2>2, <3>2, <3>3
    <3> HIDE DEF c
    <3>5. n.blocks[c].kind = l.blocks[c].kind /\ n.blocks[c].open
      BY <1>7, <3>4 DEF n
    <3> QED BY <1>7, <3>4, <3>5 DEF n
  <2>6. \A i \in DOMAIN n.blocks : n.blocks[i].open =>
          \/ n.textOn /\ i = n.text
          \/ n.thinkingOn /\ i = n.thinking
          \/ \E t \in Chat!StartedTools(n) : n.tools[t].block = i
          \/ i \in X \ {b}
    <3>1. SUFFICES ASSUME NEW i \in DOMAIN l.blocks, n.blocks[i].open
                   PROVE  \/ n.textOn /\ i = n.text
                          \/ n.thinkingOn /\ i = n.thinking
                          \/ \E t \in Chat!StartedTools(n) : n.tools[t].block = i
                          \/ i \in X \ {b}
      BY <1>7 DEF n
    <3>2. l.blocks[i].open /\ i # b
      BY <1>7, <3>1 DEF n
    <3>3. n.tools = l.tools
      BY <1>7 DEF n
    <3> QED BY <1>7, <1>9, <2>3, <3>2, <3>3 DEF n
  <2>7. \A t, u \in Chat!StartedTools(n) : n.tools[t].block = n.tools[u].block => t = u
    BY <1>7, <1>9, <2>1 DEF n
  <2> QED BY <1>8, <2>4, <2>5, <2>6, <2>7 DEF Current, n
<1>11. Emits(a, B, X \ {b})
  BY <1>1, <1>7, <1>10 DEF Emits, n
<1> QED BY <1>7, <1>11 DEF l, a

-----------------------------------------------------------------------------
\* Orders of finite sets of numbers.
OrderOf(order, S) ==
    /\ order \in Seq(S) /\ DOMAIN order = 1 .. Cardinality(S)
    /\ \A i \in DOMAIN order : order[i] \in S
    /\ \A i, j \in DOMAIN order : order[i] = order[j] => i = j
    /\ \A x \in S : \E i \in DOMAIN order : order[i] = x

LEMMA OrderIs ==
    ASSUME NEW S, IsFiniteSet(S), NEW f \in [1 .. Cardinality(S) -> S],
           \A i, j \in DOMAIN f : f[i] = f[j] => i = j
    PROVE  OrderOf(f, S)
<1> DEFINE n == Cardinality(S)
<1>1. n \in Nat
  BY FS_CardinalityType
<1>2. DOMAIN f = 1 .. n /\ \A i \in 1 .. n : f[i] \in S
  OBVIOUS
<1> HIDE DEF n
<1>3. f \in Seq(S)
  <2>1. f = [i \in 1 .. n |-> f[i]]
    BY DEF n
  <2> QED BY <1>1, <1>2, <2>1, IsASeq
<1>4. ASSUME NEW x \in S, \A i \in DOMAIN f : f[i] # x PROVE FALSE
  <2>1. IsFiniteSet(S \ {x}) /\ Cardinality(S \ {x}) = n - 1
    BY FS_RemoveElement DEF n
  <2>2. f \in [1 .. n -> S \ {x}]
    BY <1>2, <1>4 DEF n
  <2>3. IsFiniteSet(1 .. n) /\ Cardinality(1 .. n) = n
    BY <1>1, FS_Interval
  <2>4. \E i, j \in 1 .. n : i # j /\ f[i] = f[j]
    <3>1. Cardinality(S \ {x}) < Cardinality(1 .. n)
      BY <1>1, <2>1, <2>3
    <3> QED BY <2>1, <2>2, <2>3, <3>1, FS_PigeonHole
  <2> QED BY <1>2, <2>4
<1> QED BY <1>2, <1>3, <1>4 DEF OrderOf, n

\* What SetToSeq chooses.
LEMMA SetToSeqIs == ASSUME NEW S, IsFiniteSet(S) PROVE OrderOf(Chat!SetToSeq(S), S)
<1>1. \E f \in [1 .. Cardinality(S) -> S] : Chat!IsInjective(f)
  BY FS_CardinalityType DEF ExistsBijection, Bijection, Injection, IsInjective, Chat!IsInjective
<1>2. Chat!SetToSeq(S) \in [1 .. Cardinality(S) -> S] /\ Chat!IsInjective(Chat!SetToSeq(S))
  BY <1>1, ChatSets DEF Chat!SetToSeq
<1> QED BY <1>2, OrderIs DEF Chat!IsInjective

LEMMA LeastNatural ==
    ASSUME NEW T, T \subseteq Nat, T # {} PROVE \E x \in T : \A y \in T : x <= y
<1> DEFINE R == OpToRel(<, Nat)
<1>1. IsWellFoundedOn(R, Nat)
  BY NatLessThanWellFounded
<1>2. \A x, y \in Nat : <<x, y>> \in R <=> x < y
  BY DEF OpToRel
<1> HIDE DEF R
<1>3. PICK x \in T : \A y \in T : <<y, x>> \notin R
  BY <1>1, WFMin
<1>4. x \in Nat /\ \A y \in T : y \in Nat /\ ~(y < x)
  BY <1>2, <1>3
<1> QED BY <1>3, <1>4

\* A finite set of numbers has an order that falls: a smallest set that had none would
\* get one from the rest of it, with its least number at the end.
Falls(s, S) ==
    s \in [1 .. Cardinality(S) -> S] /\ \A i, j \in DOMAIN s : i < j => s[i] > s[j]

LEMMA SomeFalls ==
    ASSUME NEW S, S \subseteq Nat, IsFiniteSet(S) PROVE \E s : Falls(s, S)
<1> DEFINE Bad == {T \in SUBSET S : ~\E s : Falls(s, T)}
           Sizes == {Cardinality(T) : T \in Bad}
<1>1. ASSUME NEW T \in SUBSET S PROVE IsFiniteSet(T) /\ Cardinality(T) \in Nat
  BY FS_Subset, FS_CardinalityType
<1>2. Sizes \subseteq Nat
  BY <1>1
<1>3. SUFFICES ASSUME S \in Bad PROVE FALSE
  OBVIOUS
<1>4. Sizes # {}
  BY <1>3
<1>5. PICK T \in Bad : \A U \in Bad : Cardinality(T) <= Cardinality(U)
  <2>1. PICK m \in Sizes : \A k \in Sizes : m <= k
    BY <1>2, <1>4, LeastNatural
  <2>2. PICK T \in Bad : Cardinality(T) = m
    BY <2>1
  <2> QED BY <2>1, <2>2
<1> DEFINE n == Cardinality(T)
<1>6. T \in SUBSET S /\ IsFiniteSet(T) /\ n \in Nat /\ T \subseteq Nat /\ ~\E s : Falls(s, T)
  BY <1>1
<1> HIDE DEF Bad, Sizes, n
<1>7. CASE T = {}
  <2>1. n = 0
    BY <1>7, FS_EmptySet DEF n
  <2>2. <<>> \in [1 .. 0 -> T] /\ \A i, j \in DOMAIN <<>> : i < j => <<>>[i] > <<>>[j]
    OBVIOUS
  <2>3. Falls(<<>>, T)
    BY <2>1, <2>2 DEF Falls, n
  <2> QED BY <1>6, <2>3
<1>8. CASE T # {}
  <2>1. PICK x \in T : \A y \in T : x <= y
    BY <1>6, <1>8, LeastNatural
  <2> DEFINE U == T \ {x}
  <2>2. IsFiniteSet(U) /\ Cardinality(U) = n - 1 /\ Cardinality(U) \in Nat /\ U \in SUBSET S
    BY <1>1, <1>6, FS_RemoveElement DEF n
  <2>3. U \notin Bad
    <3>1. ~(n <= n - 1)
      BY <1>6
    <3> QED BY <1>5, <2>2, <3>1 DEF n
  <2>4. PICK u : Falls(u, U)
    BY <2>2, <2>3 DEF Bad
  <2> DEFINE s == [i \in 1 .. n |-> IF i = n THEN x ELSE u[i]]
  <2>5. /\ u \in [1 .. n - 1 -> U] /\ DOMAIN u = 1 .. n - 1
        /\ \A i, j \in 1 .. n - 1 : i < j => u[i] > u[j]
    BY <2>2, <2>4 DEF Falls
  <2>6. \A i \in 1 .. n : i = n \/ i \in 1 .. n - 1
    BY <1>6
  <2>7. s \in [1 .. n -> T]
    BY <2>1, <2>5, <2>6
  <2>8. \A i \in 1 .. n - 1 : u[i] \in Nat /\ u[i] > x
    <3>1. \A y \in U : y \in Nat /\ x \in Nat /\ y # x /\ x <= y
      BY <1>6, <2>1
    <3>2. \A y \in U : y \in Nat /\ y > x
      BY <3>1
    <3> QED BY <2>5, <3>2
  <2>9. \A i, j \in 1 .. n : i < j => s[i] > s[j]
    <3>1. SUFFICES ASSUME NEW i \in 1 .. n, NEW j \in 1 .. n, i < j PROVE s[i] > s[j]
      OBVIOUS
    <3>2. i \in 1 .. n - 1 /\ i # n
      BY <1>6, <3>1
    <3>3. s[i] = u[i]
      BY <3>2
    <3>4. CASE j = n
      BY <2>8, <3>2, <3>3, <3>4
    <3>5. CASE j # n
      <4>1. j \in 1 .. n - 1 /\ s[j] = u[j]
        BY <2>6, <3>5
      <4> QED BY <2>5, <3>1, <3>2, <3>3, <4>1
    <3> QED BY <3>4, <3>5
  <2> HIDE DEF s
  <2>10. DOMAIN s = 1 .. n
    BY <2>7
  <2>11. Falls(s, T)
    BY <2>7, <2>9, <2>10 DEF Falls, n
  <2> QED BY <1>6, <2>11
<1> QED BY <1>7, <1>8

LEMMA FallingIs == ASSUME NEW S, S \subseteq Nat, IsFiniteSet(S) PROVE OrderOf(Chat!Falling(S), S)
<1> DEFINE f == Chat!Falling(S)
<1>1. f \in [1 .. Cardinality(S) -> S] /\ \A i, j \in DOMAIN f : i < j => f[i] > f[j]
  <2>1. \E s \in [1 .. Cardinality(S) -> S] : \A i, j \in DOMAIN s : i < j => s[i] > s[j]
    BY SomeFalls DEF Falls
  <2> QED BY <2>1, ChatSets DEF Chat!Falling
<1> HIDE DEF f
<1>2. \A i, j \in DOMAIN f : f[i] = f[j] => i = j
  <2>1. SUFFICES ASSUME NEW i \in DOMAIN f, NEW j \in DOMAIN f, f[i] = f[j], i # j PROVE FALSE
    OBVIOUS
  <2>2. DOMAIN f = 1 .. Cardinality(S) /\ Cardinality(S) \in Nat
    BY <1>1, FS_CardinalityType
  <2>6. i \in 1 .. Cardinality(S) /\ j \in 1 .. Cardinality(S)
    BY <2>2
  <2>7. f[i] \in S /\ f[j] \in S
    BY <1>1, <2>6
  <2>3. i \in Nat /\ j \in Nat /\ f[i] \in Nat /\ f[j] \in Nat
    <3> DEFINE n == Cardinality(S)
    <3>1. n \in Nat /\ i \in 1 .. n /\ j \in 1 .. n
      BY <2>2, <2>6
    <3> HIDE DEF n
    <3>2. i \in Nat /\ j \in Nat
      BY <3>1
    <3> QED BY <2>7, <3>2
  <2>4. i < j \/ j < i
    BY <2>1, <2>3
  <2>5. f[i] > f[j] \/ f[j] > f[i]
    BY <1>1, <2>4
  <2> QED BY <2>1, <2>3, <2>5
<1> QED BY <1>1, <1>2, OrderIs DEF f

-----------------------------------------------------------------------------
\* The current text and thinking are open, and no tool's.
LEMMA CurrentIs ==
    ASSUME NEW e, NEW B, Emits(e, B, {})
    PROVE  /\ e.l.textOn => /\ e.l.text \in DOMAIN e.l.blocks /\ e.l.blocks[e.l.text].open
                            /\ e.l.blocks[e.l.text].kind = "text"
                            /\ \A t \in Chat!StartedTools(e.l) : e.l.tools[t].block # e.l.text
           /\ e.l.thinkingOn => /\ e.l.thinking \in DOMAIN e.l.blocks /\ e.l.blocks[e.l.thinking].open
                                /\ e.l.blocks[e.l.thinking].kind = "thinking"
                                /\ \A t \in Chat!StartedTools(e.l) : e.l.tools[t].block # e.l.thinking
           /\ (e.l.textOn /\ e.l.thinkingOn => e.l.text # e.l.thinking)
           /\ \A t \in Chat!StartedTools(e.l) :
                 e.l.tools[t].block \in DOMAIN e.l.blocks /\ e.l.blocks[e.l.tools[t].block].open
           /\ e.l.textOn \in BOOLEAN /\ e.l.thinkingOn \in BOOLEAN
BY EmissionFields DEF Emits, Current

LEMMA StopTextIs ==
    ASSUME NEW e, NEW B, Emits(e, B, {}), e.l.textOn
    PROVE  LET a == Chat!StopBlock(e, e.l.text)
           IN  /\ Emits(a, B, {}) /\ ~a.l.textOn /\ a.l.thinkingOn = e.l.thinkingOn
               /\ a.l.tools = e.l.tools
               /\ DOMAIN a.l.blocks = DOMAIN e.l.blocks
               /\ \A c \in DOMAIN e.l.blocks : a.l.blocks[c].kind = e.l.blocks[c].kind
<1> DEFINE b == e.l.text
           a == Chat!StopBlock(e, b)
<1>1. /\ b \in DOMAIN e.l.blocks /\ e.l.blocks[b].open
      /\ \A t \in Chat!StartedTools(e.l) : e.l.tools[t].block # b
      /\ e.l.thinkingOn \in BOOLEAN
      /\ e.l.thinkingOn => e.l.thinking # b
  BY CurrentIs
<1>2. /\ Emits(a, B, {} \ {b}) /\ a.l.tools = e.l.tools
      /\ a.l.textOn = (e.l.textOn /\ e.l.text # b)
      /\ a.l.thinkingOn = (e.l.thinkingOn /\ e.l.thinking # b)
      /\ DOMAIN a.l.blocks = DOMAIN e.l.blocks
      /\ \A c \in DOMAIN e.l.blocks : a.l.blocks[c].kind = e.l.blocks[c].kind
  BY <1>1, StopIs
<1>3. {} \ {b} = {}
  OBVIOUS
<1>4. (e.l.thinkingOn /\ e.l.thinking # b) = e.l.thinkingOn
  BY <1>1
<1> QED BY <1>2, <1>3, <1>4

LEMMA StopThinkingIs ==
    ASSUME NEW e, NEW B, Emits(e, B, {}), e.l.thinkingOn
    PROVE  LET a == Chat!StopBlock(e, e.l.thinking)
           IN  /\ Emits(a, B, {}) /\ ~a.l.thinkingOn /\ a.l.textOn = e.l.textOn
               /\ a.l.tools = e.l.tools
               /\ DOMAIN a.l.blocks = DOMAIN e.l.blocks
               /\ \A c \in DOMAIN e.l.blocks : a.l.blocks[c].kind = e.l.blocks[c].kind
<1> DEFINE b == e.l.thinking
           a == Chat!StopBlock(e, b)
<1>1. /\ b \in DOMAIN e.l.blocks /\ e.l.blocks[b].open
      /\ \A t \in Chat!StartedTools(e.l) : e.l.tools[t].block # b
      /\ e.l.textOn \in BOOLEAN
      /\ e.l.textOn => e.l.text # b
  BY CurrentIs
<1>2. /\ Emits(a, B, {} \ {b}) /\ a.l.tools = e.l.tools
      /\ a.l.textOn = (e.l.textOn /\ e.l.text # b)
      /\ a.l.thinkingOn = (e.l.thinkingOn /\ e.l.thinking # b)
      /\ DOMAIN a.l.blocks = DOMAIN e.l.blocks
      /\ \A c \in DOMAIN e.l.blocks : a.l.blocks[c].kind = e.l.blocks[c].kind
  BY <1>1, StopIs
<1>3. {} \ {b} = {}
  OBVIOUS
<1>4. (e.l.textOn /\ e.l.text # b) = e.l.textOn
  BY <1>1
<1> QED BY <1>2, <1>3, <1>4

\* What an operation does to the blocks there were: their kinds stay.
SameKinds(l, n) == /\ DOMAIN l.blocks \subseteq DOMAIN n.blocks
                   /\ \A b \in DOMAIN l.blocks : n.blocks[b].kind = l.blocks[b].kind

LEMMA CloseContentIs ==
    ASSUME NEW e, NEW B, Emits(e, B, {})
    PROVE  LET a == Chat!CloseContent(e)
           IN  /\ Emits(a, B, {}) /\ ~a.l.textOn /\ ~a.l.thinkingOn
               /\ a.l.tools = e.l.tools /\ SameKinds(e.l, a.l)
               /\ DOMAIN a.l.blocks = DOMAIN e.l.blocks
<1> DEFINE d == IF e.l.thinkingOn THEN Chat!StopBlock(e, e.l.thinking) ELSE e
<1>1. /\ Emits(d, B, {}) /\ ~d.l.thinkingOn /\ d.l.tools = e.l.tools
      /\ DOMAIN d.l.blocks = DOMAIN e.l.blocks
      /\ \A c \in DOMAIN e.l.blocks : d.l.blocks[c].kind = e.l.blocks[c].kind
  BY StopThinkingIs
<1>2. Chat!CloseContent(e) = IF d.l.textOn THEN Chat!StopBlock(d, d.l.text) ELSE d
  BY DEF Chat!CloseContent
<1> HIDE DEF d
<1>3. CASE d.l.textOn
  BY <1>1, <1>2, <1>3, StopTextIs DEF SameKinds
<1>4. CASE ~d.l.textOn
  BY <1>1, <1>2, <1>4 DEF SameKinds
<1> QED BY <1>3, <1>4

LEMMA EnsureTextIs ==
    ASSUME NEW e, NEW B, Emits(e, B, {})
    PROVE  LET a == Chat!EnsureText(e)
           IN  /\ Emits(a, B, {}) /\ a.l.textOn /\ a.l.text \in DOMAIN a.l.blocks
               /\ a.l.blocks[a.l.text].open /\ a.l.tools = e.l.tools
<1> DEFINE d == IF e.l.thinkingOn THEN Chat!StopBlock(e, e.l.thinking) ELSE e
<1>1. Emits(d, B, {}) /\ d.l.tools = e.l.tools
  BY StopThinkingIs
<1>2. Chat!EnsureText(e) = IF d.l.textOn THEN d ELSE Chat!StartBlock(d, "text")
  BY DEF Chat!EnsureText
<1> HIDE DEF d
<1>3. CASE d.l.textOn
  BY <1>1, <1>2, <1>3, CurrentIs
<1>4. CASE ~d.l.textOn
  <2> DEFINE a == Chat!StartBlock(d, "text")
  <2>1. /\ Emits(a, B, IF "text" = "tool_use" THEN {} \union {Len(a.l.blocks)} ELSE {})
        /\ a.l.tools = d.l.tools /\ a.l.textOn = (d.l.textOn \/ "text" = "text")
    BY <1>1, <1>4, StartIs
  <2>2. Emits(a, B, {}) /\ a.l.textOn /\ a.l.tools = d.l.tools /\ Chat!EnsureText(e) = a
    BY <1>2, <1>4, <2>1
  <2> HIDE DEF a
  <2> QED BY <1>1, <2>2, CurrentIs
<1> QED BY <1>3, <1>4

LEMMA EnsureThinkingIs ==
    ASSUME NEW e, NEW B, Emits(e, B, {})
    PROVE  LET a == Chat!EnsureThinking(e)
           IN  /\ Emits(a, B, {}) /\ a.l.thinkingOn /\ a.l.thinking \in DOMAIN a.l.blocks
               /\ a.l.blocks[a.l.thinking].open /\ a.l.tools = e.l.tools
<1> DEFINE d == IF e.l.textOn THEN Chat!StopBlock(e, e.l.text) ELSE e
<1>1. Emits(d, B, {}) /\ d.l.tools = e.l.tools
  BY StopTextIs
<1>2. Chat!EnsureThinking(e) = IF d.l.thinkingOn THEN d ELSE Chat!StartBlock(d, "thinking")
  BY DEF Chat!EnsureThinking
<1> HIDE DEF d
<1>3. CASE d.l.thinkingOn
  BY <1>1, <1>2, <1>3, CurrentIs
<1>4. CASE ~d.l.thinkingOn
  <2> DEFINE a == Chat!StartBlock(d, "thinking")
  <2>1. /\ Emits(a, B, IF "thinking" = "tool_use" THEN {} \union {Len(a.l.blocks)} ELSE {})
        /\ a.l.tools = d.l.tools /\ a.l.thinkingOn = (d.l.thinkingOn \/ "thinking" = "thinking")
    BY <1>1, <1>4, StartIs
  <2>2. Emits(a, B, {}) /\ a.l.thinkingOn /\ a.l.tools = d.l.tools /\ Chat!EnsureThinking(e) = a
    BY <1>2, <1>4, <2>1
  <2> HIDE DEF a
  <2> QED BY <1>1, <2>2, CurrentIs
<1> QED BY <1>3, <1>4

-----------------------------------------------------------------------------
\* The end of a message.
LEMMA CloseAllIs ==
    ASSUME Chat!ChatAssumption, NEW e, NEW B, Emits(e, B, {})
    PROVE  LET a == Chat!CloseAll(e)
           IN  /\ a \in Emissions /\ Agree(a.l, B \o a.ev, gen) /\ AllClosed(a.l)
               /\ a.l.tools = e.l.tools /\ SameKinds(e.l, a.l)
               /\ DOMAIN a.l.blocks = DOMAIN e.l.blocks
<1> DEFINE a == Chat!CloseContent(e)
           T == Chat!StartedTools(a.l)
           order == Chat!SetToSeq(T)
           stops == [i \in DOMAIN order |-> a.l.tools[order[i]].block]
           z == Chat!CloseAll(e)
<1>1. /\ Emits(a, B, {}) /\ ~a.l.textOn /\ ~a.l.thinkingOn /\ a.l.tools = e.l.tools
      /\ SameKinds(e.l, a.l) /\ DOMAIN a.l.blocks = DOMAIN e.l.blocks
  BY CloseContentIs
<1>2. z = Chat!StopBlocks(a, stops)
  BY DEF Chat!CloseAll
<1> HIDE DEF a
<1>3. a \in Emissions /\ a.l \in Ledgers /\ Current(a.l, {})
  BY <1>1, EmissionFields DEF Emits
<1>4. OrderOf(order, T)
  <2>1. IsFiniteSet(T)
    BY FS_Subset, ChatSets DEF Chat!StartedTools, Chat!ChatAssumption
  <2> QED BY <2>1, SetToSeqIs
<1> HIDE DEF T, order
<1>5. /\ Cardinality(T) \in Nat /\ DOMAIN order = 1 .. Cardinality(T)
      /\ \A i \in DOMAIN order : order[i] \in T
      /\ \A i, j \in DOMAIN order : order[i] = order[j] => i = j
      /\ \A t \in T : \E i \in DOMAIN order : order[i] = t
  <2>1. IsFiniteSet(T)
    BY FS_Subset, ChatSets DEF Chat!StartedTools, Chat!ChatAssumption, T
  <2> QED BY <1>4, <2>1, FS_CardinalityType DEF OrderOf
<1>6. /\ \A t \in T : a.l.tools[t].block \in DOMAIN a.l.blocks /\ a.l.blocks[a.l.tools[t].block].open
      /\ \A t, u \in T : a.l.tools[t].block = a.l.tools[u].block => t = u
      /\ \A b \in DOMAIN a.l.blocks : a.l.blocks[b].open => \E t \in T : a.l.tools[t].block = b
  BY <1>1, <1>3 DEF Current, T
<1>7. \A i \in DOMAIN order : /\ stops[i] = a.l.tools[order[i]].block
                              /\ stops[i] \in DOMAIN a.l.blocks /\ a.l.blocks[stops[i]].open
  BY <1>5, <1>6
<1>8. DOMAIN stops = DOMAIN order /\ stops \in Seq(Nat)
  <2>1. \A i \in DOMAIN order : a.l.tools[order[i]].block \in Nat
    BY <1>3, <1>7, BlocksAre
  <2>2. stops = [i \in 1 .. Cardinality(T) |-> a.l.tools[order[i]].block]
    BY <1>5
  <2> QED BY <1>5, <2>1, <2>2, IsASeq
<1> HIDE DEF stops
<1>9. \A i, j \in DOMAIN stops : stops[i] = stops[j] => i = j
  BY <1>5, <1>6, <1>7, <1>8
<1> DEFINE stopped == {stops[i] : i \in DOMAIN stops}
<1>10. /\ z \in Emissions /\ Agree(z.l, B \o z.ev, gen)
       /\ DOMAIN z.l.blocks = DOMAIN a.l.blocks /\ z.l.tools = a.l.tools
       /\ \A b \in DOMAIN a.l.blocks :
             /\ z.l.blocks[b].kind = a.l.blocks[b].kind
             /\ z.l.blocks[b].open = (a.l.blocks[b].open /\ b \notin stopped)
  BY <1>1, <1>2, <1>7, <1>8, <1>9, StopsAre
<1> HIDE DEF z
<1>11. \A b \in DOMAIN a.l.blocks : a.l.blocks[b].open => b \in stopped
  <2>1. SUFFICES ASSUME NEW b \in DOMAIN a.l.blocks, a.l.blocks[b].open PROVE b \in stopped
    OBVIOUS
  <2>2. PICK t \in T : a.l.tools[t].block = b
    BY <1>6, <2>1
  <2>3. PICK i \in DOMAIN order : order[i] = t
    BY <1>5
  <2> QED BY <1>7, <1>8, <2>2, <2>3
<1> HIDE DEF stopped
<1>12. AllClosed(z.l)
  BY <1>10, <1>11 DEF AllClosed
<1> QED BY <1>1, <1>10, <1>12 DEF SameKinds, z

LEMMA CloseUnclosedIs ==
    ASSUME NEW e, NEW B, Emits(e, B, {})
    PROVE  LET a == Chat!CloseUnclosed(e)
           IN  /\ a \in Emissions /\ Agree(a.l, B \o a.ev, gen) /\ AllClosed(a.l)
<1> DEFINE T == {b \in DOMAIN e.l.blocks : e.l.blocks[b].open}
           order == Chat!Falling(T)
           z == Chat!CloseUnclosed(e)
<1>1. e \in Emissions /\ e.l \in Ledgers
  BY EmissionFields DEF Emits
<1>2. T \subseteq Nat /\ IsFiniteSet(T)
  <2>1. /\ DOMAIN e.l.blocks = 1 .. Len(e.l.blocks) /\ Len(e.l.blocks) \in Nat
        /\ DOMAIN e.l.blocks \subseteq Nat
    BY <1>1, BlocksAre
  <2>2. IsFiniteSet(1 .. Len(e.l.blocks))
    BY <2>1, FS_Interval
  <2>3. T \in SUBSET (1 .. Len(e.l.blocks))
    BY <2>1
  <2> QED BY <2>1, <2>2, <2>3, FS_Subset
<1>3. z = Chat!StopBlocks(e, order)
  BY DEF Chat!CloseUnclosed
<1>4. OrderOf(order, T)
  BY <1>2, FallingIs
<1> HIDE DEF order, z
<1>5. /\ order \in Seq(Nat)
      /\ \A i \in DOMAIN order : order[i] \in DOMAIN e.l.blocks /\ e.l.blocks[order[i]].open
      /\ \A i, j \in DOMAIN order : order[i] = order[j] => i = j
      /\ \A b \in T : \E i \in DOMAIN order : order[i] = b
  <2>1. order \in Seq(Nat)
    BY <1>2, <1>4, SeqMonotonic DEF OrderOf
  <2> QED BY <1>4, <2>1 DEF OrderOf
<1> DEFINE stopped == {order[i] : i \in DOMAIN order}
<1>6. /\ z \in Emissions /\ Agree(z.l, B \o z.ev, gen)
      /\ DOMAIN z.l.blocks = DOMAIN e.l.blocks
      /\ \A b \in DOMAIN e.l.blocks : z.l.blocks[b].open = (e.l.blocks[b].open /\ b \notin stopped)
  BY <1>3, <1>5, StopsAre
<1>7. \A b \in DOMAIN e.l.blocks : e.l.blocks[b].open => b \in stopped
  BY <1>5
<1> HIDE DEF stopped
<1> QED BY <1>6, <1>7 DEF AllClosed, z

\* One more event at the end of what was said.
LEMMA OneMore ==
    ASSUME NEW B \in Seq(ChatEvents), NEW v \in Seq(ChatEvents), NEW x \in ChatEvents
    PROVE  /\ Append(v, x) \in Seq(ChatEvents) /\ <<x>> \in Seq(ChatEvents)
           /\ B \o Append(v, x) = (B \o v) \o <<x>> /\ B \o v \in Seq(ChatEvents)
<1>1. Append(v, x) = v \o <<x>>
  BY AppendIsConcat
<1>2. Append(v, x) \in Seq(ChatEvents)
  BY AppendProperties
<1> DEFINE D == <<x>>
<1>3. D \in Seq(ChatEvents)
  OBVIOUS
<1> HIDE DEF D
<1>4. B \o (v \o D) = (B \o v) \o D
  BY <1>3, ConcatAssociative
<1>5. B \o v \in Seq(ChatEvents)
  BY ConcatProperties
<1> QED BY <1>1, <1>2, <1>3, <1>4, <1>5 DEF D

\* A message that is over: its last event is message_stop.
Ended(l, S, g) ==
    \E F \in Seq(ChatEvents), x \in ChatEvents :
       /\ S = F \o <<x>> /\ Is(x, "message_stop", 0) /\ x.gen = g
       /\ Agree(l, F, g) /\ AllClosed(l)

LEMMA EndingIs ==
    ASSUME Chat!ChatAssumption, NEW e, NEW B, Emits(e, B, {})
    PROVE  LET z == Chat!Ending(e)
           IN  /\ z \in Emissions /\ Ended(z.l, B \o z.ev, gen)
               /\ z.l.tools = e.l.tools /\ SameKinds(e.l, z.l)
               /\ DOMAIN z.l.blocks = DOMAIN e.l.blocks
<1> DEFINE a == Chat!CloseAll(e)
           x == Chat!Event("message_delta", 0, "message")
           y == Chat!Event("message_stop", 0, "message")
           z == Chat!Ending(e)
<1>1. /\ a \in Emissions /\ Agree(a.l, B \o a.ev, gen) /\ AllClosed(a.l)
      /\ a.l.tools = e.l.tools /\ SameKinds(e.l, a.l) /\ DOMAIN a.l.blocks = DOMAIN e.l.blocks
      /\ gen \in Nat /\ B \in Seq(ChatEvents)
  BY CloseAllIs DEF Emits
<1>2. /\ x \in ChatEvents /\ x.gen = gen /\ Is(x, "message_delta", 0)
      /\ y \in ChatEvents /\ y.gen = gen /\ Is(y, "message_stop", 0)
  BY <1>1, ChatEvent
<1>3. z = [[a EXCEPT !.ev = Append(a.ev, x)] EXCEPT !.ev = Append(Append(a.ev, x), y)]
  <2>1. a = [l |-> a.l, ev |-> a.ev]
    BY <1>1 DEF Emissions
  <2> HIDE DEF a, x, y
  <2>2. [a EXCEPT !.ev = Append(a.ev, x)].ev = Append(a.ev, x)
    BY <2>1
  <2>3. Chat!Mark(a, "message_delta") = [a EXCEPT !.ev = Append(a.ev, x)]
    BY DEF Chat!Mark, x
  <2>4. \A f : Chat!Mark(f, "message_stop") = [f EXCEPT !.ev = Append(f.ev, y)]
    BY DEF Chat!Mark, y
  <2>5. z = Chat!Mark(Chat!Mark(a, "message_delta"), "message_stop")
    BY DEF Chat!Ending, a
  <2> QED BY <2>2, <2>3, <2>4, <2>5
<1> HIDE DEF a, x, y
<1>4. z.l = a.l /\ z.ev = Append(Append(a.ev, x), y) /\ a.l \in Ledgers /\ a.ev \in Seq(ChatEvents)
      /\ z = [l |-> a.l, ev |-> Append(Append(a.ev, x), y)]
  BY <1>1, <1>3 DEF Emissions
<1> HIDE DEF z
<1> DEFINE v == a.ev
           w == Append(v, x)
<1>5. w \in Seq(ChatEvents) /\ B \o w = (B \o v) \o <<x>>
  BY <1>1, <1>2, <1>4, OneMore
<1>6. /\ Append(w, y) \in Seq(ChatEvents) /\ B \o Append(w, y) = (B \o w) \o <<y>>
      /\ B \o w \in Seq(ChatEvents)
  <2> HIDE DEF w
  <2> QED BY <1>1, <1>2, <1>5, OneMore
<1>7. Agree(a.l, B \o w, gen)
  <2> DEFINE S == B \o v
             D == <<x>>
  <2>1. D \in Seq(ChatEvents) /\ DOMAIN D = {1} /\ D[1] = x
    BY <1>2
  <2>2. Agree(a.l, S, gen)
    BY <1>1
  <2> HIDE DEF S, D
  <2>3. Agree(a.l, S \o D, gen)
    BY <1>2, <1>4, <2>1, <2>2, AgreesWithDeltas DEF Is
  <2> QED BY <1>5, <2>3 DEF S, D
<1>8. Ended(z.l, B \o z.ev, gen)
  <2>1. B \o z.ev = (B \o w) \o <<y>> /\ B \o w \in Seq(ChatEvents)
    BY <1>4, <1>6
  <2> HIDE DEF w
  <2> QED BY <1>1, <1>2, <1>4, <1>7, <2>1 DEF Ended
<1>9. z \in Emissions
  BY <1>4, <1>6 DEF Emissions
<1> QED BY <1>1, <1>4, <1>8, <1>9 DEF z

-----------------------------------------------------------------------------
\* The same message, with other records of its tools.
SameMessage(d, e) ==
    /\ d.ev = e.ev /\ d.l.blocks = e.l.blocks
    /\ d.l.text = e.l.text /\ d.l.textOn = e.l.textOn
    /\ d.l.thinking = e.l.thinking /\ d.l.thinkingOn = e.l.thinkingOn

LEMMA ToolIs ==
    ASSUME NEW e \in Emissions, NEW t \in ChatTools, NEW k \in ToolStates
    PROVE  LET d == [e EXCEPT !.l.tools[t] = k]
           IN  /\ d \in Emissions /\ SameMessage(d, e) /\ d.l.tools[t] = k
               /\ \A u \in ChatTools \ {t} : d.l.tools[u] = e.l.tools[u]
<1> DEFINE d == [e EXCEPT !.l.tools[t] = k]
           l == e.l
           n == [l EXCEPT !.tools = [l.tools EXCEPT ![t] = k]]
<1>1. l \in Ledgers /\ e.ev \in Seq(ChatEvents) /\ l.tools \in [ChatTools -> ToolStates]
      /\ e = [l |-> l, ev |-> e.ev]
  BY EmissionFields DEF Emissions
<1>2. d = [e EXCEPT !.l = n]
  BY <1>1
<1> HIDE DEF d
<1>3. d.l = n /\ d.ev = e.ev /\ d = [l |-> n, ev |-> e.ev]
  <2> HIDE DEF n, l
  <2> QED BY <1>1, <1>2
<1> HIDE DEF l
<1>4. [l.tools EXCEPT ![t] = k] \in [ChatTools -> ToolStates]
  BY <1>1
<1>5. n \in Ledgers /\ n.tools = [l.tools EXCEPT ![t] = k]
      /\ n.blocks = l.blocks /\ n.text = l.text /\ n.textOn = l.textOn
      /\ n.thinking = l.thinking /\ n.thinkingOn = l.thinkingOn
  <2> DEFINE f == [l.tools EXCEPT ![t] = k]
  <2>1. f \in [ChatTools -> ToolStates]
    BY <1>4
  <2>2. n = [l EXCEPT !.tools = f]
    OBVIOUS
  <2> HIDE DEF f, n
  <2>3. n \in Ledgers /\ n.tools = f
        /\ n.blocks = l.blocks /\ n.text = l.text /\ n.textOn = l.textOn
        /\ n.thinking = l.thinking /\ n.thinkingOn = l.thinkingOn
    BY <1>1, <2>1, <2>2 DEF Ledgers
  <2> QED BY <2>3 DEF f
<1>6. d \in Emissions
  <2> HIDE DEF n
  <2> QED BY <1>1, <1>3, <1>5 DEF Emissions
<1>7. d.l.tools[t] = k /\ \A u \in ChatTools \ {t} : d.l.tools[u] = l.tools[u]
  BY <1>1, <1>3, <1>5
<1>8. SameMessage(d, e)
  <2> HIDE DEF n
  <2> QED BY <1>3, <1>5 DEF SameMessage, l
<1> QED BY <1>6, <1>7, <1>8 DEF d, l

LEMMA ToolsStay ==
    ASSUME NEW e, NEW B, NEW X, Emits(e, B, X), NEW d \in Emissions, SameMessage(d, e),
           \A u \in ChatTools : d.l.tools[u].block = e.l.tools[u].block
    PROVE  Emits(d, B, X)
<1>1. /\ B \in Seq(ChatEvents) /\ gen \in Nat /\ Agree(e.l, B \o e.ev, gen) /\ Current(e.l, X)
      /\ d.l \in Ledgers
  BY EmissionFields DEF Emits
<1>2. Agree(d.l, B \o d.ev, gen)
  <2> DEFINE S == B \o e.ev
             bs == e.l.blocks
  <2>1. Agree(e.l, S, gen) /\ B \o d.ev = S /\ d.l.blocks = bs /\ e.l.blocks = bs
    BY <1>1 DEF SameMessage
  <2> HIDE DEF S, bs
  <2> QED BY <2>1 DEF Agree
<1>3. Chat!StartedTools(d.l) = Chat!StartedTools(e.l)
  BY DEF Chat!StartedTools
<1>4. Current(d.l, X)
  <2> DEFINE bs == e.l.blocks
             x == e.l.text
             xo == e.l.textOn
             h == e.l.thinking
             ho == e.l.thinkingOn
             T == Chat!StartedTools(e.l)
  <2>1. /\ d.l.blocks = bs /\ e.l.blocks = bs /\ d.l.text = x /\ e.l.text = x
        /\ d.l.textOn = xo /\ e.l.textOn = xo /\ d.l.thinking = h /\ e.l.thinking = h
        /\ d.l.thinkingOn = ho /\ e.l.thinkingOn = ho
        /\ Chat!StartedTools(d.l) = T /\ Chat!StartedTools(e.l) = T
        /\ \A u \in T : d.l.tools[u].block = e.l.tools[u].block
    BY <1>3 DEF SameMessage, Chat!StartedTools
  <2> HIDE DEF bs, x, xo, h, ho, T
  <2>2. /\ xo => x \in DOMAIN bs /\ bs[x].kind = "text" /\ bs[x].open
        /\ ho => h \in DOMAIN bs /\ bs[h].kind = "thinking" /\ bs[h].open
    BY <1>1, <2>1 DEF Current
  <2>3. \A u \in T : /\ d.l.tools[u].block \in DOMAIN bs /\ d.l.tools[u].block \notin X
                     /\ bs[d.l.tools[u].block].kind = "tool_use" /\ bs[d.l.tools[u].block].open
    BY <1>1, <2>1 DEF Current
  <2>4. \A t, u \in T : d.l.tools[t].block = d.l.tools[u].block => t = u
    BY <1>1, <2>1 DEF Current
  <2>5. \A b \in DOMAIN bs : bs[b].open => \/ xo /\ b = x
                                           \/ ho /\ b = h
                                           \/ \E u \in T : d.l.tools[u].block = b
                                           \/ b \in X
    <3>1. \A b \in DOMAIN bs : bs[b].open => \/ xo /\ b = x
                                             \/ ho /\ b = h
                                             \/ \E u \in T : e.l.tools[u].block = b
                                             \/ b \in X
      BY <1>1, <2>1 DEF Current
    <3> QED BY <2>1, <3>1
  <2> QED BY <1>1, <2>1, <2>2, <2>3, <2>4, <2>5 DEF Current
<1> QED BY <1>1, <1>2, <1>4 DEF Emits

\* A block that was started for a tool is the tool's.
LEMMA BlockIsTaken ==
    ASSUME NEW e, NEW B, NEW b \in DOMAIN e.l.blocks, Emits(e, B, {b}), e.l.blocks[b].open,
           e.l.blocks[b].kind = "tool_use", NEW t \in ChatTools, e.l.tools[t].block = 0,
           NEW d \in Emissions, SameMessage(d, e), d.l.tools[t].block = b,
           \A u \in ChatTools \ {t} : d.l.tools[u] = e.l.tools[u]
    PROVE  Emits(d, B, {}) /\ t \in Chat!StartedTools(d.l)
<1>1. /\ B \in Seq(ChatEvents) /\ gen \in Nat /\ Agree(e.l, B \o e.ev, gen) /\ Current(e.l, {b})
      /\ d.l \in Ledgers /\ e.l \in Ledgers
  BY EmissionFields DEF Emits
<1>2. Agree(d.l, B \o d.ev, gen)
  <2> DEFINE S == B \o e.ev
             bs == e.l.blocks
  <2>1. Agree(e.l, S, gen) /\ B \o d.ev = S /\ d.l.blocks = bs /\ e.l.blocks = bs
    BY <1>1 DEF SameMessage
  <2> HIDE DEF S, bs
  <2> QED BY <2>1 DEF Agree
<1>3. b # 0
  BY <1>1, BlocksAre
<1>4. /\ t \in Chat!StartedTools(d.l) /\ t \notin Chat!StartedTools(e.l)
      /\ \A u \in Chat!StartedTools(d.l) : u = t \/ u \in Chat!StartedTools(e.l)
      /\ \A u \in Chat!StartedTools(e.l) : u \in Chat!StartedTools(d.l) /\ d.l.tools[u].block = e.l.tools[u].block
  BY <1>3 DEF Chat!StartedTools
<1>5. Current(d.l, {})
  <2> DEFINE bs == e.l.blocks
             x == e.l.text
             xo == e.l.textOn
             h == e.l.thinking
             ho == e.l.thinkingOn
             T == Chat!StartedTools(e.l)
             U == Chat!StartedTools(d.l)
  <2>1. /\ d.l.blocks = bs /\ e.l.blocks = bs /\ d.l.text = x /\ e.l.text = x
        /\ d.l.textOn = xo /\ e.l.textOn = xo /\ d.l.thinking = h /\ e.l.thinking = h
        /\ d.l.thinkingOn = ho /\ e.l.thinkingOn = ho
        /\ Chat!StartedTools(d.l) = U /\ Chat!StartedTools(e.l) = T
        /\ b \in DOMAIN bs /\ bs[b].open /\ bs[b].kind = "tool_use"
        /\ t \in U /\ t \notin T /\ \A u \in U : u = t \/ u \in T
        /\ \A u \in T : u \in U /\ d.l.tools[u].block = e.l.tools[u].block
    BY <1>4 DEF SameMessage
  <2> HIDE DEF bs, x, xo, h, ho, T, U
  <2>2. /\ xo => x \in DOMAIN bs /\ bs[x].kind = "text" /\ bs[x].open
        /\ ho => h \in DOMAIN bs /\ bs[h].kind = "thinking" /\ bs[h].open
    BY <1>1, <2>1 DEF Current
  <2>3. \A u \in T : /\ d.l.tools[u].block \in DOMAIN bs /\ d.l.tools[u].block # b
                     /\ bs[d.l.tools[u].block].kind = "tool_use" /\ bs[d.l.tools[u].block].open
    <3>1. ASSUME NEW u \in T, NEW k, k = e.l.tools[u].block
          PROVE  k \in DOMAIN bs /\ k # b /\ bs[k].kind = "tool_use" /\ bs[k].open
      BY <1>1, <2>1, <3>1 DEF Current
    <3>2. \A u \in T : d.l.tools[u].block = e.l.tools[u].block
      BY <2>1
    <3> QED BY <3>1, <3>2
  <2>4. \A u, v \in T : d.l.tools[u].block = d.l.tools[v].block => u = v
    BY <1>1, <2>1 DEF Current
  <2>5. \A c \in DOMAIN bs : bs[c].open => \/ xo /\ c = x
                                           \/ ho /\ c = h
                                           \/ \E u \in U : d.l.tools[u].block = c
    <3>1. \A c \in DOMAIN bs : bs[c].open => \/ xo /\ c = x
                                             \/ ho /\ c = h
                                             \/ \E u \in T : e.l.tools[u].block = c
                                             \/ c = b
      BY <1>1, <2>1 DEF Current
    <3> QED BY <2>1, <3>1
  <2>6. \A u \in U : /\ d.l.tools[u].block \in DOMAIN bs
                     /\ bs[d.l.tools[u].block].kind = "tool_use" /\ bs[d.l.tools[u].block].open
    BY <2>1, <2>3
  <2>7. \A u, v \in U : d.l.tools[u].block = d.l.tools[v].block => u = v
    BY <2>1, <2>3, <2>4
  <2> QED BY <1>1, <2>1, <2>2, <2>5, <2>6, <2>7 DEF Current
<1> QED BY <1>1, <1>2, <1>4, <1>5 DEF Emits

-----------------------------------------------------------------------------
\* _emit_tool_arg_delta
LEMMA ArgumentIs ==
    ASSUME NEW e, NEW B, Emits(e, B, {}), NEW t \in Chat!StartedTools(e.l), NEW n \in Nat
    PROVE  Emits(Chat!Argument(e, t, n), B, {}) /\ t \in Chat!StartedTools(Chat!Argument(e, t, n).l)
<1> DEFINE tool == e.l.tools[t]
           b == tool.block
           p == [tool EXCEPT !.sent = tool.sent + n]
           w == [tool EXCEPT !.sent = Chat!Whole, !.buffer = 0]
           h == [tool EXCEPT !.buffer = tool.buffer + n]
           ep == [e EXCEPT !.l.tools[t] = p]
           ew == [e EXCEPT !.l.tools[t] = w]
           eh == [e EXCEPT !.l.tools[t] = h]
<1>1. e \in Emissions /\ t \in ChatTools /\ tool \in ToolStates /\ e.l.tools \in [ChatTools -> ToolStates]
  BY EmissionFields DEF Emits, Chat!StartedTools
<1>2. /\ p \in ToolStates /\ p.block = b
      /\ w \in ToolStates /\ w.block = b
      /\ h \in ToolStates /\ h.block = b
  <2>1. tool \in ToolStates /\ b = tool.block
    BY <1>1
  <2> HIDE DEF tool
  <2>2. p \in ToolStates /\ p.block = tool.block
    BY <2>1 DEF ToolStates
  <2>3. w \in ToolStates /\ w.block = tool.block
    BY <2>1 DEF ToolStates, Chat!Whole
  <2>4. h \in ToolStates /\ h.block = tool.block
    BY <2>1 DEF ToolStates
  <2> QED BY <2>1, <2>2, <2>3, <2>4
<1>3. ASSUME NEW k \in ToolStates, k.block = b
      PROVE  LET d == [e EXCEPT !.l.tools[t] = k]
             IN  /\ Emits(d, B, {}) /\ b \in DOMAIN d.l.blocks /\ d.l.blocks[b].open
                 /\ t \in Chat!StartedTools(d.l)
  <2> DEFINE d == [e EXCEPT !.l.tools[t] = k]
  <2>1. /\ d \in Emissions /\ SameMessage(d, e) /\ d.l.tools[t] = k
        /\ \A u \in ChatTools \ {t} : d.l.tools[u] = e.l.tools[u]
    BY <1>1, ToolIs
  <2>2. \A u \in ChatTools : d.l.tools[u].block = e.l.tools[u].block
    BY <1>3, <2>1
  <2> HIDE DEF d
  <2>3. Emits(d, B, {})
    BY <2>1, <2>2, ToolsStay
  <2>4. b \in DOMAIN e.l.blocks /\ e.l.blocks[b].open
    BY CurrentIs
  <2>5. t \in Chat!StartedTools(d.l)
    BY <1>1, <2>2 DEF Chat!StartedTools
  <2> QED BY <2>1, <2>3, <2>4, <2>5 DEF d, SameMessage
<1>4. [e EXCEPT !.l.tools[t].sent = @ + n] = ep
  OBVIOUS
<1>5. [e EXCEPT !.l.tools[t] = [@ EXCEPT !.sent = Chat!Whole, !.buffer = 0]] = ew
  OBVIOUS
<1>6. [e EXCEPT !.l.tools[t].buffer = @ + n] = eh
  OBVIOUS
<1>7. Chat!Argument(e, t, n) =
         IF n = 0 \/ tool.sent + tool.buffer = Chat!Whole THEN e
         ELSE IF ToolKind[t] = "plain" THEN Chat!Delta(ep, b)
         ELSE IF tool.buffer + n = Chat!Whole THEN Chat!Delta(ew, b)
         ELSE eh
  BY <1>4, <1>5, <1>6 DEF Chat!Argument
<1>8. /\ Emits(ep, B, {}) /\ b \in DOMAIN ep.l.blocks /\ ep.l.blocks[b].open
      /\ Emits(ew, B, {}) /\ b \in DOMAIN ew.l.blocks /\ ew.l.blocks[b].open
      /\ Emits(eh, B, {})
      /\ t \in Chat!StartedTools(ep.l) /\ t \in Chat!StartedTools(ew.l) /\ t \in Chat!StartedTools(eh.l)
  <2> HIDE DEF p, w, h, b
  <2> QED BY <1>2, <1>3
<1> HIDE DEF ep, ew, eh, b, tool
<1>9. /\ Emits(Chat!Delta(ep, b), B, {}) /\ Emits(Chat!Delta(ew, b), B, {})
      /\ Chat!Delta(ep, b).l = ep.l /\ Chat!Delta(ew, b).l = ew.l
  BY <1>8, DeltaIs
<1> QED BY <1>7, <1>8, <1>9

\* process_tool_call
LEMMA ToolCallIs ==
    ASSUME NEW B, gen \in Nat, Agree(streamed, B, gen), Current(streamed, {}),
           NEW t \in ChatTools, NEW named \in BOOLEAN, NEW n \in Nat
    PROVE  Emits(Chat!ToolCall(t, named, n), B, {})
<1> DEFINE e == Chat!CloseContent(Chat!Emission(streamed))
           tool == e.l.tools[t]
           name == tool.named \/ named
           a == Chat!StartBlock(e, "tool_use")
           b == Len(a.l.blocks)
           k == [a.l.tools[t] EXCEPT !.named = TRUE, !.pre = 0, !.block = b]
           d == [a EXCEPT !.l.tools[t] = k]
           r == [tool EXCEPT !.pre = tool.pre + n]
           f == [e EXCEPT !.l.tools[t] = r]
           begun == IF tool.block = 0 /\ name THEN Chat!Argument(d, t, tool.pre) ELSE e
<1>1. Emits(e, B, {})
  BY EmissionIs, CloseContentIs
<1>2. e \in Emissions /\ tool \in ToolStates /\ tool.pre \in Nat /\ tool.block \in Nat
  <2>1. e \in Emissions /\ e.l.tools \in [ChatTools -> ToolStates]
    BY <1>1, EmissionFields DEF Emits
  <2>2. tool \in ToolStates
    BY <2>1
  <2> HIDE DEF e
  <2> QED BY <2>1, <2>2 DEF ToolStates
<1>3. [a EXCEPT !.l.tools[t] = [@ EXCEPT !.named = TRUE, !.pre = 0, !.block = b]] = d
  <2> HIDE DEF a
  <2> QED OBVIOUS
<1>4. [e EXCEPT !.l.tools[t].pre = @ + n] = f
  OBVIOUS
<1>5. Chat!ToolCall(t, named, n) = IF name THEN Chat!Argument(begun, t, n) ELSE f
  BY <1>3, <1>4 DEF Chat!ToolCall
<1>6. Emits(f, B, {})
  <2>1. r \in ToolStates /\ r.block = tool.block
    BY <1>2 DEF ToolStates
  <2> HIDE DEF r, e
  <2>2. /\ f \in Emissions /\ SameMessage(f, e) /\ f.l.tools[t] = r
        /\ \A u \in ChatTools \ {t} : f.l.tools[u] = e.l.tools[u]
    BY <1>2, <2>1, ToolIs
  <2>3. \A u \in ChatTools : f.l.tools[u].block = e.l.tools[u].block
    BY <2>1, <2>2
  <2> QED BY <1>1, <2>2, <2>3, ToolsStay
<1>7. ASSUME tool.block = 0 PROVE Emits(Chat!Argument(d, t, tool.pre), B, {})
                                  /\ t \in Chat!StartedTools(Chat!Argument(d, t, tool.pre).l)
  <2> HIDE DEF e
  <2>1. /\ Emits(a, B, IF "tool_use" = "tool_use" THEN {} \union {b} ELSE {})
        /\ b \in DOMAIN a.l.blocks /\ a.l.blocks[b].open /\ a.l.blocks[b].kind = "tool_use"
        /\ a.l.tools = e.l.tools /\ b \in Nat \ {0}
    BY <1>1, StartIs
  <2>2. Emits(a, B, {b})
    BY <2>1
  <2> HIDE DEF a, b
  <2>3. k \in ToolStates /\ k.block = b
    BY <1>2, <2>1 DEF ToolStates
  <2> HIDE DEF k
  <2>4. /\ d \in Emissions /\ SameMessage(d, a) /\ d.l.tools[t] = k
        /\ \A u \in ChatTools \ {t} : d.l.tools[u] = a.l.tools[u]
    BY <2>2, <2>3, ToolIs DEF Emits
  <2> HIDE DEF d
  <2>5. Emits(d, B, {}) /\ t \in Chat!StartedTools(d.l)
    BY <1>7, <2>1, <2>2, <2>3, <2>4, BlockIsTaken
  <2>6. Emits(Chat!Argument(d, t, tool.pre), B, {})
    BY <1>2, <2>5, ArgumentIs
  <2>7. t \in Chat!StartedTools(Chat!Argument(d, t, tool.pre).l)
    BY <1>2, <2>5, ArgumentIs
  <2> QED BY <2>6, <2>7
<1>8. tool.block # 0 => t \in Chat!StartedTools(e.l)
  BY DEF Chat!StartedTools
<1> HIDE DEF e, d, f, tool
<1>9. name => Emits(begun, B, {}) /\ t \in Chat!StartedTools(begun.l)
  BY <1>1, <1>7, <1>8
<1> HIDE DEF begun, name
<1>10. name => Emits(Chat!Argument(begun, t, n), B, {})
  BY <1>9, ArgumentIs
<1> QED BY <1>5, <1>6, <1>10

\* iter_heuristic_tool_use_sse
LEMMA HeuristicToolIs ==
    ASSUME NEW B, gen \in Nat, Agree(streamed, B, gen), Current(streamed, {})
    PROVE  LET e == Chat!StartBlock(Chat!CloseContent(Chat!Emission(streamed)), "tool_use")
               b == Len(e.l.blocks)
           IN  Emits(Chat!StopBlock(Chat!Delta(e, b), b), B, {})
<1> DEFINE c == Chat!CloseContent(Chat!Emission(streamed))
           e == Chat!StartBlock(c, "tool_use")
           b == Len(e.l.blocks)
           d == Chat!Delta(e, b)
<1>1. Emits(c, B, {})
  BY EmissionIs, CloseContentIs
<1> HIDE DEF c
<1>2. /\ Emits(e, B, IF "tool_use" = "tool_use" THEN {} \union {b} ELSE {})
      /\ b \in DOMAIN e.l.blocks /\ e.l.blocks[b].open /\ e.l.tools = c.l.tools
      /\ \A t \in Chat!StartedTools(c.l) : c.l.tools[t].block # b
  BY <1>1, StartIs
<1>3. Emits(e, B, {b})
  BY <1>2
<1> HIDE DEF e, b
<1>4. Emits(d, B, {b}) /\ d.l = e.l
  BY <1>2, <1>3, DeltaIs
<1> HIDE DEF d
<1>5. b \in DOMAIN d.l.blocks /\ d.l.blocks[b].open /\ \A t \in Chat!StartedTools(d.l) : d.l.tools[t].block # b
  BY <1>2, <1>4 DEF Chat!StartedTools
<1>6. Emits(Chat!StopBlock(d, b), B, {b} \ {b})
  BY <1>4, <1>5, StopIs
<1>7. {b} \ {b} = {}
  OBVIOUS
<1> QED BY <1>6, <1>7 DEF d, b, e, c

\* A delta of the current text, or thinking.
LEMMA TextIs ==
    ASSUME NEW e, NEW B, Emits(e, B, {})
    PROVE  LET a == Chat!EnsureText(e) IN /\ Emits(Chat!Delta(a, a.l.text), B, {})
                                          /\ Chat!Delta(a, a.l.text).l.tools = e.l.tools
                                          /\ Chat!Delta(a, a.l.text).l.blocks # <<>>
<1> DEFINE a == Chat!EnsureText(e)
<1>1. /\ Emits(a, B, {}) /\ a.l.text \in DOMAIN a.l.blocks
      /\ a.l.blocks[a.l.text].open /\ a.l.tools = e.l.tools
  BY EnsureTextIs
<1> HIDE DEF a
<1>2. Emits(Chat!Delta(a, a.l.text), B, {}) /\ Chat!Delta(a, a.l.text).l = a.l
  BY <1>1, DeltaIs
<1>3. a.l.blocks # <<>>
  BY <1>1
<1> QED BY <1>1, <1>2, <1>3 DEF a

LEMMA ThinkingIs ==
    ASSUME NEW e, NEW B, Emits(e, B, {})
    PROVE  LET a == Chat!EnsureThinking(e) IN /\ Emits(Chat!Delta(a, a.l.thinking), B, {})
                                              /\ Chat!Delta(a, a.l.thinking).l.tools = e.l.tools
                                              /\ Chat!Delta(a, a.l.thinking).l.blocks # <<>>
<1> DEFINE a == Chat!EnsureThinking(e)
<1>1. /\ Emits(a, B, {}) /\ a.l.thinking \in DOMAIN a.l.blocks
      /\ a.l.blocks[a.l.thinking].open /\ a.l.tools = e.l.tools
  BY EnsureThinkingIs
<1> HIDE DEF a
<1>2. Emits(Chat!Delta(a, a.l.thinking), B, {}) /\ Chat!Delta(a, a.l.thinking).l = a.l
  BY <1>1, DeltaIs
<1>3. a.l.blocks # <<>>
  BY <1>1
<1> QED BY <1>1, <1>2, <1>3 DEF a

LEMMA RemainingIs ==
    ASSUME NEW e, NEW B, Emits(e, B, {}), NEW held \in BOOLEAN
    PROVE  Emits(Chat!Remaining(e, held), B, {}) /\ Chat!Remaining(e, held).l.blocks # <<>>
<1>1. CASE held \/ ~\E b \in DOMAIN e.l.blocks : e.l.blocks[b].kind # "thinking"
  BY <1>1, TextIs DEF Chat!Remaining
<1>2. CASE ~(held \/ ~\E b \in DOMAIN e.l.blocks : e.l.blocks[b].kind # "thinking")
  <2>1. Chat!Remaining(e, held) = e
    BY <1>2 DEF Chat!Remaining
  <2>2. e.l.blocks # <<>>
    BY <1>2
  <2> QED BY <2>1, <2>2
<1> QED BY <1>1, <1>2

\* flush_tool_argument_alias_buffers and flush_task_arg_buffers
LEMMA FlushedIs ==
    ASSUME Chat!ChatAssumption, NEW e, NEW B, Emits(e, B, {})
    PROVE  Emits(Chat!Flushed(e), B, {}) /\ Chat!Flushed(e).l.blocks = e.l.blocks
<1> DEFINE T == {t \in Chat!StartedTools(e.l) : e.l.tools[t].buffer # 0}
           order == Chat!SetToSeq(T)
           k(i) == e.l.tools[order[i]].block
           f == [t \in ChatTools |-> IF t \in T THEN [e.l.tools[t] EXCEPT !.buffer = 0] ELSE e.l.tools[t]]
           n == [e.l EXCEPT !.tools = f]
           x(i) == Chat!Event("delta", k(i), e.l.blocks[k(i)].kind)
           D == [i \in DOMAIN order |-> x(i)]
           z == Chat!Flushed(e)
<1>1. /\ e \in Emissions /\ e.l \in Ledgers /\ e.ev \in Seq(ChatEvents) /\ B \in Seq(ChatEvents)
      /\ gen \in Nat /\ Agree(e.l, B \o e.ev, gen) /\ e.l.tools \in [ChatTools -> ToolStates]
  BY EmissionFields DEF Emits
<1>2. z = [l |-> n, ev |-> e.ev \o D]
  BY DEF Chat!Flushed
<1>3. OrderOf(order, T) /\ IsFiniteSet(T)
  <2>1. IsFiniteSet(T)
    BY FS_Subset, ChatSets DEF Chat!StartedTools, Chat!ChatAssumption
  <2> QED BY <2>1, SetToSeqIs
<1>4. f \in [ChatTools -> ToolStates] /\ \A u \in ChatTools : f[u].block = e.l.tools[u].block
  <2>1. ASSUME NEW u \in ChatTools
        PROVE  [e.l.tools[u] EXCEPT !.buffer = 0] \in ToolStates
               /\ [e.l.tools[u] EXCEPT !.buffer = 0].block = e.l.tools[u].block
    <3>1. e.l.tools[u] \in ToolStates
      BY <1>1
    <3> DEFINE q == e.l.tools[u]
    <3> HIDE DEF q
    <3>2. q \in ToolStates => [q EXCEPT !.buffer = 0] \in ToolStates
                              /\ [q EXCEPT !.buffer = 0].block = q.block
      BY DEF ToolStates
    <3> QED BY <3>1, <3>2 DEF q
  <2> HIDE DEF T
  <2> QED BY <1>1, <2>1
<1> HIDE DEF T, order, f, z
<1>5. /\ n \in Ledgers /\ n.tools = f /\ n.blocks = e.l.blocks
      /\ n.text = e.l.text /\ n.textOn = e.l.textOn
      /\ n.thinking = e.l.thinking /\ n.thinkingOn = e.l.thinkingOn
  BY <1>1, <1>4 DEF Ledgers
<1> HIDE DEF n
<1>6. DOMAIN order = 1 .. Cardinality(T) /\ Cardinality(T) \in Nat
      /\ \A i \in DOMAIN order : /\ k(i) \in DOMAIN e.l.blocks /\ e.l.blocks[k(i)].open
  <2>1. \A i \in DOMAIN order : order[i] \in Chat!StartedTools(e.l)
    BY <1>3 DEF OrderOf, T
  <2>2. \A t \in Chat!StartedTools(e.l) :
           e.l.tools[t].block \in DOMAIN e.l.blocks /\ e.l.blocks[e.l.tools[t].block].open
    BY CurrentIs
  <2> QED BY <1>3, <2>1, <2>2, FS_CardinalityType DEF OrderOf
<1>7. \A i \in DOMAIN order : x(i) \in ChatEvents /\ x(i).gen = gen /\ Is(x(i), "delta", k(i))
  <2>1. SUFFICES ASSUME NEW i \in DOMAIN order
                 PROVE  x(i) \in ChatEvents /\ x(i).gen = gen /\ Is(x(i), "delta", k(i))
    OBVIOUS
  <2>2. k(i) \in Nat /\ e.l.blocks[k(i)].kind \in {"thinking", "text", "tool_use", "message"}
    BY <1>1, <1>6, BlocksAre
  <2> QED BY <1>1, <2>2, ChatEvent DEF BlockTypes
<1> HIDE DEF x
<1>8. D \in Seq(ChatEvents) /\ DOMAIN D = DOMAIN order
  <2>1. D = [i \in 1 .. Cardinality(T) |-> x(i)]
    BY <1>6
  <2> QED BY <1>6, <1>7, <2>1, IsASeq
<1>9. \A i \in DOMAIN D : /\ D[i].gen = gen /\ D[i].type = "delta" /\ D[i].block \in DOMAIN e.l.blocks
                          /\ e.l.blocks[D[i].block].open
  BY <1>6, <1>7 DEF Is
<1> HIDE DEF D
<1>10. Agree(e.l, (B \o e.ev) \o D, gen)
  <2> DEFINE l == e.l
             S == B \o e.ev
  <2>1. /\ l \in Ledgers /\ Agree(l, S, gen)
        /\ \A i \in DOMAIN D : /\ D[i].gen = gen /\ D[i].type = "delta" /\ D[i].block \in DOMAIN l.blocks
                               /\ l.blocks[D[i].block].open
    BY <1>1, <1>9
  <2> HIDE DEF l, S
  <2>2. Agree(l, S \o D, gen)
    BY <1>8, <2>1, AgreesWithDeltas
  <2> QED BY <2>2 DEF l, S
<1>11. B \o (e.ev \o D) = (B \o e.ev) \o D /\ e.ev \o D \in Seq(ChatEvents)
  BY <1>1, <1>8, EventsBehind
<1> DEFINE m == [l |-> e.l, ev |-> e.ev \o D]
<1>12. Emits(m, B, {})
  <2>1. m \in Emissions /\ m.l = e.l /\ m.ev = e.ev \o D
    BY <1>1, <1>11 DEF Emissions
  <2> HIDE DEF m
  <2> QED BY <1>1, <1>10, <1>11, <2>1 DEF Emits
<1>13. z \in Emissions /\ SameMessage(z, m) /\ \A u \in ChatTools : z.l.tools[u].block = m.l.tools[u].block
  <2>1. z.l = n /\ z.ev = e.ev \o D /\ m.l = e.l /\ m.ev = e.ev \o D
    BY <1>2
  <2>2. z \in Emissions
    BY <1>2, <1>5, <1>11 DEF Emissions
  <2> QED BY <1>4, <1>5, <2>1, <2>2 DEF SameMessage
<1> HIDE DEF m
<1>14. Emits(z, B, {})
  BY <1>12, <1>13, ToolsStay
<1> QED BY <1>2, <1>5, <1>14 DEF z

-----------------------------------------------------------------------------
\* What was said, to the client or to the buffer.
Said == out \o holdback.held

ChatTypes ==
    /\ runnerPc \in {"start", "open", "reading", "finish", "recover", "final", "done", "raised"}
    /\ tried \in Nat /\ gen \in Nat /\ chunks \in Nat /\ finish \in BOOLEAN
    /\ streamed \in Ledgers /\ out \in Seq(ChatEvents)
    /\ holdback \in [held : Seq(ChatEvents), committed : BOOLEAN]
    /\ salvage \in [events : Seq(ChatEvents), on : BOOLEAN]

\* The client has everything that was said, or nothing of it.
AllOrNothing == /\ holdback.committed => holdback.held = <<>>
                /\ ~holdback.committed => out = <<>>

ChatInv ==
    /\ ChatTypes
    /\ AllOrNothing
    /\ runnerPc = "start" => streamed = Chat!NewLedger /\ out = <<>> /\ holdback.held = <<>>
    /\ runnerPc \in {"open", "reading", "finish", "recover", "final"} =>
                Current(streamed, {}) /\ Agree(streamed, Said, gen)
    /\ runnerPc \in {"start", "open", "reading", "finish"} => salvage.events = <<>>
    /\ runnerPc = "recover" => Agree(streamed, Said \o salvage.events, gen)
    /\ runnerPc = "finish" => finish
    /\ runnerPc = "done" => /\ Ended(streamed, out, gen) /\ streamed.blocks # <<>>
                            /\ finish \/ \A t \in Chat!StartedTools(streamed) : streamed.tools[t].sent = Chat!Whole
    /\ runnerPc = "raised" => out = <<>> \/ (Agree(streamed, out, gen) /\ AllClosed(streamed))

LEMMA BufferIs ==
    ASSUME ChatTypes
    PROVE  /\ holdback.held \in Seq(ChatEvents) /\ holdback.committed \in BOOLEAN
           /\ out \in Seq(ChatEvents) /\ Said \in Seq(ChatEvents)
<1>1. holdback.held \in Seq(ChatEvents) /\ holdback.committed \in BOOLEAN /\ out \in Seq(ChatEvents)
  BY DEF ChatTypes
<1> DEFINE h == holdback.held
<1>2. h \in Seq(ChatEvents) /\ Said = out \o h
  BY <1>1 DEF Said
<1> HIDE DEF h
<1>3. Said \in Seq(ChatEvents)
  BY <1>1, <1>2, ConcatProperties
<1> QED BY <1>1, <1>3

\* flush
LEMMA ReleaseIs ==
    ASSUME ChatTypes, NEW ev \in Seq(ChatEvents), Chat!Release(ev)
    PROVE  /\ out' = Said \o ev /\ Said' = Said \o ev /\ AllOrNothing'
           /\ out' \in Seq(ChatEvents)
           /\ holdback' \in [held : Seq(ChatEvents), committed : BOOLEAN]
<1>1. out' = Said \o ev /\ holdback' = [held |-> <<>>, committed |-> TRUE]
  BY DEF Chat!Release, Said
<1>2. Said \in Seq(ChatEvents)
  BY BufferIs
<1> DEFINE S == Said \o ev
<1>3. S \in Seq(ChatEvents)
  BY <1>2, ConcatProperties
<1>4. out' = S
  BY <1>1
<1> HIDE DEF S
<1>5. Said' = S
  <2>1. S \o <<>> = S
    BY <1>3, ConcatEmptySeq
  <2> QED BY <1>1, <1>4, <2>1 DEF Said
<1>6. holdback' \in [held : Seq(ChatEvents), committed : BOOLEAN]
  BY <1>1, EmptySeq
<1>7. AllOrNothing'
  BY <1>1 DEF AllOrNothing
<1> QED BY <1>3, <1>4, <1>5, <1>6, <1>7 DEF S

\* push
LEMMA HoldIs ==
    ASSUME ChatTypes, AllOrNothing, NEW ev \in Seq(ChatEvents), Chat!Hold(ev)
    PROVE  /\ Said' = Said \o ev /\ AllOrNothing' /\ out' \in Seq(ChatEvents)
           /\ holdback' \in [held : Seq(ChatEvents), committed : BOOLEAN]
<1> DEFINE h == holdback.held
           o == out
<1>1. /\ h \in Seq(ChatEvents) /\ o \in Seq(ChatEvents) /\ Said \in Seq(ChatEvents) /\ Said = o \o h
      /\ holdback.committed \in BOOLEAN
      /\ holdback = [held |-> h, committed |-> holdback.committed]
  BY BufferIs DEF Said, ChatTypes
<1>2. CASE holdback.committed
  <2>1. out' = o \o ev /\ holdback' = holdback /\ h = <<>>
    BY <1>2 DEF Chat!Hold, AllOrNothing
  <2> HIDE DEF o
  <2>2. o \o <<>> = o
    BY <1>1, ConcatEmptySeq
  <2> DEFINE S == o \o ev
  <2>3. S \in Seq(ChatEvents) /\ S \o <<>> = S /\ Said = o
    <3>1. S \in Seq(ChatEvents)
      BY <1>1, ConcatProperties
    <3> HIDE DEF S
    <3> QED BY <1>1, <2>1, <2>2, <3>1, ConcatEmptySeq
  <2>4. Said' = S
    <3>1. out' = S /\ holdback'.held = <<>>
      BY <2>1
    <3> HIDE DEF S
    <3> QED BY <2>3, <3>1 DEF Said
  <2>5. AllOrNothing'
    BY <1>2, <2>1 DEF AllOrNothing
  <2>6. holdback' \in [held : Seq(ChatEvents), committed : BOOLEAN]
    BY <2>1 DEF ChatTypes
  <2> QED BY <2>1, <2>3, <2>4, <2>5, <2>6
<1>3. CASE ~holdback.committed
  <2>1. \/ holdback' = [holdback EXCEPT !.held = h \o ev] /\ out' = o
        \/ Chat!Release(ev)
    BY <1>3 DEF Chat!Hold, Chat!Release
  <2>2. CASE Chat!Release(ev)
    BY <2>2, ReleaseIs
  <2>3. CASE holdback' = [holdback EXCEPT !.held = h \o ev] /\ out' = o
    <3>1. o = <<>>
      BY <1>3 DEF AllOrNothing
    <3> HIDE DEF h, o
    <3> DEFINE S == h \o ev
    <3>2. S \in Seq(ChatEvents) /\ o \o S = (o \o h) \o ev
      BY <1>1, ConcatProperties, ConcatAssociative
    <3>3. holdback' = [held |-> S, committed |-> FALSE]
      BY <1>1, <1>3, <2>3
    <3>4. Said' = Said \o ev
      BY <1>1, <2>3, <3>2, <3>3 DEF Said
    <3> HIDE DEF S
    <3>5. AllOrNothing'
      BY <2>3, <3>1, <3>3 DEF AllOrNothing
    <3>6. holdback' \in [held : Seq(ChatEvents), committed : BOOLEAN]
      <4>1. S \in Seq(ChatEvents)
        BY <3>2
      <4> QED BY <3>3, <4>1
    <3>7. out' \in Seq(ChatEvents)
      BY <1>1, <2>3
    <3> QED BY <3>4, <3>5, <3>6, <3>7
  <2> QED BY <2>1, <2>2, <2>3
<1> QED BY <1>2, <1>3

\* An emission of what was said goes to the buffer, or behind it.
LEMMA PutIs ==
    ASSUME ChatTypes, AllOrNothing, NEW e, Emits(e, Said, {}), Chat!Put(e)
    PROVE  /\ streamed' \in Ledgers /\ Current(streamed', {}) /\ Agree(streamed', Said', gen)
           /\ AllOrNothing' /\ out' \in Seq(ChatEvents)
           /\ holdback' \in [held : Seq(ChatEvents), committed : BOOLEAN]
<1>1. /\ e.l \in Ledgers /\ e.ev \in Seq(ChatEvents) /\ Agree(e.l, Said \o e.ev, gen) /\ Current(e.l, {})
  BY EmissionFields DEF Emits
<1>2. streamed' = e.l /\ Chat!Hold(e.ev)
  BY DEF Chat!Put
<1> DEFINE v == e.ev
           l == e.l
<1>3. /\ l \in Ledgers /\ v \in Seq(ChatEvents) /\ Agree(l, Said \o v, gen) /\ Current(l, {})
      /\ streamed' = l /\ Chat!Hold(v)
  BY <1>1, <1>2
<1> HIDE DEF v, l
<1>4. /\ Said' = Said \o v /\ AllOrNothing' /\ out' \in Seq(ChatEvents)
      /\ holdback' \in [held : Seq(ChatEvents), committed : BOOLEAN]
  BY <1>3, HoldIs
<1> QED BY <1>3, <1>4

\* The step of a stream that is read.
LEMMA ReadingIs ==
    ASSUME ChatInv, Chat!Reading, NEW e, Emits(e, Said, {}), Chat!Put(e),
           UNCHANGED <<runnerPc, tried, gen, finish, salvage>>
    PROVE  ChatInv'
<1>1. ChatTypes /\ AllOrNothing /\ runnerPc = "reading" /\ salvage.events = <<>>
  BY DEF ChatInv, Chat!Reading
<1>2. /\ streamed' \in Ledgers /\ Current(streamed', {}) /\ Agree(streamed', Said', gen)
      /\ AllOrNothing' /\ out' \in Seq(ChatEvents)
      /\ holdback' \in [held : Seq(ChatEvents), committed : BOOLEAN]
  BY <1>1, PutIs
<1>3. ChatTypes'
  <2>1. chunks' \in Nat
    BY <1>1 DEF Chat!Reading, ChatTypes
  <2> QED BY <1>1, <1>2, <2>1 DEF ChatTypes
<1> QED BY <1>1, <1>2, <1>3 DEF ChatInv

\* The event that begins a message.
LEMMA FirstIs ==
    ASSUME gen \in Nat, NEW l \in Ledgers, l.blocks = <<>>, l.textOn = FALSE, l.thinkingOn = FALSE,
           Chat!StartedTools(l) = {}
    PROVE  LET e == Chat!Mark(Chat!Emission(l), "message_start")
           IN  /\ e.l = l /\ e.ev \in Seq(ChatEvents) /\ Current(l, {})
               /\ Agree(l, <<>> \o e.ev, gen)
<1> DEFINE e == Chat!Mark(Chat!Emission(l), "message_start")
           x == Chat!Event("message_start", 0, "message")
           S == <<x>>
<1>1. x \in ChatEvents /\ x.gen = gen /\ x.type = "message_start" /\ x.block = 0
  <2>1. x \in ChatEvents /\ x.gen = gen /\ Is(x, "message_start", 0)
    BY ChatEvent
  <2> HIDE DEF x
  <2> QED BY <2>1 DEF Is
<1>2. e.l = l /\ e.ev = Append(<<>>, x)
  BY DEF Chat!Mark, Chat!Emission
<1> HIDE DEF x
<1>3. Append(<<>>, x) = S /\ S \in Seq(ChatEvents) /\ DOMAIN S = {1} /\ S[1] = x
  BY <1>1
<1> HIDE DEF S
<1>4. <<>> \o S = S
  BY <1>3, ConcatEmptySeq
<1>5. Current(l, {})
  BY DEF Current
<1>6. S # <<>>
  BY <1>3
<1>7. Agree(l, S, gen)
  BY <1>1, <1>3, <1>6 DEF Agree, BlockTypes
<1> QED BY <1>2, <1>3, <1>4, <1>5, <1>7

LEMMA NewLedgerIs ==
    /\ Chat!NewLedger \in Ledgers /\ Chat!StartedTools(Chat!NewLedger) = {}
    /\ Chat!NewLedger.blocks = <<>> /\ Chat!NewLedger.textOn = FALSE /\ Chat!NewLedger.thinkingOn = FALSE
    /\ \A started \in BOOLEAN :
          LET l == [Chat!NewLedger EXCEPT !.started = started]
          IN  /\ l \in Ledgers /\ Chat!StartedTools(l) = {}
              /\ l.blocks = <<>> /\ l.textOn = FALSE /\ l.thinkingOn = FALSE
<1> DEFINE f == [t \in ChatTools |-> Chat!NewTool]
<1>1. f \in [ChatTools -> ToolStates] /\ \A t \in ChatTools : f[t].block = 0
  BY DEF Chat!NewTool, ToolStates
<1>2. Chat!NewLedger = [blocks |-> <<>>, text |-> 0, textOn |-> FALSE, thinking |-> 0,
                        thinkingOn |-> FALSE, tools |-> f, started |-> FALSE]
  BY DEF Chat!NewLedger
<1> HIDE DEF f
<1>3. <<>> \in Seq(ChatBlocks)
  BY EmptySeq
<1>4. Chat!NewLedger \in Ledgers /\ Chat!NewLedger.tools = f
  BY <1>1, <1>2, <1>3 DEF Ledgers
<1>5. Chat!StartedTools(Chat!NewLedger) = {}
  BY <1>1, <1>4 DEF Chat!StartedTools
<1>6. ASSUME NEW started \in BOOLEAN
      PROVE  LET l == [Chat!NewLedger EXCEPT !.started = started]
             IN  /\ l \in Ledgers /\ Chat!StartedTools(l) = {}
                 /\ l.blocks = <<>> /\ l.textOn = FALSE /\ l.thinkingOn = FALSE
  <2> DEFINE l == [Chat!NewLedger EXCEPT !.started = started]
  <2>1. l \in Ledgers /\ l.tools = f /\ l.blocks = <<>> /\ l.textOn = FALSE /\ l.thinkingOn = FALSE
    BY <1>2, <1>4 DEF Ledgers
  <2> HIDE DEF l
  <2>2. Chat!StartedTools(l) = {}
    BY <1>1, <2>1 DEF Chat!StartedTools
  <2> QED BY <2>1, <2>2 DEF l
<1> QED BY <1>2, <1>4, <1>5, <1>6

\* A message that is ended, behind what was said and the events B.
LEMMA EndsWell ==
    ASSUME ChatTypes, NEW e \in Emissions, Chat!Release(e.ev), streamed' = e.l, gen' = gen,
           Ended(e.l, Said \o e.ev, gen), e.l.blocks # <<>>, runnerPc' = "done",
           finish \/ \A t \in Chat!StartedTools(e.l) : e.l.tools[t].sent = Chat!Whole,
           UNCHANGED <<chunks, finish, salvage>>, tried' \in Nat
    PROVE  ChatInv'
<1> DEFINE v == e.ev
           l == e.l
<1>1. /\ l \in Ledgers /\ v \in Seq(ChatEvents) /\ Chat!Release(v) /\ streamed' = l
      /\ Ended(l, Said \o v, gen) /\ l.blocks # <<>>
      /\ finish \/ \A t \in Chat!StartedTools(l) : l.tools[t].sent = Chat!Whole
  BY EmissionFields
<1> HIDE DEF v, l
<1>2. /\ out' = Said \o v /\ AllOrNothing' /\ out' \in Seq(ChatEvents)
      /\ holdback' \in [held : Seq(ChatEvents), committed : BOOLEAN]
  BY <1>1, ReleaseIs
<1>3. ChatTypes'
  BY <1>1, <1>2 DEF ChatTypes
<1>4. Ended(streamed', out', gen') /\ streamed'.blocks # <<>>
  BY <1>1, <1>2
<1>5. finish' \/ \A t \in Chat!StartedTools(streamed') : streamed'.tools[t].sent = Chat!Whole
  BY <1>1
<1> QED BY <1>2, <1>3, <1>4, <1>5 DEF ChatInv

-----------------------------------------------------------------------------
LEMMA ChatInit == ASSUME Chat!Init PROVE ChatInv
<1>1. Chat!NewLedger \in Ledgers
  BY NewLedgerIs
<1>2. ChatTypes
  BY <1>1, EmptySeq DEF Chat!Init, ChatTypes
<1> QED BY <1>2 DEF ChatInv, AllOrNothing, Chat!Init

LEMMA StartKeeps == ASSUME ChatInv, Chat!Start PROVE ChatInv'
<1> DEFINE l == [streamed EXCEPT !.started = TRUE]
           e == Chat!Mark(Chat!Emission(l), "message_start")
           v == e.ev
<1>1. /\ ChatTypes /\ AllOrNothing /\ streamed = Chat!NewLedger /\ out = <<>> /\ holdback.held = <<>>
      /\ salvage.events = <<>> /\ gen \in Nat
  BY DEF ChatInv, Chat!Start, ChatTypes
<1>2. l \in Ledgers /\ Chat!StartedTools(l) = {} /\ l.blocks = <<>> /\ l.textOn = FALSE /\ l.thinkingOn = FALSE
  BY <1>1, NewLedgerIs
<1>3. Chat!Put(e) /\ runnerPc' = "open" /\ chunks' = 0 /\ finish' = FALSE /\ UNCHANGED <<tried, gen, salvage>>
  BY DEF Chat!Start
<1> HIDE DEF l
<1>4. e.l = l /\ v \in Seq(ChatEvents) /\ Current(l, {}) /\ Agree(l, <<>> \o v, gen)
  BY <1>1, <1>2, FirstIs
<1>5. streamed' = l /\ Chat!Hold(v)
  BY <1>3, <1>4 DEF Chat!Put
<1> HIDE DEF e, v
<1>6. /\ Said' = Said \o v /\ AllOrNothing' /\ out' \in Seq(ChatEvents)
      /\ holdback' \in [held : Seq(ChatEvents), committed : BOOLEAN]
  BY <1>1, <1>4, <1>5, HoldIs
<1>7. Said = <<>>
  BY <1>1, EmptySeq, ConcatEmptySeq DEF Said
<1>8. Agree(streamed', Said', gen') /\ Current(streamed', {})
  BY <1>3, <1>4, <1>5, <1>6, <1>7
<1>9. ChatTypes'
  BY <1>1, <1>2, <1>3, <1>5, <1>6 DEF ChatTypes
<1> QED BY <1>1, <1>3, <1>6, <1>8, <1>9 DEF ChatInv

LEMMA OpenKeeps == ASSUME ChatInv, Chat!Open PROVE ChatInv'
<1>1. ChatTypes'
  BY DEF ChatInv, ChatTypes, Chat!Open
<1>2. Said' = Said /\ AllOrNothing'
  BY DEF Chat!Open, Said, ChatInv, AllOrNothing
<1> QED BY <1>1, <1>2 DEF ChatInv, Chat!Open

LEMMA ReasoningKeeps == ASSUME ChatInv, Chat!Reasoning PROVE ChatInv'
<1> DEFINE a == Chat!EnsureThinking(Chat!Emission(streamed))
           e == Chat!Delta(a, a.l.thinking)
<1>1. Chat!Reading /\ Chat!Put(e) /\ UNCHANGED <<runnerPc, tried, gen, finish, salvage>>
  BY DEF Chat!Reasoning
<1>2. gen \in Nat /\ Agree(streamed, Said, gen) /\ Current(streamed, {})
  BY <1>1 DEF ChatInv, ChatTypes, Chat!Reading
<1>3. Emits(e, Said, {})
  BY <1>2, EmissionIs, ThinkingIs
<1> HIDE DEF e
<1> QED BY <1>1, <1>3, ReadingIs

LEMMA TextKeeps == ASSUME ChatInv, Chat!Text PROVE ChatInv'
<1> DEFINE a == Chat!EnsureText(Chat!Emission(streamed))
           e == Chat!Delta(a, a.l.text)
<1>1. Chat!Reading /\ Chat!Put(e) /\ UNCHANGED <<runnerPc, tried, gen, finish, salvage>>
  BY DEF Chat!Text
<1>2. gen \in Nat /\ Agree(streamed, Said, gen) /\ Current(streamed, {})
  BY <1>1 DEF ChatInv, ChatTypes, Chat!Reading
<1>3. Emits(e, Said, {})
  BY <1>2, EmissionIs, TextIs
<1> HIDE DEF e
<1> QED BY <1>1, <1>3, ReadingIs

LEMMA HeuristicToolKeeps == ASSUME ChatInv, Chat!HeuristicTool PROVE ChatInv'
<1> DEFINE a == Chat!StartBlock(Chat!CloseContent(Chat!Emission(streamed)), "tool_use")
           b == Len(a.l.blocks)
           e == Chat!StopBlock(Chat!Delta(a, b), b)
<1>1. Chat!Reading /\ Chat!Put(e) /\ UNCHANGED <<runnerPc, tried, gen, finish, salvage>>
  BY DEF Chat!HeuristicTool
<1>2. gen \in Nat /\ Agree(streamed, Said, gen) /\ Current(streamed, {})
  BY <1>1 DEF ChatInv, ChatTypes, Chat!Reading
<1>3. Emits(e, Said, {})
  BY <1>2, HeuristicToolIs
<1> HIDE DEF e
<1> QED BY <1>1, <1>3, ReadingIs

LEMMA ToolChunkKeeps == ASSUME ChatInv, Chat!ToolChunk PROVE ChatInv'
<1>1. PICK t \in ChatTools, named \in BOOLEAN, n \in 0 .. 1 : Chat!Put(Chat!ToolCall(t, named, n))
  BY DEF Chat!ToolChunk
<1> DEFINE e == Chat!ToolCall(t, named, n)
<1>2. Chat!Reading /\ Chat!Put(e) /\ UNCHANGED <<runnerPc, tried, gen, finish, salvage>>
  BY <1>1 DEF Chat!ToolChunk
<1>3. gen \in Nat /\ Agree(streamed, Said, gen) /\ Current(streamed, {}) /\ n \in Nat
  BY <1>2 DEF ChatInv, ChatTypes, Chat!Reading
<1>4. Emits(e, Said, {})
  BY <1>3, ToolCallIs
<1> HIDE DEF e
<1> QED BY <1>2, <1>4, ReadingIs

LEMMA FinishChunkKeeps == ASSUME ChatInv, Chat!FinishChunk PROVE ChatInv'
<1>1. ChatTypes'
  BY DEF ChatInv, ChatTypes, Chat!FinishChunk, Chat!Reading
<1>2. Said' = Said /\ AllOrNothing'
  BY DEF Chat!FinishChunk, Said, ChatInv, AllOrNothing
<1> QED BY <1>1, <1>2 DEF ChatInv, Chat!FinishChunk, Chat!Reading

LEMMA StreamFailsKeeps == ASSUME ChatInv, Chat!StreamFails PROVE ChatInv'
<1>1. ChatTypes /\ AllOrNothing /\ runnerPc = "reading" /\ salvage.events = <<>>
      /\ Current(streamed, {}) /\ Agree(streamed, Said, gen)
  BY DEF ChatInv, Chat!StreamFails
<1>2. CASE Chat!MayReplay /\ Chat!Replay
  <2>1. /\ gen' = gen + 1 /\ streamed' = Chat!NewLedger /\ runnerPc' = "start" /\ salvage' = salvage
        /\ holdback' = [held |-> <<>>, committed |-> FALSE]
        /\ UNCHANGED <<tried, chunks, finish, out>> /\ ~holdback.committed
    BY <1>2 DEF Chat!StreamFails, Chat!Replay, Chat!MayReplay
  <2>2. ChatTypes'
    BY <1>1, <2>1, NewLedgerIs, EmptySeq DEF ChatTypes
  <2>3. out = <<>> /\ AllOrNothing'
    BY <1>1, <2>1 DEF AllOrNothing
  <2> QED BY <1>1, <2>1, <2>2, <2>3 DEF ChatInv
<1>3. CASE ~(Chat!MayReplay /\ Chat!Replay)
  <2>1. /\ runnerPc' \in {"recover", "final"}
        /\ UNCHANGED <<gen, streamed, holdback, salvage, tried, chunks, finish, out>>
    BY <1>3 DEF Chat!StreamFails
  <2>2. ChatTypes' /\ AllOrNothing' /\ Said' = Said
    BY <1>1, <2>1 DEF ChatTypes, AllOrNothing, Said
  <2>3. Said \o salvage.events = Said
    BY <1>1, BufferIs, ConcatEmptySeq
  <2>4. Agree(streamed', Said' \o salvage'.events, gen') /\ Agree(streamed', Said', gen')
        /\ Current(streamed', {})
    BY <1>1, <2>1, <2>2, <2>3
  <2> QED BY <2>1, <2>2, <2>4 DEF ChatInv
<1> QED BY <1>2, <1>3

LEMMA StreamEndsKeeps == ASSUME ChatInv, Chat!StreamEnds PROVE ChatInv'
<1>1. ChatTypes'
  BY DEF ChatInv, ChatTypes, Chat!StreamEnds
<1>2. Said' = Said /\ AllOrNothing'
  BY DEF Chat!StreamEnds, Said, ChatInv, AllOrNothing
<1> QED BY <1>1, <1>2 DEF ChatInv, Chat!StreamEnds

LEMMA RescueKeeps == ASSUME Chat!ChatAssumption, ChatInv, Chat!Rescue PROVE ChatInv'
<1> DEFINE d == [Chat!Emission(streamed) EXCEPT !.ev = salvage.events]
           e == Chat!Ending(d)
<1>1. /\ ChatTypes /\ Chat!Complete(streamed) /\ streamed' = e.l /\ Chat!Release(e.ev) /\ runnerPc' = "done"
      /\ UNCHANGED <<tried, gen, chunks, finish, salvage>>
      /\ tried \in Nat /\ gen \in Nat /\ salvage.events \in Seq(ChatEvents)
      /\ Current(streamed, {}) /\ Agree(streamed, Said \o salvage.events, gen)
  BY DEF Chat!Rescue, ChatInv, ChatTypes
<1>2. d = [l |-> streamed, ev |-> salvage.events] /\ d \in Emissions
  BY <1>1 DEF Chat!Emission, Emissions, ChatTypes
<1> HIDE DEF d
<1>3. Emits(d, Said, {})
  <2>1. d.l = streamed /\ d.ev = salvage.events
    BY <1>2
  <2> QED BY <1>1, <1>2, <2>1, BufferIs DEF Emits
<1>4. /\ e \in Emissions /\ Ended(e.l, Said \o e.ev, gen) /\ e.l.tools = d.l.tools
      /\ DOMAIN e.l.blocks = DOMAIN d.l.blocks
  BY <1>3, EndingIs
<1>5. d.l = streamed
  BY <1>2
<1> HIDE DEF e
<1>6. e.l.blocks # <<>>
  BY <1>1, <1>4, <1>5 DEF Chat!Complete, Chat!HasTool
<1>7. \A t \in Chat!StartedTools(e.l) : e.l.tools[t].sent = Chat!Whole
  BY <1>1, <1>4, <1>5 DEF Chat!Complete, Chat!StartedTools
<1> QED BY <1>1, <1>4, <1>6, <1>7, EndsWell

LEMMA RepairKeeps == ASSUME ChatInv, Chat!Repair PROVE ChatInv'
<1>1. /\ ChatTypes /\ AllOrNothing /\ runnerPc = "recover" /\ gen \in Nat /\ streamed \in Ledgers
      /\ salvage.events \in Seq(ChatEvents) /\ Current(streamed, {}) /\ Agree(streamed, Said, gen)
      /\ Agree(streamed, Said \o salvage.events, gen)
      /\ tried' \in Nat /\ UNCHANGED <<runnerPc, gen, chunks, finish, holdback, out>>
  <2>1. runnerPc = "recover" /\ tried' = tried + 1 /\ UNCHANGED <<runnerPc, gen, chunks, finish, holdback, out>>
    BY DEF Chat!Repair
  <2>2. ChatTypes
    BY DEF ChatInv
  <2>3. tried' \in Nat /\ gen \in Nat /\ streamed \in Ledgers /\ salvage.events \in Seq(ChatEvents)
    BY <2>1, <2>2 DEF ChatTypes
  <2> QED BY <2>1, <2>2, <2>3 DEF ChatInv
<1>2. Said' = Said /\ AllOrNothing'
  BY <1>1 DEF Said, AllOrNothing
<1>3. CASE UNCHANGED <<streamed, salvage>>
  <2>1. ChatTypes'
    BY <1>1, <1>3 DEF ChatTypes
  <2> QED BY <1>1, <1>2, <1>3, <2>1 DEF ChatInv
<1>4. CASE ~UNCHANGED <<streamed, salvage>>
  <2> DEFINE E0 == Chat!Emission(streamed)
             k(t) == [E0.l.tools[t] EXCEPT !.sent = Chat!Whole, !.raw = ToolKind[t] # "plain"]
             d(t) == [E0 EXCEPT !.l.tools[t] = k(t)]
             b(t) == streamed.tools[t].block
  <2>1. PICK t \in Chat!Incomplete(streamed) :
           /\ streamed' = Chat!Delta(d(t), b(t)).l
           /\ salvage' = [on |-> TRUE, events |-> salvage.events \o Chat!Delta(d(t), b(t)).ev]
    BY <1>4 DEF Chat!Repair
  <2> DEFINE f == d(t)
             S == Said \o salvage.events
             sv == salvage.events
  <2>2. t \in ChatTools /\ t \in Chat!StartedTools(streamed) /\ streamed.tools \in [ChatTools -> ToolStates]
    BY <1>1, <2>1 DEF Chat!Incomplete, Chat!StartedTools, Ledgers
  <2>3. /\ Emits(E0, Said, {}) /\ Emits(E0, S, {}) /\ E0.l = streamed /\ E0.ev = <<>>
        /\ E0 \in Emissions
    BY <1>1, EmissionIs DEF Emits
  <2>4. k(t) \in ToolStates /\ k(t).block = b(t)
    <3> DEFINE tool == streamed.tools[t]
    <3>1. tool \in ToolStates /\ k(t) = [tool EXCEPT !.sent = Chat!Whole, !.raw = ToolKind[t] # "plain"]
      BY <2>2, <2>3
    <3> HIDE DEF tool
    <3>2. [tool EXCEPT !.sent = Chat!Whole, !.raw = ToolKind[t] # "plain"] \in ToolStates
          /\ [tool EXCEPT !.sent = Chat!Whole, !.raw = ToolKind[t] # "plain"].block = tool.block
      BY <3>1 DEF ToolStates, Chat!Whole
    <3> HIDE DEF k
    <3> QED BY <3>1, <3>2 DEF tool
  <2> HIDE DEF E0, S, k
  <2>5. /\ f \in Emissions /\ SameMessage(f, E0) /\ f.l.tools[t] = k(t)
        /\ \A u \in ChatTools \ {t} : f.l.tools[u] = E0.l.tools[u]
    BY <2>2, <2>3, <2>4, ToolIs
  <2>6. \A u \in ChatTools : f.l.tools[u].block = E0.l.tools[u].block
    BY <2>3, <2>4, <2>5
  <2> HIDE DEF d
  <2>7. Emits(f, Said, {}) /\ Emits(f, S, {})
    BY <2>3, <2>5, <2>6, ToolsStay
  <2>8. b(t) \in DOMAIN f.l.blocks /\ f.l.blocks[b(t)].open
    <3>1. t \in Chat!StartedTools(f.l) /\ f.l.tools[t].block = b(t)
      BY <2>2, <2>3, <2>6 DEF Chat!StartedTools
    <3> QED BY <2>7, <3>1, CurrentIs
  <2> DEFINE e == Chat!Delta(f, b(t))
             v == e.ev
  <2>9. Emits(e, S, {}) /\ e.l = f.l
    BY <2>7, <2>8, DeltaIs
  <2>10. Agree(f.l, Said, gen)
    <3>1. Agree(f.l, Said \o f.ev, gen) /\ f.ev = <<>> /\ Said \in Seq(ChatEvents)
      BY <2>3, <2>5, <2>7 DEF Emits, SameMessage
    <3>2. Said \o <<>> = Said
      BY <3>1, ConcatEmptySeq
    <3> QED BY <3>1, <3>2
  <2>11. /\ v \in Seq(ChatEvents) /\ Agree(f.l, S \o v, gen) /\ Current(f.l, {}) /\ f.l \in Ledgers
    BY <2>5, <2>9, EmissionFields DEF Emits
  <2>12. streamed' = f.l /\ salvage' = [on |-> TRUE, events |-> sv \o v]
    BY <2>1, <2>9
  <2> HIDE DEF e, v, f, sv
  <2>13. sv \in Seq(ChatEvents) /\ S = Said \o sv /\ Said \in Seq(ChatEvents)
    BY <1>1, BufferIs DEF sv, S
  <2>14. S \o v = Said \o (sv \o v) /\ sv \o v \in Seq(ChatEvents)
    BY <2>11, <2>13, ConcatAssociative, ConcatProperties
  <2>15. ChatTypes'
    <3> DEFINE w == sv \o v
    <3>1. w \in Seq(ChatEvents) /\ salvage' = [on |-> TRUE, events |-> w]
      BY <2>12, <2>14
    <3> HIDE DEF w
    <3>2. salvage' \in [events : Seq(ChatEvents), on : BOOLEAN]
      BY <3>1
    <3> QED BY <1>1, <2>11, <2>12, <3>2 DEF ChatTypes
  <2>16. Agree(streamed', Said' \o salvage'.events, gen')
    BY <1>1, <1>2, <2>11, <2>12, <2>14
  <2>17. Agree(streamed', Said', gen') /\ Current(streamed', {})
    BY <1>1, <1>2, <2>10, <2>11, <2>12
  <2> QED BY <1>1, <1>2, <2>15, <2>16, <2>17 DEF ChatInv
<1> QED BY <1>3, <1>4

LEMMA SomeBlocks == ASSUME NEW s \in Seq(ChatBlocks), s # <<>> PROVE DOMAIN s # {}
<1>1. Len(s) \in Nat /\ DOMAIN s = 1 .. Len(s)
  BY LenProperties
<1>2. Len(s) # 0
  BY EmptySeq
<1>3. 1 \in DOMAIN s
  BY <1>1, <1>2
<1> QED BY <1>3

\* A part of the continuation: thinking, then text.
LEMMA PartIs ==
    ASSUME NEW E0, NEW B, Emits(E0, B, {}), NEW part \in (SUBSET {"thinking", "text"}) \ {{}}
    PROVE  LET a == Chat!EnsureThinking(E0)
               b == IF "thinking" \in part THEN Chat!Delta(a, a.l.thinking) ELSE E0
               c == Chat!EnsureText(b)
               f == IF "text" \in part THEN Chat!Delta(c, c.l.text) ELSE b
           IN  Emits(f, B, {}) /\ f.l.tools = E0.l.tools /\ f.l.blocks # <<>>
<1> DEFINE a == Chat!EnsureThinking(E0)
           b == IF "thinking" \in part THEN Chat!Delta(a, a.l.thinking) ELSE E0
           c == Chat!EnsureText(b)
           f == IF "text" \in part THEN Chat!Delta(c, c.l.text) ELSE b
<1>1. Emits(b, B, {}) /\ b.l.tools = E0.l.tools /\ ("thinking" \in part => b.l.blocks # <<>>)
  BY ThinkingIs
<1> HIDE DEF b
<1>2. /\ Emits(Chat!Delta(c, c.l.text), B, {}) /\ Chat!Delta(c, c.l.text).l.tools = b.l.tools
      /\ Chat!Delta(c, c.l.text).l.blocks # <<>>
  BY <1>1, TextIs
<1>3. "text" \notin part => "thinking" \in part
  <2>1. part \in SUBSET {"thinking", "text"} /\ part \notin {{}}
    OBVIOUS
  <2>2. part # {}
    BY <2>1
  <2>3. PICK x \in part : TRUE
    BY <2>2
  <2>4. x \in {"thinking", "text"}
    BY <2>1
  <2> QED BY <2>3, <2>4
<1> HIDE DEF c
<1>4. Emits(f, B, {}) /\ f.l.tools = E0.l.tools /\ f.l.blocks # <<>>
  BY <1>1, <1>2, <1>3
<1> HIDE DEF f
<1> QED BY <1>4 DEF f, c, b, a

LEMMA ContinueKeeps == ASSUME Chat!ChatAssumption, ChatInv, Chat!Continue PROVE ChatInv'
<1>1. /\ runnerPc = "recover" /\ tried' = tried + 1 /\ ~Chat!HasTool(streamed)
      /\ UNCHANGED <<gen, chunks, finish, salvage>>
  BY DEF Chat!Continue
<1>2. /\ ChatTypes /\ AllOrNothing /\ Current(streamed, {}) /\ Agree(streamed, Said, gen)
      /\ Agree(streamed, Said \o salvage.events, gen)
  BY <1>1 DEF ChatInv
<1>3. tried' \in Nat /\ gen \in Nat
  BY <1>1, <1>2 DEF ChatTypes
<1>4. CASE UNCHANGED <<runnerPc, streamed, holdback, out>>
  <2>1. ChatTypes' /\ AllOrNothing' /\ Said' = Said
    BY <1>1, <1>2, <1>3, <1>4 DEF ChatTypes, AllOrNothing, Said
  <2> QED BY <1>1, <1>2, <1>4, <2>1 DEF ChatInv
<1>5. CASE ~UNCHANGED <<runnerPc, streamed, holdback, out>>
  <2> DEFINE E0 == Chat!Emission(streamed)
             a == Chat!EnsureThinking(E0)
             b(part) == IF "thinking" \in part THEN Chat!Delta(a, a.l.thinking) ELSE E0
             c(part) == Chat!EnsureText(b(part))
             f(part) == IF "text" \in part THEN Chat!Delta(c(part), c(part).l.text) ELSE b(part)
  <2>1. PICK part \in (SUBSET {"thinking", "text"}) \ {{}} :
           LET e == Chat!Ending(f(part)) IN streamed' = e.l /\ Chat!Release(e.ev) /\ runnerPc' = "done"
    BY <1>5 DEF Chat!Continue
  <2>2. Emits(E0, Said, {}) /\ E0.l = streamed
    BY <1>2, <1>3, EmissionIs
  <2> DEFINE g == f(part)
             e == Chat!Ending(g)
  <2>3. Emits(g, Said, {}) /\ g.l.tools = streamed.tools /\ g.l.blocks # <<>>
    BY <2>2, PartIs
  <2>4. streamed' = e.l /\ Chat!Release(e.ev) /\ runnerPc' = "done"
    BY <2>1
  <2> HIDE DEF g
  <2>5. /\ e \in Emissions /\ Ended(e.l, Said \o e.ev, gen) /\ e.l.tools = streamed.tools
        /\ DOMAIN e.l.blocks = DOMAIN g.l.blocks
    BY <2>3, EndingIs
  <2> HIDE DEF e
  <2>6. e.l.blocks # <<>>
    <3>1. g.l.blocks \in Seq(ChatBlocks)
      BY <2>3, EmissionFields, BlocksAre DEF Emits
    <3>2. DOMAIN g.l.blocks # {}
      BY <2>3, <3>1, SomeBlocks
    <3> QED BY <2>5, <3>2
  <2>7. Chat!StartedTools(e.l) = {}
    <3>1. Chat!StartedTools(streamed) = {}
      BY <1>1, <1>2 DEF Current, Chat!HasTool
    <3> QED BY <2>5, <3>1 DEF Chat!StartedTools
  <2> QED BY <1>1, <1>2, <1>3, <2>4, <2>5, <2>6, <2>7, EndsWell
<1> QED BY <1>4, <1>5

LEMMA GiveUpKeeps == ASSUME ChatInv, Chat!GiveUp PROVE ChatInv'
<1>1. ChatTypes'
  BY DEF ChatInv, ChatTypes, Chat!GiveUp
<1>2. Said' = Said /\ AllOrNothing'
  BY DEF Chat!GiveUp, Said, ChatInv, AllOrNothing
<1> QED BY <1>1, <1>2 DEF ChatInv, Chat!GiveUp

LEMMA RaiseKeeps == ASSUME ChatInv, Chat!Raise PROVE ChatInv'
<1>1. /\ ChatTypes /\ AllOrNothing /\ runnerPc = "final" /\ Current(streamed, {}) /\ Agree(streamed, Said, gen)
      /\ runnerPc' = "raised" /\ UNCHANGED <<tried, gen, chunks, finish, salvage>>
  BY DEF ChatInv, Chat!Raise
<1> DEFINE e == Chat!CloseUnclosed(Chat!Emission(streamed))
<1>2. CASE holdback.committed \/ (Chat!Salvageable /\ ~salvage.on)
  <2>1. streamed' = e.l /\ Chat!Release(e.ev)
    BY <1>2 DEF Chat!Raise
  <2>2. gen \in Nat
    BY <1>1 DEF ChatTypes
  <2>3. e \in Emissions /\ Agree(e.l, Said \o e.ev, gen) /\ AllClosed(e.l)
    BY <1>1, <2>2, EmissionIs, CloseUnclosedIs
  <2> HIDE DEF e
  <2> DEFINE v == e.ev
             l == e.l
  <2>4. v \in Seq(ChatEvents) /\ l \in Ledgers /\ Chat!Release(v) /\ streamed' = l /\ Agree(l, Said \o v, gen)
        /\ AllClosed(l)
    BY <2>1, <2>3, EmissionFields
  <2> HIDE DEF v, l
  <2>5. /\ out' = Said \o v /\ AllOrNothing' /\ out' \in Seq(ChatEvents)
        /\ holdback' \in [held : Seq(ChatEvents), committed : BOOLEAN]
    BY <1>1, <2>4, ReleaseIs
  <2>6. ChatTypes'
    BY <1>1, <2>4, <2>5 DEF ChatTypes
  <2>7. Agree(streamed', out', gen') /\ AllClosed(streamed')
    BY <1>1, <2>4, <2>5
  <2> QED BY <1>1, <2>5, <2>6, <2>7 DEF ChatInv
<1>3. CASE ~(holdback.committed \/ (Chat!Salvageable /\ ~salvage.on))
  <2>1. /\ holdback' = [holdback EXCEPT !.held = <<>>] /\ UNCHANGED <<streamed, out>>
        /\ ~holdback.committed
    BY <1>3 DEF Chat!Raise
  <2>2. out = <<>> /\ holdback' \in [held : Seq(ChatEvents), committed : BOOLEAN] /\ AllOrNothing'
    BY <1>1, <2>1, EmptySeq DEF AllOrNothing, ChatTypes
  <2>3. ChatTypes'
    BY <1>1, <2>1, <2>2 DEF ChatTypes
  <2> QED BY <1>1, <2>1, <2>2, <2>3 DEF ChatInv
<1> QED BY <1>2, <1>3

LEMMA FinishKeeps == ASSUME Chat!ChatAssumption, ChatInv, Chat!Finish PROVE ChatInv'
<1>1. /\ ChatTypes /\ AllOrNothing /\ runnerPc = "finish" /\ finish /\ Current(streamed, {})
      /\ Agree(streamed, Said, gen) /\ runnerPc' = "done" /\ UNCHANGED <<tried, gen, chunks, finish, salvage>>
  BY DEF ChatInv, Chat!Finish
<1>2. PICK held \in BOOLEAN :
         LET e == Chat!Ending(Chat!Flushed(Chat!Remaining(Chat!Emission(streamed), held)))
         IN  streamed' = e.l /\ Chat!Release(e.ev)
  BY DEF Chat!Finish
<1> DEFINE r == Chat!Remaining(Chat!Emission(streamed), held)
           f == Chat!Flushed(r)
           e == Chat!Ending(f)
<1>3. gen \in Nat /\ tried' \in Nat
  BY <1>1 DEF ChatTypes
<1>4. Emits(r, Said, {}) /\ r.l.blocks # <<>>
  BY <1>1, <1>3, EmissionIs, RemainingIs
<1> HIDE DEF r
<1>5. Emits(f, Said, {}) /\ f.l.blocks # <<>>
  BY <1>4, FlushedIs
<1> HIDE DEF f
<1>6. e \in Emissions /\ Ended(e.l, Said \o e.ev, gen) /\ DOMAIN e.l.blocks = DOMAIN f.l.blocks
  BY <1>5, EndingIs
<1>7. streamed' = e.l /\ Chat!Release(e.ev)
  BY <1>2 DEF f, r
<1> HIDE DEF e
<1>8. e.l.blocks # <<>>
  <2>1. f.l.blocks \in Seq(ChatBlocks)
    BY <1>5, EmissionFields, BlocksAre DEF Emits
  <2>2. DOMAIN f.l.blocks # {}
    BY <1>5, <2>1, SomeBlocks
  <2> QED BY <1>6, <2>2
<1> QED BY <1>1, <1>3, <1>6, <1>7, <1>8, EndsWell

LEMMA ChatNext == ASSUME Chat!ChatAssumption, ChatInv, [Chat!Next]_Chat!vars PROVE ChatInv'
<1>1. CASE Chat!Next
  BY <1>1, StartKeeps, OpenKeeps, ReasoningKeeps, TextKeeps, HeuristicToolKeeps, ToolChunkKeeps,
     FinishChunkKeeps, StreamFailsKeeps, StreamEndsKeeps, RescueKeeps, RepairKeeps, ContinueKeeps,
     GiveUpKeeps, RaiseKeeps, FinishKeeps DEF Chat!Next
<1>2. CASE UNCHANGED Chat!vars
  <2>1. ChatTypes' /\ AllOrNothing' /\ Said' = Said
    BY <1>2 DEF Chat!vars, ChatInv, ChatTypes, AllOrNothing, Said
  <2> QED BY <1>2, <2>1 DEF Chat!vars, ChatInv
<1> QED BY <1>1, <1>2

-----------------------------------------------------------------------------
\* What the client was sent of a message that goes on is all that was said, or nothing.
LEMMA ChunksSentIs ==
    ASSUME ChatInv
    PROVE  \/ out = <<>> /\ runnerPc # "done"
           \/ Agree(streamed, out, gen) /\ runnerPc # "done" /\ (runnerPc = "raised" => AllClosed(streamed))
           \/ Ended(streamed, out, gen) /\ runnerPc = "done"
<1>1. ChatTypes /\ AllOrNothing
  BY DEF ChatInv
<1>2. CASE runnerPc = "start" \/ runnerPc = "raised" \/ runnerPc = "done"
  BY <1>2 DEF ChatInv
<1>3. CASE runnerPc \in {"open", "reading", "finish", "recover", "final"}
  <2>1. CASE holdback.committed
    <3>1. holdback.held = <<>> /\ Agree(streamed, Said, gen)
      BY <1>1, <1>3, <2>1 DEF ChatInv, AllOrNothing
    <3>2. out \o <<>> = out
      BY BufferIs, <1>1, ConcatEmptySeq
    <3> QED BY <1>3, <3>1, <3>2 DEF Said
  <2>2. CASE ~holdback.committed
    BY <1>1, <1>3, <2>2 DEF AllOrNothing
  <2> QED BY <2>1, <2>2
<1> QED BY <1>1, <1>2, <1>3 DEF ChatTypes

LEMMA EndedIs ==
    ASSUME NEW l \in Ledgers, NEW S, NEW g, Ended(l, S, g)
    PROVE  /\ \A i \in DOMAIN S : S[i].gen = g
           /\ AllClosed(l)
           /\ \E n \in DOMAIN S, F \in Seq(ChatEvents) :
                 /\ n = Len(S) /\ Is(S[n], "message_stop", 0) /\ S[n] \in ChatEvents
                 /\ \A i \in DOMAIN S : i = n \/ i \in DOMAIN F
                 /\ \A i \in DOMAIN F : i \in DOMAIN S /\ i < n /\ S[i] = F[i]
                 /\ Agree(l, F, g)
           /\ S \in Seq(ChatEvents)
<1>1. PICK F \in Seq(ChatEvents), x \in ChatEvents :
         /\ S = F \o <<x>> /\ Is(x, "message_stop", 0) /\ x.gen = g
         /\ Agree(l, F, g) /\ AllClosed(l)
  BY DEF Ended
<1> DEFINE n == Len(F) + 1
<1>2. /\ Append(F, x) = S /\ S \in Seq(ChatEvents) /\ Len(F) \in Nat
      /\ Len(S) = n /\ S[n] = x /\ \A i \in 1 .. Len(F) : S[i] = F[i]
  <2>1. Append(F, x) = S
    BY <1>1, AppendIsConcat
  <2>2. /\ Append(F, x) \in Seq(ChatEvents) /\ Len(Append(F, x)) = Len(F) + 1
        /\ Append(F, x)[Len(F) + 1] = x
        /\ \A i \in 1 .. Len(F) : Append(F, x)[i] = F[i]
    BY <1>1, AppendProperties
  <2>3. Len(F) \in Nat
    BY <1>1, LenProperties
  <2> QED BY <2>1, <2>2, <2>3
<1>3. DOMAIN S = 1 .. n /\ DOMAIN F = 1 .. Len(F)
  BY <1>1, <1>2, LenProperties
<1>4. n \in DOMAIN S /\ (\A i \in DOMAIN S : i = n \/ i \in DOMAIN F)
      /\ \A i \in DOMAIN F : i \in DOMAIN S /\ i < n /\ S[i] = F[i]
  BY <1>2, <1>3
<1>5. \A i \in DOMAIN S : S[i].gen = g
  BY <1>1, <1>2, <1>4 DEF Agree
<1> HIDE DEF n
<1> QED BY <1>1, <1>2, <1>4, <1>5

\* The events of a replay are those of its ledger.
LEMMA ReplaysAreInvisible == ASSUME ChatInv PROVE Chat!ReplayIsInvisible
<1>1. streamed \in Ledgers
  BY DEF ChatInv, ChatTypes
<1>2. CASE out = <<>>
  BY <1>2 DEF Chat!ReplayIsInvisible
<1>3. CASE Agree(streamed, out, gen)
  BY <1>3 DEF Agree, Chat!ReplayIsInvisible
<1>4. CASE Ended(streamed, out, gen)
  BY <1>1, <1>4, EndedIs DEF Chat!ReplayIsInvisible
<1> QED BY <1>2, <1>3, <1>4, ChunksSentIs

\* A message that is salvaged is salvaged whole.
LEMMA SalvagesAreWhole == ASSUME ChatInv PROVE Chat!SalvagedToolsAreWhole
BY DEF ChatInv, Chat!SalvagedToolsAreWhole

\* The positions of a block's events, and what Shaped says of them.
EventsAt(T, type, b) == {i \in DOMAIN T : T[i].type = type /\ T[i].block = b}

LEMMA ShapeCounts ==
    ASSUME NEW b, NEW open \in BOOLEAN, NEW S, NEW T, DOMAIN S \subseteq DOMAIN T, DOMAIN S \subseteq Nat,
           Shaped(S, b, open), \A i \in DOMAIN S : T[i] = S[i],
           \A i \in DOMAIN T \ DOMAIN S : T[i].block # b
    PROVE  /\ Cardinality(EventsAt(T, "start", b)) = 1 /\ Cardinality(EventsAt(T, "stop", b)) \in {0, 1}
           /\ (~open => Cardinality(EventsAt(T, "stop", b)) = 1)
           /\ Chat!Before(EventsAt(T, "start", b), EventsAt(T, "delta", b))
           /\ Chat!Before(EventsAt(T, "delta", b), EventsAt(T, "stop", b))
<1> DEFINE P(type) == EventsAt(T, type, b)
           Q(type) == {i \in DOMAIN S : Is(S[i], type, b)}
<1>1. \A type : EventsAt(T, type, b) = Q(type)
  BY DEF Is, EventsAt
<1>2. PICK p \in DOMAIN S :
         /\ \A i \in DOMAIN S : Is(S[i], "start", b) <=> i = p
         /\ \A i \in DOMAIN S : Is(S[i], "delta", b) \/ Is(S[i], "stop", b) => p < i
         /\ open => \A i \in DOMAIN S : ~Is(S[i], "stop", b)
         /\ ~open => \E q \in DOMAIN S :
                        /\ \A i \in DOMAIN S : Is(S[i], "stop", b) <=> i = q
                        /\ \A i \in DOMAIN S : Is(S[i], "delta", b) => i < q
  BY DEF Shaped
<1>3. Q("start") = {p}
  BY <1>2
<1>4. Chat!Before(Q("start"), Q("delta"))
  BY <1>2, <1>3 DEF Chat!Before
<1>5. CASE open
  <2>1. Q("stop") = {}
    BY <1>2, <1>5
  <2> HIDE DEF Q
  <2> QED BY <1>1, <1>3, <1>4, <1>5, <2>1, FS_Singleton, FS_EmptySet DEF Chat!Before
<1>6. CASE ~open
  <2>1. PICK q \in DOMAIN S : /\ \A i \in DOMAIN S : Is(S[i], "stop", b) <=> i = q
                              /\ \A i \in DOMAIN S : Is(S[i], "delta", b) => i < q
    BY <1>2, <1>6
  <2>2. Q("stop") = {q} /\ Chat!Before(Q("delta"), Q("stop"))
    BY <2>1 DEF Chat!Before
  <2> HIDE DEF Q
  <2> QED BY <1>1, <1>3, <1>4, <1>6, <2>2, FS_Singleton
<1> QED BY <1>5, <1>6

\* The contract, for a message that goes on (S is all of T) or is over.
LEMMA ContractOf ==
    ASSUME NEW l \in Ledgers, NEW S, NEW T, NEW g, Agree(l, S, g),
           DOMAIN S \subseteq DOMAIN T, DOMAIN T \subseteq Nat, \A i \in DOMAIN S : T[i] = S[i],
           \A i \in DOMAIN T \ DOMAIN S : Is(T[i], "message_stop", 0),
           NEW b, \E i \in DOMAIN T : T[i].block = b, b # 0
    PROVE  /\ Cardinality(EventsAt(T, "start", b)) = 1 /\ Cardinality(EventsAt(T, "stop", b)) \in {0, 1}
           /\ (AllClosed(l) => Cardinality(EventsAt(T, "stop", b)) = 1)
           /\ Chat!Before(EventsAt(T, "start", b), EventsAt(T, "delta", b))
           /\ Chat!Before(EventsAt(T, "delta", b), EventsAt(T, "stop", b))
<1> DEFINE P(type) == EventsAt(T, type, b)
<1>1. b \in DOMAIN l.blocks
  BY DEF Agree, Is
<1>2. Shaped(S, b, l.blocks[b].open) /\ l.blocks[b].open \in BOOLEAN
  BY <1>1, BlocksAre DEF Agree
<1>3. \A i \in DOMAIN T \ DOMAIN S : T[i].block # b
  BY DEF Is
<1>4. DOMAIN S \subseteq Nat
  OBVIOUS
<1>5. ASSUME NEW open \in BOOLEAN, Shaped(S, b, open)
      PROVE  /\ Cardinality(P("start")) = 1 /\ Cardinality(P("stop")) \in {0, 1}
             /\ (open = FALSE => Cardinality(P("stop")) = 1)
             /\ Chat!Before(P("start"), P("delta")) /\ Chat!Before(P("delta"), P("stop"))
  BY <1>3, <1>4, <1>5, ShapeCounts
<1>6. AllClosed(l) => ~l.blocks[b].open
  BY <1>1 DEF AllClosed
<1> QED BY <1>2, <1>5, <1>6

LEMMA MessagesAreKept == ASSUME ChatInv PROVE Chat!ContractHolds
<1> DEFINE Blocks == {out[i].block : i \in DOMAIN out} \ {0}
           Over == runnerPc \in {"done", "raised"} /\ out # <<>>
           A1 == out # <<>> => out[1].type = "message_start"
           A2(b) == /\ Cardinality(Chat!At("start", b)) = 1 /\ Cardinality(Chat!At("stop", b)) <= 1
                    /\ Chat!Before(Chat!At("start", b), Chat!At("delta", b)) /\ Chat!Before(Chat!At("delta", b), Chat!At("stop", b))
                    /\ Over => Cardinality(Chat!At("stop", b)) = 1
           A3 == runnerPc = "done" => Blocks # {} /\ Chat!Last(out).type = "message_stop"
           A4 == Cardinality(Chat!At("message_stop", 0)) = (IF runnerPc = "done" THEN 1 ELSE 0)
<1>1. streamed \in Ledgers /\ out \in Seq(ChatEvents) /\ DOMAIN out \subseteq Nat
  <2>1. streamed \in Ledgers /\ out \in Seq(ChatEvents)
    BY DEF ChatInv, ChatTypes
  <2>2. DOMAIN out = 1 .. Len(out) /\ Len(out) \in Nat
    BY <2>1, LenProperties
  <2> QED BY <2>1, <2>2
<1>5. \A type, b : Chat!At(type, b) = EventsAt(out, type, b)
  BY DEF Chat!At, EventsAt
<1>2. CASE out = <<>> /\ runnerPc # "done"
  <2>1. Chat!At("message_stop", 0) = {} /\ Blocks = {}
    BY <1>2 DEF Chat!At
  <2>2. A1 /\ (\A b \in Blocks : A2(b)) /\ A3 /\ A4
    BY <1>2, <2>1, FS_EmptySet
  <2> HIDE DEF A1, A2, A3, A4
  <2> QED BY <2>2, ChatSets DEF Chat!ContractHolds, A1, A2, A3, A4
<1>3. CASE Agree(streamed, out, gen) /\ runnerPc # "done" /\ (runnerPc = "raised" => AllClosed(streamed))
  <2>1. A1 /\ A3
    BY <1>3 DEF Agree
  <2>2. ASSUME NEW b \in Blocks PROVE A2(b)
    <3>1. b # 0 /\ \E i \in DOMAIN out : out[i].block = b
      BY <2>2
    <3>2. /\ Cardinality(Chat!At("start", b)) = 1 /\ Cardinality(Chat!At("stop", b)) \in {0, 1}
          /\ (AllClosed(streamed) => Cardinality(Chat!At("stop", b)) = 1)
          /\ Chat!Before(Chat!At("start", b), Chat!At("delta", b)) /\ Chat!Before(Chat!At("delta", b), Chat!At("stop", b))
      BY <1>1, <1>3, <1>5, <3>1, ContractOf
    <3> QED BY <1>3, <3>2
  <2>3. Chat!At("message_stop", 0) = {}
    BY <1>3 DEF Chat!At, Agree
  <2>4. A4
    BY <1>3, <2>3, FS_EmptySet
  <2> HIDE DEF A1, A2, A3, A4
  <2>5. A1 /\ (\A b \in Blocks : A2(b)) /\ A3 /\ A4
    BY <2>1, <2>2, <2>4
  <2> QED BY <2>5, ChatSets DEF Chat!ContractHolds, A1, A2, A3, A4
<1>4. CASE Ended(streamed, out, gen) /\ runnerPc = "done"
  <2>1. PICK n \in DOMAIN out, F \in Seq(ChatEvents) :
           /\ n = Len(out) /\ Is(out[n], "message_stop", 0) /\ out[n] \in ChatEvents
           /\ \A i \in DOMAIN out : i = n \/ i \in DOMAIN F
           /\ \A i \in DOMAIN F : i \in DOMAIN out /\ i < n /\ out[i] = F[i]
           /\ Agree(streamed, F, gen)
    BY <1>1, <1>4, EndedIs
  <2>2. AllClosed(streamed)
    BY <1>1, <1>4, EndedIs
  <2>3. 1 \in DOMAIN F /\ F[1].type = "message_start"
        /\ \A i \in DOMAIN F : F[i].type # "message_stop"
    <3>1. F # <<>> /\ F[1].type = "message_start" /\ \A i \in DOMAIN F : F[i].type # "message_stop"
      BY <2>1 DEF Agree
    <3>2. Len(F) \in Nat /\ DOMAIN F = 1 .. Len(F) /\ Len(F) # 0
      BY <3>1, LenProperties, EmptySeq
    <3> QED BY <3>1, <3>2
  <2>4. A1
    BY <2>1, <2>3
  <2>5. ASSUME NEW b \in Blocks PROVE A2(b)
    <3>1. b # 0 /\ \E i \in DOMAIN out : out[i].block = b
      BY <2>5
    <3>2. \A i \in DOMAIN out \ DOMAIN F : Is(out[i], "message_stop", 0)
      BY <2>1
    <3>3. DOMAIN F \subseteq DOMAIN out /\ \A i \in DOMAIN F : out[i] = F[i]
      BY <2>1
    <3>4. /\ Cardinality(Chat!At("start", b)) = 1 /\ Cardinality(Chat!At("stop", b)) \in {0, 1}
          /\ (AllClosed(streamed) => Cardinality(Chat!At("stop", b)) = 1)
          /\ Chat!Before(Chat!At("start", b), Chat!At("delta", b)) /\ Chat!Before(Chat!At("delta", b), Chat!At("stop", b))
      BY <1>1, <2>1, <1>5, <3>1, <3>2, <3>3, ContractOf
    <3> QED BY <2>2, <3>4
  <2>6. Chat!At("message_stop", 0) = {n}
    BY <2>1, <2>3 DEF Chat!At, Is
  <2>7. A4
    BY <1>4, <2>6, FS_Singleton
  <2>8. Blocks # {}
    <3>1. streamed.blocks # <<>> /\ streamed.blocks \in Seq(ChatBlocks)
      BY <1>1, <1>4, BlocksAre DEF ChatInv
    <3>2. PICK b \in DOMAIN streamed.blocks : TRUE
      BY <3>1, SomeBlocks
    <3>3. b # 0 /\ Shaped(F, b, streamed.blocks[b].open)
      BY <1>1, <2>1, BlocksAre DEF Agree
    <3>4. PICK p \in DOMAIN F : Is(F[p], "start", b)
      BY <3>3 DEF Shaped
    <3>5. p \in DOMAIN out /\ out[p].block = b
      BY <2>1, <3>4 DEF Is
    <3> QED BY <3>3, <3>5
  <2>9. A3
    BY <2>1, <2>8 DEF Chat!Last, Is
  <2> HIDE DEF A1, A2, A3, A4
  <2>10. A1 /\ (\A b \in Blocks : A2(b)) /\ A3 /\ A4
    BY <2>4, <2>5, <2>7, <2>9
  <2> QED BY <2>10, ChatSets DEF Chat!ContractHolds, A1, A2, A3, A4
<1> QED BY <1>2, <1>3, <1>4, ChunksSentIs

-----------------------------------------------------------------------------
(* A relayed message: AnthropicRelay *)

-----------------------------------------------------------------------------
Corrected == {"betas", "history", "effort", "shape"}
Thinkings == {"absent", "disabled", "adaptive", "enabled"}
Plans == [betas : BOOLEAN, history : BOOLEAN, effort : BOOLEAN, thinking : Thinkings,
          budget : BOOLEAN, suppress : BOOLEAN, applied : SUBSET Corrected]

FrameTypes == {"message_start", "ping", "message_delta", "start", "delta", "stop", "message_stop"}
BlockKinds == {"thinking", "text"}
Frames == [type : FrameTypes, index : Nat, kind : BlockKinds \union {"none"}, attempt : Nat]

Relays == [pending : Seq(Frames), map : UNION {[D -> Nat] : D \in SUBSET Nat}, skipped : SUBSET Nat,
           next : Nat, committed : BOOLEAN, stopped : BOOLEAN]

Senders == [phase : {"silent", "content", "delta", "end"},
            blocks : Seq([open : BOOLEAN, kind : BlockKinds])]

RelayTypes ==
    /\ relayPc \in {"new", "open", "stream", "done", "failed"}
    /\ attempts \in Nat /\ plan \in Plans /\ rejected \in SUBSET Plans
    /\ sender \in Senders /\ relay \in Relays /\ accepted \in BOOLEAN
    /\ relayed \in Seq(Frames)

\* A plan of an execution differs from a request that was rejected: a feature was taken
\* out, which stays out, or the shape of thinking was changed, which is done once.
Differs(q, r) ==
    \/ r.betas /\ ~q.betas
    \/ r.history /\ ~q.history
    \/ r.effort /\ ~q.effort
    \/ r.thinking # q.thinking

CorrectionsCount ==
    /\ relayPc \in {"open", "stream"} => \A r \in rejected : Differs(plan, r)
    /\ "shape" \notin plan.applied => \A r \in rejected : r.thinking = plan.thinking
    /\ relayPc = "new" => rejected = {}

\* What was relayed of an attempt, and what is still held back.
Held == relay.pending

OfThisAttempt ==
    /\ \A i \in DOMAIN relayed : relayed[i].attempt = attempts
    /\ \A i \in DOMAIN Held : Held[i].attempt = attempts
    /\ relayPc \in {"new", "open"} => relayed = <<>> /\ Held = <<>>
    /\ relayPc = "stream" => accepted = relay.committed
    /\ relayed # <<>> => accepted
    /\ relayPc \in {"stream", "done"} => /\ relayed # <<>> => relay.committed
                                         /\ relay.committed => Held = <<>>
                                         /\ relay.stopped => relay.committed
    /\ relayPc = "done" => relay.committed
    /\ relayPc = "failed" => Held = <<>>

RelayInv == RelayTypes /\ CorrectionsCount /\ OfThisAttempt

-----------------------------------------------------------------------------
LEMMA HeadOfTwo ==
    ASSUME NEW S, NEW s \in Seq(S), NEW t \in Seq(S), s \o t # <<>>
    PROVE  /\ s # <<>> => Head(s \o t) = Head(s)
           /\ s = <<>> => s \o t = t
BY ConcatProperties, EmptySeq, LenProperties, HeadTailProperties

\* What a correction changes (request.py next_fallback_plan).
LEMMA CorrectionIs ==
    ASSUME NEW q \in Plans, NEW text, NEW n \in Relay!NextFallback(q, text)
    PROVE  \/ q.betas /\ n = [q EXCEPT !.betas = FALSE, !.applied = @ \union {"betas"}]
           \/ q.history /\ n = [q EXCEPT !.history = FALSE, !.applied = @ \union {"history"}]
           \/ q.effort /\ n = [q EXCEPT !.effort = FALSE, !.applied = @ \union {"effort"}]
           \/ /\ "shape" \notin q.applied /\ q.thinking \in {"adaptive", "enabled"}
              /\ n = [q EXCEPT !.thinking = Relay!Reshaped(q), !.applied = @ \union {"shape"}]
<1> DEFINE a == [q EXCEPT !.betas = FALSE, !.applied = @ \union {"betas"}]
           b == [q EXCEPT !.history = FALSE, !.applied = @ \union {"history"}]
           c == [q EXCEPT !.effort = FALSE, !.applied = @ \union {"effort"}]
           d == [q EXCEPT !.thinking = Relay!Reshaped(q), !.applied = @ \union {"shape"}]
           C1 == "betas" \notin q.applied /\ q.betas /\ "anthropic-beta" \in text
           C2 == "history" \notin q.applied /\ q.history /\ "signature" \in text
           C3 == "effort" \notin q.applied /\ q.effort /\ "effort" \in text
           C4 == /\ "shape" \notin q.applied /\ "thinking" \in text
                 /\ \/ q.thinking = "adaptive" /\ q.budget
                    \/ q.thinking = "enabled"
           A == IF C1 THEN <<a>> ELSE <<>>
           B == IF C2 THEN <<b>> ELSE <<>>
           C == IF C3 THEN <<c>> ELSE <<>>
           D == IF C4 THEN <<d>> ELSE <<>>
           S == {a, b, c, d}
<1>1. Relay!Corrections(q, text) = ((A \o B) \o C) \o D
  BY DEF Relay!Corrections
<1>2. Relay!Corrections(q, text) # <<>> /\ n = Head(Relay!Corrections(q, text))
  BY DEF Relay!NextFallback
<1> HIDE DEF a, b, c, d, C1, C2, C3, C4
<1>3. A \in Seq(S) /\ B \in Seq(S) /\ C \in Seq(S) /\ D \in Seq(S)
  <2>1. a \in S /\ b \in S /\ c \in S /\ d \in S
    OBVIOUS
  <2> HIDE DEF S
  <2>2. \A x \in S : <<x>> \in Seq(S)
    OBVIOUS
  <2> QED BY <2>1, <2>2, EmptySeq
<1>4. A \o B \in Seq(S) /\ (A \o B) \o C \in Seq(S)
  BY <1>3, ConcatProperties
<1> HIDE DEF S
<1>5. (A \o B) \o C # <<>> => n = Head((A \o B) \o C)
  BY <1>1, <1>2, <1>3, <1>4, HeadOfTwo
<1>6. (A \o B) \o C = <<>> => n = Head(D) /\ D # <<>>
  BY <1>1, <1>2, <1>3, <1>4, HeadOfTwo
<1>7. (A \o B) \o C # <<>> /\ A \o B # <<>> => n = Head(A \o B)
  BY <1>5, <1>3, <1>4, HeadOfTwo
<1>8. (A \o B) \o C # <<>> /\ A \o B = <<>> => n = Head(C) /\ C # <<>>
  BY <1>5, <1>3, <1>4, HeadOfTwo
<1>9. A \o B # <<>> => (A # <<>> /\ n = Head(A)) \/ (B # <<>> /\ n = Head(B))
  <2>1. HAVE A \o B # <<>>
  <2>2. (A \o B) \o C # <<>>
    BY <2>1, <1>3, <1>4, ConcatProperties, EmptySeq
  <2> QED BY <2>1, <2>2, <1>7, <1>3, HeadOfTwo
<1>10. \/ C1 /\ n = a
       \/ C2 /\ n = b
       \/ C3 /\ n = c
       \/ C4 /\ n = d
  BY <1>6, <1>8, <1>9
<1> QED BY <1>10 DEF C1, C2, C3, C4, a, b, c, d

-----------------------------------------------------------------------------
LEMMA CorrectedIsNew ==
    ASSUME NEW q \in Plans, NEW R \in SUBSET Plans, \A r \in R : Differs(q, r),
           "shape" \notin q.applied => \A r \in R : r.thinking = q.thinking,
           NEW text, NEW n \in Relay!NextFallback(q, text)
    PROVE  /\ n \in Plans
           /\ \A r \in R \union {Relay!Request(q)} : Differs(n, r)
           /\ "shape" \notin n.applied =>
                 \A r \in R \union {Relay!Request(q)} : r.thinking = n.thinking
<1> USE DEF Plans, Thinkings
<1>0. /\ \A x \in Corrected : q.applied \union {x} \in SUBSET Corrected
      /\ "betas" \in Corrected /\ "history" \in Corrected /\ "effort" \in Corrected
      /\ "shape" \in Corrected
  BY DEF Corrected
<1>1. /\ Relay!Request(q) \in Plans /\ Relay!Request(q).betas = q.betas /\ Relay!Request(q).history = q.history
      /\ Relay!Request(q).effort = q.effort /\ Relay!Request(q).thinking = q.thinking
  BY DEF Relay!Request
<1>2. Relay!Reshaped(q) \in Thinkings /\ Relay!Reshaped(q) # q.thinking
  BY DEF Relay!Reshaped
<1>3. CASE q.betas /\ n = [q EXCEPT !.betas = FALSE, !.applied = @ \union {"betas"}]
  <2>1. /\ n \in Plans /\ n.applied = q.applied \union {"betas"} /\ n.betas = FALSE
        /\ n.history = q.history /\ n.effort = q.effort /\ n.thinking = q.thinking
    BY <1>0, <1>3
  <2>2. Differs(n, Relay!Request(q))
    BY <1>1, <1>3, <2>1 DEF Differs
  <2>3. \A r \in R : Differs(n, r)
    BY <2>1 DEF Differs
  <2> QED BY <1>1, <2>1, <2>2, <2>3
<1>4. CASE q.history /\ n = [q EXCEPT !.history = FALSE, !.applied = @ \union {"history"}]
  <2>1. /\ n \in Plans /\ n.applied = q.applied \union {"history"} /\ n.history = FALSE
        /\ n.betas = q.betas /\ n.effort = q.effort /\ n.thinking = q.thinking
    BY <1>0, <1>4
  <2>2. Differs(n, Relay!Request(q))
    BY <1>1, <1>4, <2>1 DEF Differs
  <2>3. \A r \in R : Differs(n, r)
    BY <2>1 DEF Differs
  <2> QED BY <1>1, <2>1, <2>2, <2>3
<1>5. CASE q.effort /\ n = [q EXCEPT !.effort = FALSE, !.applied = @ \union {"effort"}]
  <2>1. /\ n \in Plans /\ n.applied = q.applied \union {"effort"} /\ n.effort = FALSE
        /\ n.betas = q.betas /\ n.history = q.history /\ n.thinking = q.thinking
    BY <1>0, <1>5
  <2>2. Differs(n, Relay!Request(q))
    BY <1>1, <1>5, <2>1 DEF Differs
  <2>3. \A r \in R : Differs(n, r)
    BY <2>1 DEF Differs
  <2> QED BY <1>1, <2>1, <2>2, <2>3
<1>6. CASE /\ "shape" \notin q.applied /\ q.thinking \in {"adaptive", "enabled"}
           /\ n = [q EXCEPT !.thinking = Relay!Reshaped(q), !.applied = @ \union {"shape"}]
  <2>1. /\ n \in Plans /\ n.applied = q.applied \union {"shape"} /\ n.thinking # q.thinking
        /\ n.betas = q.betas /\ n.history = q.history /\ n.effort = q.effort
    BY <1>0, <1>2, <1>6
  <2>2. \A r \in R \union {Relay!Request(q)} : r.thinking = q.thinking
    BY <1>1, <1>6
  <2> QED BY <2>1, <2>2 DEF Differs
<1> QED BY <1>3, <1>4, <1>5, <1>6, CorrectionIs

LEMMA DifferentIsNew ==
    ASSUME RelayInv PROVE Relay!CorrectionsAreNew
<1>1. Relay!Request(plan).betas = plan.betas /\ Relay!Request(plan).history = plan.history
      /\ Relay!Request(plan).effort = plan.effort /\ Relay!Request(plan).thinking = plan.thinking
  BY DEF Relay!Request, RelayInv, RelayTypes, Plans
<1>2. ~Differs(plan, Relay!Request(plan))
  BY <1>1 DEF Differs
<1> QED BY <1>2 DEF RelayInv, CorrectionsCount, Relay!CorrectionsAreNew

-----------------------------------------------------------------------------
LEMMA NewRelayIs ==
    Relay!NewRelay \in Relays /\ Relay!NewRelay.pending = <<>> /\ Relay!NewRelay.committed = FALSE /\ ~Relay!NewRelay.stopped
    /\ Relay!NewRelay.map = <<>> /\ Relay!NewRelay.skipped = {} /\ Relay!NewRelay.next = 0
    /\ Relay!Silent \in Senders /\ Relay!Silent.phase = "silent" /\ Relay!Silent.blocks = <<>>
<1>1. <<>> \in [{} -> Nat]
  OBVIOUS
<1> QED BY <1>1, EmptySeq DEF Relay!NewRelay, Relays, Relay!Silent, Senders

LEMMA NothingRelayed ==
    ASSUME NEW n PROVE \A i \in DOMAIN << >> : << >>[i].attempt = n
OBVIOUS

LEMMA RelayInit == ASSUME Relay!Init PROVE RelayInv
<1>1. plan \in Plans
  BY DEF Relay!Init, Relay!NoPlan, Plans, Thinkings
<1>2. RelayTypes
  BY <1>1, NewRelayIs, EmptySeq DEF Relay!Init, RelayTypes
<1>3. OfThisAttempt
  BY NewRelayIs, NothingRelayed DEF Relay!Init, OfThisAttempt, Held
<1> QED BY <1>2, <1>3 DEF Relay!Init, RelayInv, CorrectionsCount

\* The actions between the streams.
LEMMA RequestsKeep ==
    ASSUME RelayInv, Relay!RelayAssumption, Relay!Begin \/ Relay!Open \/ Relay!Reject \/ Relay!Refuse
    PROVE  RelayInv'
<1>0. /\ RelayTypes /\ CorrectionsCount /\ OfThisAttempt
      /\ attempts \in Nat /\ plan \in Plans /\ rejected \in SUBSET Plans /\ relayed \in Seq(Frames)
      /\ relayPc = "open" => relayed = <<>> /\ (\A r \in rejected : Differs(plan, r))
      /\ relayPc = "new" => rejected = {}
      /\ "shape" \notin plan.applied => \A r \in rejected : r.thinking = plan.thinking
  BY DEF RelayInv, RelayTypes, CorrectionsCount, OfThisAttempt
<1>1. CASE Relay!Begin
  <2>1. plan' \in Plans
    <3>1. PICK p \in Policies, signed \in BOOLEAN, betas \in BOOLEAN :
             plan' = Relay!Build(p, signed, betas)
      BY <1>1 DEF Relay!Begin
    <3>2. p.output \in BOOLEAN /\ p.effort \in BOOLEAN
      BY DEF Relay!RelayAssumption
    <3>3. Relay!Shape(p) \in Thinkings
      BY DEF Relay!Shape, Thinkings
    <3> QED BY <3>1, <3>2, <3>3 DEF Relay!Build, Plans
  <2>2. /\ relayPc = "new" /\ relayPc' = "open" /\ rejected = {}
        /\ UNCHANGED <<attempts, rejected, sender, relay, accepted, relayed>>
    BY <1>0, <1>1 DEF Relay!Begin
  <2>3. RelayTypes'
    BY <1>0, <2>1, <2>2 DEF RelayTypes
  <2>4. OfThisAttempt'
    BY <1>0, <2>2 DEF OfThisAttempt, Held
  <2> QED BY <1>0, <2>1, <2>2, <2>3, <2>4 DEF RelayInv, CorrectionsCount
<1>2. CASE Relay!Open
  <2>1. /\ relayPc = "open" /\ relayPc' = "stream" /\ relay' = Relay!NewRelay /\ sender' = Relay!Silent
        /\ accepted' = FALSE /\ attempts' = attempts + 1 /\ relayed = <<>>
        /\ UNCHANGED <<plan, rejected, relayed>>
    BY <1>0, <1>2 DEF Relay!Open
  <2>2. RelayTypes'
    <3>1. attempts' \in Nat
      BY <1>0, <2>1
    <3> QED BY <1>0, <2>1, <3>1, NewRelayIs DEF RelayTypes
  <2>3. OfThisAttempt'
    BY <1>0, <2>1, NewRelayIs, NothingRelayed DEF OfThisAttempt, Held
  <2> QED BY <1>0, <2>1, <2>2, <2>3 DEF RelayInv, CorrectionsCount
<1>3. CASE Relay!Reject
  <2>1. PICK text \in SUBSET Relay!Markers :
           IF Relay!NextFallback(plan, text) # {} /\ attempts + 1 < MaxAttempts
           THEN relayPc' = "open" /\ plan' \in Relay!NextFallback(plan, text)
           ELSE relayPc' = "failed" /\ UNCHANGED plan
    BY <1>3 DEF Relay!Reject
  <2>2. /\ relayPc = "open" /\ relay' = Relay!NewRelay /\ sender' = Relay!Silent /\ relayed = <<>>
        /\ accepted' = FALSE /\ attempts' = attempts + 1 /\ relayed' = relayed
        /\ rejected' = rejected \union {Relay!Request(plan)}
    BY <1>0, <1>3 DEF Relay!Reject
  <2>3. Relay!Request(plan) \in Plans /\ Relay!Request(plan).thinking = plan.thinking
    BY <1>0 DEF Relay!Request, Plans, Corrected
  <2>4. /\ plan' \in Plans /\ (relayPc' = "open" => \A r \in rejected' : Differs(plan', r))
        /\ "shape" \notin plan'.applied => \A r \in rejected' : r.thinking = plan'.thinking
    <3>1. CASE Relay!NextFallback(plan, text) # {} /\ attempts + 1 < MaxAttempts
      BY <1>0, <2>1, <2>2, <3>1, CorrectedIsNew
    <3>2. CASE ~(Relay!NextFallback(plan, text) # {} /\ attempts + 1 < MaxAttempts)
      BY <1>0, <2>1, <2>2, <2>3, <3>2
    <3> QED BY <3>1, <3>2
  <2>5. relayPc' \in {"open", "failed"}
    BY <2>1
  <2>6. RelayTypes'
    <3>1. attempts' \in Nat
      BY <1>0, <2>2
    <3>2. rejected' \in SUBSET Plans
      BY <1>0, <2>2, <2>3
    <3> QED BY <1>0, <2>2, <2>4, <2>5, <3>1, <3>2, NewRelayIs DEF RelayTypes
  <2>7. OfThisAttempt'
    BY <1>0, <2>2, <2>5, NewRelayIs, NothingRelayed DEF OfThisAttempt, Held
  <2> QED BY <1>0, <2>2, <2>4, <2>5, <2>6, <2>7 DEF RelayInv, CorrectionsCount
<1>4. CASE Relay!Refuse
  <2>1. /\ relayPc = "open" /\ relay' = Relay!NewRelay /\ sender' = Relay!Silent /\ relayed = <<>>
        /\ accepted' = FALSE /\ attempts' = attempts + 1 /\ relayed' = relayed
        /\ UNCHANGED <<plan, rejected>> /\ relayPc' \in {"open", "failed"}
    BY <1>0, <1>4 DEF Relay!Refuse, Relay!Retried
  <2>2. RelayTypes'
    <3>1. attempts' \in Nat
      BY <1>0, <2>1
    <3> QED BY <1>0, <2>1, <3>1, NewRelayIs DEF RelayTypes
  <2>3. OfThisAttempt'
    BY <1>0, <2>1, NewRelayIs, NothingRelayed DEF OfThisAttempt, Held
  <2> QED BY <1>0, <2>1, <2>2, <2>3 DEF RelayInv, CorrectionsCount
<1> QED BY <1>1, <1>2, <1>3, <1>4

-----------------------------------------------------------------------------
\* What the upstream may send, and how far its message is then.
Sent(frame, message) ==
    \/ /\ sender.phase = "silent" /\ frame = Relay!Frame("message_start", 0, "none")
       /\ message = [sender EXCEPT !.phase = "content"]
    \/ sender.phase # "silent" /\ frame = Relay!Frame("ping", 0, "none") /\ message = sender
    \/ /\ sender.phase = "content" /\ Relay!OpenBlocks = {} /\ frame = Relay!Frame("message_delta", 0, "none")
       /\ message = [sender EXCEPT !.phase = "delta"]
    \/ /\ sender.phase = "content" /\ Relay!OpenBlocks = {}
       /\ \E k \in {"thinking", "text"} :
             /\ frame = Relay!Frame("start", Len(sender.blocks), k)
             /\ message = [sender EXCEPT !.blocks = Append(@, [open |-> TRUE, kind |-> k])]
    \/ /\ \E i \in Relay!OpenBlocks : frame = Relay!Frame("delta", i - 1, sender.blocks[i].kind)
       /\ message = sender
    \/ \E i \in Relay!OpenBlocks : /\ frame = Relay!Frame("stop", i - 1, sender.blocks[i].kind)
                                   /\ message = [sender EXCEPT !.blocks[i].open = FALSE]
    \/ /\ sender.phase = "delta" /\ frame = Relay!Frame("message_stop", 0, "none")
       /\ message = [sender EXCEPT !.phase = "end"]

LEMMA ReceiveIs ==
    ASSUME Relay!Receive
    PROVE  /\ relayPc = "stream" /\ UNCHANGED <<relayPc, attempts, plan, rejected>>
           /\ \E frame : Sent(frame, sender') /\ Relay!Take(frame, sender')
<1>1. /\ relayPc = "stream" /\ UNCHANGED <<relayPc, attempts, plan, rejected>> /\ Relay!Upstream
  BY DEF Relay!Receive
<1>2. \A frame, message : Relay!Take(frame, message) => sender' = message
  BY DEF Relay!Take
<1> QED BY <1>1, <1>2 DEF Relay!Upstream, Sent

LEMMA FramesSentIs ==
    ASSUME RelayTypes, NEW frame, NEW message, Sent(frame, message)
    PROVE  /\ frame \in Frames /\ frame.attempt = attempts /\ message \in Senders
<1> DEFINE B == [open : BOOLEAN, kind : BlockKinds]
<1>1. attempts \in Nat /\ sender \in Senders /\ sender.blocks \in Seq(B)
      /\ Len(sender.blocks) \in Nat
  BY DEF RelayTypes, Senders
<1> HIDE DEF B
<1>2. \A i \in Relay!OpenBlocks : i - 1 \in Nat /\ sender.blocks[i] \in B /\ i \in DOMAIN sender.blocks
  <2>1. DOMAIN sender.blocks = 1 .. Len(sender.blocks)
    BY <1>1, LenProperties
  <2>2. \A i \in DOMAIN sender.blocks : sender.blocks[i] \in B
    BY <1>1, ElementOfSeq, <2>1
  <2> QED BY <1>1, <2>1, <2>2 DEF Relay!OpenBlocks
<1>3. \A t \in FrameTypes, n \in Nat, k \in BlockKinds \union {"none"} :
         Relay!Frame(t, n, k) \in Frames /\ Relay!Frame(t, n, k).attempt = attempts
  BY <1>1 DEF Relay!Frame, Frames
<1>4. \A p \in {"content", "delta", "end"} : [sender EXCEPT !.phase = p] \in Senders
  BY <1>1 DEF Senders, B
<1>5. ASSUME NEW k \in BlockKinds
      PROVE  [sender EXCEPT !.blocks = Append(@, [open |-> TRUE, kind |-> k])] \in Senders
  <2>1. Append(sender.blocks, [open |-> TRUE, kind |-> k]) \in Seq(B)
    BY <1>1 DEF B
  <2> QED BY <1>1, <2>1 DEF Senders, B
<1>6. ASSUME NEW i \in Relay!OpenBlocks PROVE [sender EXCEPT !.blocks[i].open = FALSE] \in Senders
  <2>1. [sender.blocks EXCEPT ![i] = [@ EXCEPT !.open = FALSE]] \in Seq(B)
    <3>1. [sender.blocks[i] EXCEPT !.open = FALSE] \in B
      BY <1>2 DEF B
    <3> QED BY <1>1, <1>2, <3>1, ExceptSeq
  <2> QED BY <1>1, <2>1 DEF Senders, B
<1>8. \A i \in Relay!OpenBlocks : sender.blocks[i].kind \in BlockKinds
  BY <1>2 DEF B
<1>9. \E t \in FrameTypes, n \in Nat, k \in BlockKinds \union {"none"} : frame = Relay!Frame(t, n, k)
  <2>1. /\ \A t \in {"message_start", "ping", "message_delta", "start", "delta", "stop", "message_stop"} :
              t \in FrameTypes
        /\ 0 \in Nat /\ Len(sender.blocks) \in Nat /\ "none" \in BlockKinds \union {"none"}
        /\ \A k \in {"thinking", "text"} : k \in BlockKinds \union {"none"}
        /\ \A k \in BlockKinds : k \in BlockKinds \union {"none"}
    BY <1>1 DEF FrameTypes, BlockKinds
  <2>2. CASE \E k \in {"thinking", "text"} : frame = Relay!Frame("start", Len(sender.blocks), k)
    BY <2>1, <2>2
  <2>3. CASE \E i \in Relay!OpenBlocks : frame = Relay!Frame("delta", i - 1, sender.blocks[i].kind)
    BY <2>1, <2>3, <1>2, <1>8
  <2>4. CASE \E i \in Relay!OpenBlocks : frame = Relay!Frame("stop", i - 1, sender.blocks[i].kind)
    BY <2>1, <2>4, <1>2, <1>8
  <2>5. CASE \E t \in {"message_start", "ping", "message_delta", "message_stop"} : frame = Relay!Frame(t, 0, "none")
    BY <2>1, <2>5
  <2> QED BY <2>2, <2>3, <2>4, <2>5 DEF Sent
<1>10. message \in Senders
  BY <1>1, <1>4, <1>5, <1>6 DEF Sent, BlockKinds
<1> QED BY <1>3, <1>9, <1>10

LEMMA SeenIs ==
    ASSUME NEW r \in Relays, NEW f \in Frames
    PROVE  /\ Relay!Seen(r, f) \in Relays /\ Relay!Seen(r, f).pending = r.pending
           /\ Relay!Seen(r, f).committed = r.committed
           /\ Relay!Seen(r, f).stopped <=> r.stopped \/ f.type = "message_stop"
           /\ Relay!Renumbered(Relay!Seen(r, f), f) \in Frames
           /\ Relay!Renumbered(Relay!Seen(r, f), f).attempt = f.attempt
           /\ Relay!Renumbered(Relay!Seen(r, f), f).type = f.type
           /\ Relay!Renumbered(Relay!Seen(r, f), f).kind = f.kind
<1> DEFINE m == IF f.type = "start" /\ ~Relay!Suppressed(f)
                THEN [i \in DOMAIN r.map \union {f.index} |-> IF i = f.index THEN r.next ELSE r.map[i]]
                ELSE r.map
<1>1. /\ r.next \in Nat /\ r.map \in UNION {[D -> Nat] : D \in SUBSET Nat} /\ f.index \in Nat
  BY DEF Relays, Frames
<1>2. PICK D \in SUBSET Nat : r.map \in [D -> Nat]
  BY <1>1
<1>3. m \in UNION {[E -> Nat] : E \in SUBSET Nat}
  <2>1. CASE f.type = "start" /\ ~Relay!Suppressed(f)
    <3>1. D \union {f.index} \in SUBSET Nat /\ m \in [D \union {f.index} -> Nat]
      BY <1>1, <1>2, <2>1
    <3> QED BY <3>1
  <2>2. CASE ~(f.type = "start" /\ ~Relay!Suppressed(f))
    BY <1>1, <2>2
  <2> QED BY <2>1, <2>2
<1> HIDE DEF m
<1>4. /\ Relay!Seen(r, f) = [r EXCEPT
                        !.skipped = IF Relay!Suppressed(f) THEN @ \union {f.index} ELSE @,
                        !.map = m,
                        !.next = IF f.type = "start" /\ ~Relay!Suppressed(f) THEN @ + 1 ELSE @,
                        !.stopped = @ \/ f.type = "message_stop"]
  BY DEF Relay!Seen, m
<1>5. (IF Relay!Suppressed(f) THEN r.skipped \union {f.index} ELSE r.skipped) \in SUBSET Nat
  BY <1>1 DEF Relays
<1>6. (IF f.type = "start" /\ ~Relay!Suppressed(f) THEN r.next + 1 ELSE r.next) \in Nat
  BY <1>1
<1>7. Relay!Seen(r, f) \in Relays
  BY <1>3, <1>4, <1>5, <1>6 DEF Relays
<1>8. Relay!Seen(r, f).pending = r.pending /\ Relay!Seen(r, f).committed = r.committed
      /\ (Relay!Seen(r, f).stopped <=> r.stopped \/ f.type = "message_stop") /\ Relay!Seen(r, f).map = m
  BY <1>4 DEF Relays
<1>9. f.index \in DOMAIN m => m[f.index] \in Nat
  BY <1>3
<1> QED BY <1>7, <1>8, <1>9 DEF Relay!Renumbered, Frames

-----------------------------------------------------------------------------
\* What is kept of the attempt grows by the frame, or by nothing.
Kept == relayed \o Held

LEMMA TakeIs ==
    ASSUME RelayTypes, NEW frame \in Frames, Relay!Take(frame, sender')
    PROVE  /\ relay' \in Relays /\ relayed' \in Seq(Frames) /\ accepted' = relay'.committed
           /\ LET s == Relay!Seen(relay, frame)
                  g == Relay!Renumbered(s, frame)
              IN  \/ /\ Relay!IsBlock(frame) /\ frame.index \in s.skipped
                     /\ relay' = s /\ relayed' = relayed
                  \/ /\ ~(Relay!IsBlock(frame) /\ frame.index \in s.skipped)
                     /\ \/ relay.committed /\ relay' = s /\ relayed' = relayed \o <<g>>
                        \/ /\ ~relay.committed /\ Relay!Commits(frame)
                           /\ relay' = [s EXCEPT !.committed = TRUE, !.pending = <<>>]
                           /\ relayed' = relayed \o Append(Held, g)
                        \/ /\ ~relay.committed /\ ~Relay!Commits(frame) /\ relayed' = relayed
                           /\ relay' = [s EXCEPT !.pending = Append(Held, g)]
<1> DEFINE s == Relay!Seen(relay, frame)
           g == Relay!Renumbered(s, frame)
<1>1. /\ relay \in Relays /\ relayed \in Seq(Frames) /\ Held \in Seq(Frames)
  BY DEF RelayTypes, Relays, Held
<1>2. s \in Relays /\ s.pending = Held /\ g \in Frames
  BY <1>1, SeenIs DEF Held
<1> HIDE DEF s, g
<1>3. \A x \in Seq(Frames) : [s EXCEPT !.pending = x] \in Relays
                           /\ [s EXCEPT !.committed = TRUE, !.pending = x] \in Relays
  BY <1>2 DEF Relays
<1>4. Append(Held, g) \in Seq(Frames) /\ <<>> \in Seq(Frames) /\ <<g>> \in Seq(Frames)
  BY <1>1, <1>2
<1>5. relayed \o Append(Held, g) \in Seq(Frames) /\ relayed \o <<g>> \in Seq(Frames)
      /\ relayed \o <<>> = relayed
  BY <1>1, <1>4, ConcatProperties, ConcatEmptySeq
<1>6. /\ relay' = Relay!Relay(relay, frame).r /\ relayed' = relayed \o Relay!Relay(relay, frame).frames
      /\ accepted' = relay'.committed
  BY DEF Relay!Take
<1>7. Relay!Relay(relay, frame) =
        IF Relay!IsBlock(frame) /\ frame.index \in s.skipped THEN [r |-> s, frames |-> <<>>]
        ELSE IF relay.committed THEN [r |-> s, frames |-> <<g>>]
        ELSE IF Relay!Commits(frame)
        THEN [r |-> [s EXCEPT !.committed = TRUE, !.pending = <<>>], frames |-> Append(Held, g)]
        ELSE [r |-> [s EXCEPT !.pending = Append(Held, g)], frames |-> <<>>]
  BY <1>2 DEF Relay!Relay, s, g
<1>8. \/ /\ Relay!IsBlock(frame) /\ frame.index \in s.skipped
         /\ relay' = s /\ relayed' = relayed
      \/ /\ ~(Relay!IsBlock(frame) /\ frame.index \in s.skipped)
         /\ \/ relay.committed /\ relay' = s /\ relayed' = relayed \o <<g>>
            \/ /\ ~relay.committed /\ Relay!Commits(frame)
               /\ relay' = [s EXCEPT !.committed = TRUE, !.pending = <<>>]
               /\ relayed' = relayed \o Append(Held, g)
            \/ /\ ~relay.committed /\ ~Relay!Commits(frame) /\ relayed' = relayed
               /\ relay' = [s EXCEPT !.pending = Append(Held, g)]
  <2> DEFINE Skips == Relay!IsBlock(frame) /\ frame.index \in s.skipped
             n == Relay!Relay(relay, frame)
  <2>1. CASE Skips
    <3>1. n.r = s /\ n.frames = <<>>
      BY <1>7, <2>1
    <3> QED BY <1>5, <1>6, <2>1, <3>1
  <2>2. CASE ~Skips /\ relay.committed
    <3>1. n.r = s /\ n.frames = <<g>>
      BY <1>7, <2>2
    <3> QED BY <1>6, <2>2, <3>1
  <2>3. CASE ~Skips /\ ~relay.committed /\ Relay!Commits(frame)
    <3>1. n.r = [s EXCEPT !.committed = TRUE, !.pending = <<>>] /\ n.frames = Append(Held, g)
      BY <1>7, <2>3
    <3> QED BY <1>6, <2>3, <3>1
  <2>4. CASE ~Skips /\ ~relay.committed /\ ~Relay!Commits(frame)
    <3>1. n.r = [s EXCEPT !.pending = Append(Held, g)] /\ n.frames = <<>>
      BY <1>7, <2>4
    <3> QED BY <1>5, <1>6, <2>4, <3>1
  <2> QED BY <2>1, <2>2, <2>3, <2>4
<1>9. relay' \in Relays /\ relayed' \in Seq(Frames)
  BY <1>1, <1>2, <1>3, <1>4, <1>5, <1>8
<1> QED BY <1>6, <1>8, <1>9 DEF s, g

LEMMA AllOfBoth ==
    ASSUME NEW n, NEW s \in Seq(Frames), NEW t \in Seq(Frames),
           \A i \in DOMAIN s : s[i].attempt = n, \A i \in DOMAIN t : t[i].attempt = n
    PROVE  \A i \in DOMAIN (s \o t) : (s \o t)[i].attempt = n
<1>1. /\ Len(s \o t) = Len(s) + Len(t) /\ Len(s) \in Nat /\ Len(t) \in Nat
      /\ DOMAIN (s \o t) = 1 .. Len(s \o t) /\ DOMAIN s = 1 .. Len(s) /\ DOMAIN t = 1 .. Len(t)
      /\ \A i \in 1 .. Len(s) + Len(t) :
            (s \o t)[i] = IF i <= Len(s) THEN s[i] ELSE t[i - Len(s)]
  BY ConcatProperties, LenProperties
<1>2. ASSUME NEW i \in 1 .. Len(s) + Len(t) PROVE (s \o t)[i].attempt = n
  <2>1. CASE i <= Len(s)
    BY <1>1, <2>1
  <2>2. CASE ~(i <= Len(s))
    <3>1. i - Len(s) \in 1 .. Len(t)
      BY <1>1, <2>2
    <3> QED BY <1>1, <2>2, <3>1
  <2> QED BY <2>1, <2>2
<1> QED BY <1>1, <1>2

\* A frame that is taken is of the attempt.
LEMMA AttemptStays ==
    ASSUME RelayInv, relayPc = "stream", NEW frame \in Frames, frame.attempt = attempts,
           Relay!Take(frame, sender'), UNCHANGED <<relayPc, attempts>>
    PROVE  OfThisAttempt'
<1> DEFINE s == Relay!Seen(relay, frame)
           g == Relay!Renumbered(s, frame)
<1>1. /\ RelayTypes /\ relay \in Relays /\ relayed \in Seq(Frames) /\ Held \in Seq(Frames)
      /\ \A i \in DOMAIN relayed : relayed[i].attempt = attempts
      /\ \A i \in DOMAIN Held : Held[i].attempt = attempts
      /\ relayed # <<>> => relay.committed
      /\ relay.committed => Held = <<>>
      /\ relay.stopped => relay.committed
  BY DEF RelayInv, RelayTypes, Relays, Held, OfThisAttempt
<1>2. /\ s \in Relays /\ s.pending = Held /\ s.committed = relay.committed
      /\ s.stopped <=> relay.stopped \/ frame.type = "message_stop"
      /\ g \in Frames /\ g.attempt = attempts
  BY <1>1, SeenIs DEF Held
<1> HIDE DEF s, g
<1>3. /\ \A i \in DOMAIN <<g>> : <<g>>[i].attempt = attempts
      /\ <<g>> \in Seq(Frames)
  BY <1>2
<1>4. /\ Append(Held, g) \in Seq(Frames) /\ Append(Held, g) = Held \o <<g>>
      /\ Append(Held, g) # <<>>
  BY <1>1, <1>2, AppendProperties, AppendIsConcat
<1>5. /\ \A i \in DOMAIN Append(Held, g) : Append(Held, g)[i].attempt = attempts
      /\ \A i \in DOMAIN (relayed \o <<g>>) : (relayed \o <<g>>)[i].attempt = attempts
  BY <1>1, <1>3, <1>4, AllOfBoth
<1>6. \A i \in DOMAIN (relayed \o Append(Held, g)) : (relayed \o Append(Held, g))[i].attempt = attempts
  BY <1>1, <1>4, <1>5, AllOfBoth
<1>7. /\ relay' \in Relays /\ relayed' \in Seq(Frames) /\ accepted' = relay'.committed
      /\ \/ /\ Relay!IsBlock(frame) /\ frame.index \in s.skipped
            /\ relay' = s /\ relayed' = relayed
         \/ relay.committed /\ relay' = s /\ relayed' = relayed \o <<g>>
         \/ /\ ~relay.committed /\ Relay!Commits(frame)
            /\ relay' = [s EXCEPT !.committed = TRUE, !.pending = <<>>]
            /\ relayed' = relayed \o Append(Held, g)
         \/ /\ ~relay.committed /\ ~Relay!Commits(frame) /\ relayed' = relayed
            /\ relay' = [s EXCEPT !.pending = Append(Held, g)]
  BY <1>1, TakeIs DEF s, g
<1>8. SUFFICES /\ \A i \in DOMAIN relayed' : relayed'[i].attempt = attempts
               /\ \A i \in DOMAIN Held' : Held'[i].attempt = attempts
               /\ relayed' # <<>> => relay'.committed
               /\ relay'.committed => Held' = <<>>
               /\ relay'.stopped => relay'.committed
  BY <1>7 DEF OfThisAttempt
<1>9. CASE /\ Relay!IsBlock(frame) /\ frame.index \in s.skipped
           /\ relay' = s /\ relayed' = relayed
  <2>1. frame.type # "message_stop"
    BY <1>9 DEF Relay!IsBlock
  <2> QED BY <1>1, <1>2, <1>9, <2>1 DEF Held
<1>10. CASE relay.committed /\ relay' = s /\ relayed' = relayed \o <<g>>
  BY <1>1, <1>2, <1>5, <1>10 DEF Held
<1>11. CASE /\ ~relay.committed /\ Relay!Commits(frame)
            /\ relay' = [s EXCEPT !.committed = TRUE, !.pending = <<>>]
            /\ relayed' = relayed \o Append(Held, g)
  <2>1. relay'.committed /\ relay'.pending = <<>>
    BY <1>2, <1>11 DEF Relays
  <2> QED BY <1>6, <1>11, <2>1, NothingRelayed DEF Held
<1>12. CASE /\ ~relay.committed /\ ~Relay!Commits(frame) /\ relayed' = relayed
            /\ relay' = [s EXCEPT !.pending = Append(Held, g)]
  <2>1. relay'.committed = s.committed /\ relay'.pending = Append(Held, g)
        /\ relay'.stopped = s.stopped
    BY <1>2, <1>12 DEF Relays
  <2>2. frame.type # "message_stop"
    BY <1>12 DEF Relay!Commits
  <2> QED BY <1>1, <1>2, <1>5, <1>12, <2>1, <2>2 DEF Held
<1> QED BY <1>7, <1>9, <1>10, <1>11, <1>12

LEMMA StreamsKeep ==
    ASSUME RelayInv, Relay!Receive \/ Relay!Finish \/ Relay!Break
    PROVE  RelayInv'
<1>0. /\ RelayTypes /\ CorrectionsCount /\ OfThisAttempt /\ attempts \in Nat /\ relayed \in Seq(Frames)
      /\ relay \in Relays
  BY DEF RelayInv, RelayTypes
<1>1. CASE Relay!Receive
  <2>0. PICK frame : Sent(frame, sender') /\ Relay!Take(frame, sender')
    BY <1>1, ReceiveIs
  <2>1. /\ relayPc = "stream" /\ UNCHANGED <<relayPc, attempts, plan, rejected>>
        /\ Sent(frame, sender') /\ Relay!Take(frame, sender')
    BY <1>1, <2>0, ReceiveIs
  <2>2. frame \in Frames /\ frame.attempt = attempts /\ sender' \in Senders
    BY <1>0, <2>1, FramesSentIs
  <2>3. OfThisAttempt'
    BY <2>1, <2>2, AttemptStays
  <2>4. relay' \in Relays /\ relayed' \in Seq(Frames) /\ accepted' = relay'.committed
    BY <1>0, <2>1, <2>2, TakeIs
  <2>5. RelayTypes'
    BY <1>0, <2>1, <2>2, <2>4 DEF RelayTypes, Relays
  <2> QED BY <1>0, <2>1, <2>3, <2>5 DEF RelayInv, CorrectionsCount
<1>2. CASE Relay!Finish
  <2>1. /\ relayPc = "stream" /\ relayPc' = "done" /\ relay.stopped /\ relayed' = relayed \o relay.pending
        /\ UNCHANGED <<attempts, plan, rejected, sender, relay, accepted>>
    BY <1>2 DEF Relay!Finish
  <2>2. relay.committed /\ relay.pending = <<>>
    BY <1>0, <2>1 DEF OfThisAttempt, Held
  <2>3. relayed' = relayed
    BY <1>0, <2>1, <2>2, ConcatEmptySeq
  <2> QED BY <1>0, <2>1, <2>2, <2>3 DEF RelayInv, RelayTypes, CorrectionsCount, OfThisAttempt, Held
<1>3. CASE Relay!Break
  <2>1. PICK retryable \in BOOLEAN : relayPc' = Relay!Retried(retryable /\ ~relay.committed, attempts)
    BY <1>3 DEF Relay!Break
  <2>2. /\ relayPc = "stream" /\ relay' = Relay!NewRelay /\ sender' = Relay!Silent
        /\ UNCHANGED <<attempts, plan, rejected, accepted, relayed>>
    BY <1>3 DEF Relay!Break
  <2>3. relayPc' \in {"open", "failed"} /\ (relayPc' = "open" => ~relay.committed)
    BY <2>1 DEF Relay!Retried
  <2>4. relayPc' = "open" => relayed = <<>>
    BY <1>0, <2>2, <2>3 DEF OfThisAttempt
  <2>5. RelayTypes'
    BY <1>0, <2>2, <2>3, NewRelayIs DEF RelayTypes
  <2>6. OfThisAttempt'
    BY <1>0, <2>2, <2>3, <2>4, NewRelayIs, NothingRelayed DEF OfThisAttempt, Held
  <2> QED BY <1>0, <2>2, <2>3, <2>5, <2>6 DEF RelayInv, CorrectionsCount
<1> QED BY <1>1, <1>2, <1>3

LEMMA RelayNext == ASSUME RelayInv, Relay!RelayAssumption, [Relay!Next]_Relay!vars PROVE RelayInv'
<1>1. CASE Relay!Next
  BY <1>1, RequestsKeep, StreamsKeep DEF Relay!Next
<1>2. CASE UNCHANGED Relay!vars
  BY <1>2 DEF Relay!vars, RelayInv, RelayTypes, CorrectionsCount, OfThisAttempt, Held
<1> QED BY <1>1, <1>2

LEMMA AttemptsAreOne == ASSUME RelayInv PROVE Relay!OneAttemptIsSeen
BY DEF RelayInv, OfThisAttempt, Relay!OneAttemptIsSeen

-----------------------------------------------------------------------------
\* What a message owes the frame at `i`, and what a relayed message is.
FrameFits(F, i, quiet) ==
    LET f == F[i]
        before == SubSeq(F, 1, i - 1)
    IN  /\ f.type = "message_start" <=> i = 1
        /\ f.type = "start" =>
             /\ Relay!Opened(before) = {}
             /\ f.index = Cardinality({k \in DOMAIN before : before[k].type = "start"})
        /\ f.type \in {"delta", "stop"} => Relay!Opened(before) = {f.index}
        /\ f.type = "message_stop" => Relay!Opened(before) = {}
        /\ f.kind = "thinking" => ~quiet

IsMessage(F, quiet) == \A i \in DOMAIN F : FrameFits(F, i, quiet)

BlockIndexes(F, type) == {F[i].index : i \in {k \in DOMAIN F : F[k].type = type}}
Starts(F) == {k \in DOMAIN F : F[k].type = "start"}

\* What the relay knows of the upstream's message, and of the one it has passed on.
RelayFollows ==
    /\ sender.phase = "silent" <=> Kept = <<>>
    /\ sender.phase = "silent" => sender.blocks = <<>>
    /\ sender.phase \in {"delta", "end"} => Relay!OpenBlocks = {}
    /\ \A i \in Relay!OpenBlocks : i = Len(sender.blocks)
    /\ \A n \in Nat : n \in DOMAIN relay.map <=> n < Len(sender.blocks) /\ n \notin relay.skipped
    /\ \A i \in 1 .. Len(sender.blocks) :
          i - 1 \in relay.skipped <=> sender.blocks[i].kind = "thinking" /\ plan.suppress
    /\ \A n \in relay.skipped : n < Len(sender.blocks)
    /\ \A n \in DOMAIN relay.map : relay.map[n] < relay.next
    /\ Relay!Opened(Kept) = IF Relay!OpenBlocks = {} \/ Len(sender.blocks) - 1 \in relay.skipped THEN {}
                            ELSE {relay.map[Len(sender.blocks) - 1]}
    /\ \A n \in BlockIndexes(Kept, "start") \union BlockIndexes(Kept, "stop") : n < relay.next
    /\ IsFiniteSet(Starts(Kept)) /\ Cardinality(Starts(Kept)) = relay.next
    /\ relay.stopped => \E k \in DOMAIN Kept : Kept[k].type = "message_stop"

MessageInv ==
    /\ IsMessage(Kept, plan.suppress)
    /\ relayPc \in {"stream", "done"} => RelayFollows
    /\ relayPc = "done" => relay.stopped

-----------------------------------------------------------------------------
LEMMA PrefixStays ==
    ASSUME NEW S, NEW s \in Seq(S), NEW t \in Seq(S), NEW i \in 1 .. Len(s)
    PROVE  SubSeq(s \o t, 1, i - 1) = SubSeq(s, 1, i - 1) /\ (s \o t)[i] = s[i]
<1>1. Len(s) \in Nat /\ Len(t) \in Nat
  BY LenProperties
<1>2. (s \o t)[i] = s[i]
  BY <1>1, ConcatProperties
<1>3. CASE i = 1
  BY <1>2, <1>3, SubSeqEmpty
<1>4. CASE i # 1
  <2>1. 1 \in 1 .. Len(s) /\ i - 1 \in 1 .. Len(s)
    BY <1>1, <1>4
  <2> QED BY <1>2, <2>1, SubSeqOfConcat1
<1> QED BY <1>3, <1>4

LEMMA PrefixIsMessage ==
    ASSUME NEW s \in Seq(Frames), NEW t \in Seq(Frames), NEW quiet
    PROVE  /\ IsMessage(s \o t, quiet) => IsMessage(s, quiet)
           /\ IsMessage(s, quiet) => \A i \in 1 .. Len(s) : FrameFits(s \o t, i, quiet)
<1>1. /\ DOMAIN s = 1 .. Len(s) /\ DOMAIN (s \o t) = 1 .. Len(s) + Len(t)
      /\ Len(s) \in Nat /\ Len(t) \in Nat
  BY LenProperties, ConcatProperties
<1>2. ASSUME NEW i \in 1 .. Len(s) PROVE FrameFits(s \o t, i, quiet) <=> FrameFits(s, i, quiet)
  <2>1. SubSeq(s \o t, 1, i - 1) = SubSeq(s, 1, i - 1) /\ (s \o t)[i] = s[i]
    BY PrefixStays
  <2> QED BY <2>1 DEF FrameFits
<1> QED BY <1>1, <1>2 DEF IsMessage

\* A message grows by a frame that fits it.
LEMMA MessageGrows ==
    ASSUME NEW F \in Seq(Frames), NEW quiet, IsMessage(F, quiet), NEW f \in Frames,
           f.type = "message_start" <=> F = <<>>,
           f.type = "start" => Relay!Opened(F) = {} /\ f.index = Cardinality(Starts(F)),
           f.type \in {"delta", "stop"} => Relay!Opened(F) = {f.index},
           f.type = "message_stop" => Relay!Opened(F) = {},
           f.kind = "thinking" => ~quiet
    PROVE  IsMessage(Append(F, f), quiet)
<1>1. /\ Append(F, f) = F \o <<f>> /\ <<f>> \in Seq(Frames) /\ Len(F) \in Nat
      /\ DOMAIN Append(F, f) = 1 .. Len(F) + 1
      /\ Append(F, f)[Len(F) + 1] = f
      /\ F = <<>> <=> Len(F) = 0
  BY AppendIsConcat, AppendProperties, LenProperties, EmptySeq
<1>2. \A i \in 1 .. Len(F) : FrameFits(Append(F, f), i, quiet)
  BY <1>1, PrefixIsMessage
<1>3. SubSeq(Append(F, f), 1, Len(F)) = F
  <2>1. CASE F = <<>>
    BY <1>1, <2>1, SubSeqEmpty
  <2>2. CASE F # <<>>
    <3>1. 1 \in 1 .. Len(F) /\ Len(F) \in 1 .. Len(F)
      BY <1>1, <2>2
    <3> QED BY <1>1, <3>1, SubSeqOfConcat1, SubSeqFull
  <2> QED BY <2>1, <2>2
<1>4. FrameFits(Append(F, f), Len(F) + 1, quiet)
  <2>1. Len(F) + 1 - 1 = Len(F) /\ (Len(F) + 1 = 1 <=> F = <<>>)
    BY <1>1
  <2> DEFINE G == Append(F, f)
             i == Len(F) + 1
  <2>2. G[i] = f /\ SubSeq(G, 1, i - 1) = F /\ (i = 1 <=> F = <<>>)
    BY <1>1, <1>3, <2>1
  <2> HIDE DEF G, i
  <2>3. FrameFits(G, i, quiet) = (/\ f.type = "message_start" <=> i = 1
                                  /\ f.type = "start" => /\ Relay!Opened(F) = {}
                                                         /\ f.index = Cardinality(Starts(F))
                                  /\ f.type \in {"delta", "stop"} => Relay!Opened(F) = {f.index}
                                  /\ f.type = "message_stop" => Relay!Opened(F) = {}
                                  /\ f.kind = "thinking" => ~quiet)
    BY <2>2 DEF FrameFits, Starts
  <2>4. FrameFits(G, i, quiet)
    BY <2>2, <2>3
  <2> QED BY <2>4 DEF G, i
<1>5. \A i \in 1 .. Len(F) + 1 : i \in 1 .. Len(F) \/ i = Len(F) + 1
  BY <1>1
<1> QED BY <1>1, <1>2, <1>4, <1>5 DEF IsMessage

\* The blocks of a message when it has grown by a frame.
LEMMA IndexesGrow ==
    ASSUME NEW F \in Seq(Frames), NEW f \in Frames, IsFiniteSet(Starts(F))
    PROVE  /\ \A type : BlockIndexes(Append(F, f), type) =
                          IF f.type = type THEN BlockIndexes(F, type) \union {f.index} ELSE BlockIndexes(F, type)
           /\ IsFiniteSet(Starts(Append(F, f)))
           /\ Cardinality(Starts(Append(F, f))) =
                 IF f.type = "start" THEN Cardinality(Starts(F)) + 1 ELSE Cardinality(Starts(F))
           /\ \A type : (\E k \in DOMAIN F : F[k].type = type) \/ f.type = type =>
                          \E k \in DOMAIN Append(F, f) : Append(F, f)[k].type = type
<1> DEFINE n == Len(F)
           G == Append(F, f)
<1>1. /\ n \in Nat /\ DOMAIN F = 1 .. n /\ DOMAIN G = 1 .. n + 1 /\ G[n + 1] = f
      /\ \A i \in 1 .. n : G[i] = F[i]
      /\ \A i \in 1 .. n + 1 : i \in 1 .. n \/ i = n + 1
      /\ \A i \in 1 .. n : i \in 1 .. n + 1 /\ i # n + 1
      /\ n + 1 \in 1 .. n + 1
  BY AppendProperties, LenProperties
<1> HIDE DEF n, G
<1>2. ASSUME NEW type
      PROVE  {k \in DOMAIN G : G[k].type = type} =
             IF f.type = type THEN {k \in DOMAIN F : F[k].type = type} \union {n + 1}
             ELSE {k \in DOMAIN F : F[k].type = type}
  BY <1>1
<1>3. ASSUME NEW type
      PROVE  BlockIndexes(G, type) =
             IF f.type = type THEN BlockIndexes(F, type) \union {f.index} ELSE BlockIndexes(F, type)
  <2> DEFINE K == {k \in DOMAIN F : F[k].type = type}
  <2>1. \A k \in K : k \in 1 .. n /\ G[k] = F[k]
    BY <1>1
  <2>2. {k \in DOMAIN G : G[k].type = type} = IF f.type = type THEN K \union {n + 1} ELSE K
    BY <1>2
  <2>3. BlockIndexes(F, type) = {F[k].index : k \in K}
    BY DEF BlockIndexes
  <2> HIDE DEF K
  <2>4. BlockIndexes(G, type) = {G[k].index : k \in IF f.type = type THEN K \union {n + 1} ELSE K}
    BY <2>2 DEF BlockIndexes
  <2> QED BY <1>1, <2>1, <2>3, <2>4
<1>4. n + 1 \notin Starts(F)
  BY <1>1 DEF Starts
<1>5. Starts(G) = IF f.type = "start" THEN Starts(F) \union {n + 1} ELSE Starts(F)
  BY <1>2 DEF Starts
<1>6. IsFiniteSet(Starts(G)) /\ Cardinality(Starts(G)) =
                 IF f.type = "start" THEN Cardinality(Starts(F)) + 1 ELSE Cardinality(Starts(F))
  <2>1. CASE f.type = "start"
    <3>1. Cardinality(Starts(F) \union {n + 1}) = Cardinality(Starts(F)) + 1
          /\ IsFiniteSet(Starts(F) \union {n + 1})
      BY <1>4, FS_AddElement
    <3> QED BY <1>5, <2>1, <3>1
  <2>2. CASE f.type # "start"
    BY <1>5, <2>2
  <2> QED BY <2>1, <2>2
<1>7. ASSUME NEW type, (\E k \in DOMAIN F : F[k].type = type) \/ f.type = type
      PROVE  \E k \in DOMAIN G : G[k].type = type
  BY <1>1, <1>7
<1> QED BY <1>3, <1>6, <1>7 DEF G

LEMMA IndexesAre ==
    ASSUME NEW F \in Seq(Frames), NEW type PROVE BlockIndexes(F, type) \subseteq Nat
<1>1. \A k \in DOMAIN F : F[k] \in Frames
  BY LenProperties, ElementOfSeq
<1>2. \A f \in Frames : f.index \in Nat
  BY DEF Frames
<1> QED BY <1>1, <1>2 DEF BlockIndexes

LEMMA OpenedIs == \A F : Relay!Opened(F) = BlockIndexes(F, "start") \ BlockIndexes(F, "stop")
BY DEF Relay!Opened, BlockIndexes

-----------------------------------------------------------------------------
LEMMA SeenFields ==
    ASSUME NEW r \in Relays, NEW f \in Frames
    PROVE  /\ Relay!Seen(r, f).skipped = IF Relay!Suppressed(f) THEN r.skipped \union {f.index} ELSE r.skipped
           /\ Relay!Seen(r, f).next = IF f.type = "start" /\ ~Relay!Suppressed(f) THEN r.next + 1 ELSE r.next
           /\ Relay!Seen(r, f).map =
                 IF f.type = "start" /\ ~Relay!Suppressed(f)
                 THEN [i \in DOMAIN r.map \union {f.index} |-> IF i = f.index THEN r.next ELSE r.map[i]]
                 ELSE r.map
           /\ Relay!Seen(r, f).stopped = (r.stopped \/ f.type = "message_stop")
BY DEF Relay!Seen, Relays

LEMMA KeptIs ==
    ASSUME RelayInv, relayPc = "stream", NEW frame \in Frames, Relay!Take(frame, sender')
    PROVE  LET s == Relay!Seen(relay, frame)
               g == Relay!Renumbered(s, frame)
           IN  /\ relay'.map = s.map /\ relay'.skipped = s.skipped /\ relay'.next = s.next
               /\ relay'.stopped = s.stopped
               /\ Kept \in Seq(Frames) /\ g \in Frames
               /\ g.type = frame.type /\ g.kind = frame.kind
               /\ IF Relay!IsBlock(frame) /\ frame.index \in s.skipped THEN Kept' = Kept
                  ELSE Kept' = Append(Kept, g)
<1> DEFINE s == Relay!Seen(relay, frame)
           g == Relay!Renumbered(s, frame)
           Skips == Relay!IsBlock(frame) /\ frame.index \in s.skipped
<1>1. /\ RelayTypes /\ relay \in Relays /\ relayed \in Seq(Frames) /\ Held \in Seq(Frames)
      /\ relay.committed => Held = <<>>
  BY DEF RelayInv, RelayTypes, Relays, Held, OfThisAttempt
<1>2. /\ s \in Relays /\ s.pending = Held /\ g \in Frames
      /\ g.type = frame.type /\ g.kind = frame.kind
  BY <1>1, SeenIs DEF Held
<1>3. \/ Skips /\ relay' = s /\ relayed' = relayed
      \/ ~Skips /\ relay.committed /\ relay' = s /\ relayed' = relayed \o <<g>>
      \/ /\ ~Skips /\ relay' = [s EXCEPT !.committed = TRUE, !.pending = <<>>]
         /\ relayed' = relayed \o Append(Held, g)
      \/ ~Skips /\ relay' = [s EXCEPT !.pending = Append(Held, g)] /\ relayed' = relayed
  BY <1>1, TakeIs
<1> HIDE DEF s, g, Skips
<1>4. /\ <<g>> \in Seq(Frames) /\ Append(Held, g) = Held \o <<g>> /\ Held \o <<g>> \in Seq(Frames)
      /\ Kept \in Seq(Frames) /\ Append(Kept, g) = Kept \o <<g>>
      /\ Kept \o <<g>> = relayed \o (Held \o <<g>>)
      /\ \A x \in Seq(Frames) : x \o <<>> = x
      /\ relayed \o (Held \o <<g>>) \in Seq(Frames) /\ relayed \o <<g>> \in Seq(Frames)
  <2>1. <<g>> \in Seq(Frames)
    BY <1>2
  <2>2. Kept \in Seq(Frames) /\ Held \o <<g>> \in Seq(Frames) /\ relayed \o <<g>> \in Seq(Frames)
    BY <1>1, <2>1, ConcatProperties DEF Kept
  <2>3. relayed \o (Held \o <<g>>) \in Seq(Frames)
    BY <1>1, <2>2, ConcatProperties
  <2> QED BY <1>1, <1>2, <2>1, <2>2, <2>3, AppendIsConcat, ConcatAssociative, ConcatEmptySeq DEF Kept
<1>5. CASE Skips /\ relay' = s /\ relayed' = relayed
  <2>1. Kept' = Kept
    BY <1>2, <1>5 DEF Kept, Held
  <2> QED BY <1>2, <1>4, <1>5, <2>1 DEF s, g, Skips
<1>6. CASE ~Skips /\ relay.committed /\ relay' = s /\ relayed' = relayed \o <<g>>
  <2>1. Held = <<>> /\ Held' = <<>>
    BY <1>1, <1>2, <1>6 DEF Held
  <2>2. Kept' = Append(Kept, g)
    BY <1>1, <1>4, <1>6, <2>1 DEF Kept
  <2> QED BY <1>2, <1>4, <1>6, <2>2 DEF s, g, Skips
<1>7. CASE /\ ~Skips /\ relay' = [s EXCEPT !.committed = TRUE, !.pending = <<>>]
           /\ relayed' = relayed \o Append(Held, g)
  <2>1. /\ relay'.pending = <<>> /\ relay'.map = s.map /\ relay'.skipped = s.skipped
        /\ relay'.next = s.next /\ relay'.stopped = s.stopped
    BY <1>2, <1>7 DEF Relays
  <2>2. Kept' = Append(Kept, g)
    BY <1>4, <1>7, <2>1 DEF Kept, Held
  <2> QED BY <1>2, <1>4, <1>7, <2>1, <2>2 DEF s, g, Skips
<1>8. CASE ~Skips /\ relay' = [s EXCEPT !.pending = Append(Held, g)] /\ relayed' = relayed
  <2>1. /\ relay'.pending = Append(Held, g) /\ relay'.map = s.map /\ relay'.skipped = s.skipped
        /\ relay'.next = s.next /\ relay'.stopped = s.stopped
    BY <1>2, <1>8 DEF Relays
  <2>2. Kept' = Append(Kept, g)
    BY <1>4, <1>8, <2>1 DEF Kept, Held
  <2> QED BY <1>2, <1>4, <1>8, <2>1, <2>2 DEF s, g, Skips
<1> QED BY <1>3, <1>5, <1>6, <1>7, <1>8

\* A frame of the message, and not of one of its blocks.
LEMMA FollowsMessage ==
    ASSUME RelayInv, IsMessage(Kept, plan.suppress), RelayFollows, relayPc = "stream", UNCHANGED plan,
           NEW type \in {"message_start", "ping", "message_delta", "message_stop"},
           NEW phase, sender' = [sender EXCEPT !.phase = phase],
           Relay!Take(Relay!Frame(type, 0, "none"), sender'),
           \/ type = "message_start" /\ sender.phase = "silent" /\ phase = "content"
           \/ type = "ping" /\ sender.phase # "silent" /\ phase = sender.phase
           \/ /\ type = "message_delta" /\ sender.phase = "content" /\ phase = "delta"
              /\ Relay!OpenBlocks = {}
           \/ type = "message_stop" /\ sender.phase = "delta" /\ phase = "end"
    PROVE  IsMessage(Kept', plan'.suppress) /\ RelayFollows'
<1> DEFINE f == Relay!Frame(type, 0, "none")
<1>1. /\ RelayTypes /\ relay \in Relays /\ sender \in Senders /\ plan' = plan
      /\ f.type = type /\ f.kind = "none" /\ ~Relay!IsBlock(f) /\ ~Relay!Suppressed(f) /\ f \in Frames
      /\ attempts \in Nat /\ Relay!Take(f, sender')
  BY DEF RelayInv, RelayTypes, Relay!Frame, Frames, FrameTypes, Relay!IsBlock, Relay!Suppressed
<1>2. Relay!Renumbered(Relay!Seen(relay, f), f) = f
  BY <1>1 DEF Relay!Renumbered
<1> HIDE DEF f
<1>3. /\ Kept \in Seq(Frames) /\ Kept' = Append(Kept, f)
      /\ relay'.map = relay.map /\ relay'.skipped = relay.skipped /\ relay'.next = relay.next
      /\ relay'.stopped = (relay.stopped \/ type = "message_stop")
  <2>1. /\ Relay!Seen(relay, f).map = relay.map /\ Relay!Seen(relay, f).skipped = relay.skipped
        /\ Relay!Seen(relay, f).next = relay.next
        /\ Relay!Seen(relay, f).stopped = (relay.stopped \/ type = "message_stop")
    <3>1. f.type # "start"
      BY <1>1
    <3> QED BY <1>1, <3>1, SeenFields
  <2> QED BY <1>1, <1>2, <2>1, KeptIs
<1>4. sender'.phase = phase /\ sender'.blocks = sender.blocks
  BY <1>1 DEF Senders
<1>5. Relay!OpenBlocks' = Relay!OpenBlocks
  BY <1>4 DEF Relay!OpenBlocks
<1>6. IsFiniteSet(Starts(Kept))
  BY DEF RelayFollows
<1>7. /\ BlockIndexes(Kept', "start") = BlockIndexes(Kept, "start")
      /\ BlockIndexes(Kept', "stop") = BlockIndexes(Kept, "stop")
      /\ IsFiniteSet(Starts(Kept')) /\ Cardinality(Starts(Kept')) = Cardinality(Starts(Kept))
      /\ \A t : (\E k \in DOMAIN Kept : Kept[k].type = t) \/ f.type = t =>
                   \E k \in DOMAIN Kept' : Kept'[k].type = t
  <2>1. f.type \notin {"start", "stop"}
    BY <1>1
  <2> DEFINE G == Append(Kept, f)
  <2>2. /\ \A t : BlockIndexes(G, t) = IF f.type = t THEN BlockIndexes(Kept, t) \union {f.index} ELSE BlockIndexes(Kept, t)
        /\ IsFiniteSet(Starts(G))
        /\ Cardinality(Starts(G)) =
              IF f.type = "start" THEN Cardinality(Starts(Kept)) + 1 ELSE Cardinality(Starts(Kept))
        /\ \A t : (\E k \in DOMAIN Kept : Kept[k].type = t) \/ f.type = t =>
                     \E k \in DOMAIN G : G[k].type = t
    BY <1>1, <1>3, <1>6, IndexesGrow
  <2> HIDE DEF G
  <2>3. Kept' = G
    BY <1>3 DEF G
  <2> QED BY <2>1, <2>2, <2>3
<1>8. Relay!Opened(Kept') = Relay!Opened(Kept)
  BY <1>7, OpenedIs
<1>9. Relay!OpenBlocks = {} => Relay!Opened(Kept) = {}
  BY DEF RelayFollows
<1>10. /\ type = "message_start" <=> Kept = <<>>
       /\ type \in {"message_delta", "message_stop"} => Relay!OpenBlocks = {}
  BY DEF RelayFollows
<1>11. IsMessage(Kept', plan'.suppress)
  <2>1. IsMessage(Append(Kept, f), plan.suppress)
    BY <1>1, <1>3, <1>9, <1>10, MessageGrows
  <2> QED BY <1>1, <1>3, <2>1
<1>12. Kept' # <<>>
  BY <1>1, <1>3, AppendProperties
<1>13. phase # "silent" /\ (phase \in {"delta", "end"} => Relay!OpenBlocks = {})
  BY DEF RelayFollows
<1>14. relay'.stopped => \E k \in DOMAIN Kept' : Kept'[k].type = "message_stop"
  BY <1>1, <1>3, <1>7 DEF RelayFollows
<1>15. RelayFollows'
  BY <1>1, <1>3, <1>4, <1>5, <1>7, <1>8, <1>12, <1>13, <1>14 DEF RelayFollows
<1> QED BY <1>11, <1>15

\* A block begins: it is cut out, or gets the next number.
LEMMA FollowsStart ==
    ASSUME RelayInv, IsMessage(Kept, plan.suppress), RelayFollows, relayPc = "stream", UNCHANGED plan,
           NEW k \in BlockKinds, sender.phase = "content", Relay!OpenBlocks = {},
           sender' = [sender EXCEPT !.blocks = Append(@, [open |-> TRUE, kind |-> k])],
           Relay!Take(Relay!Frame("start", Len(sender.blocks), k), sender')
    PROVE  IsMessage(Kept', plan'.suppress) /\ RelayFollows'
<1> DEFINE n == Len(sender.blocks)
           f == Relay!Frame("start", n, k)
           B == [open : BOOLEAN, kind : BlockKinds]
           s == Relay!Seen(relay, f)
           g == Relay!Renumbered(s, f)
<1>1. /\ RelayTypes /\ relay \in Relays /\ sender \in Senders /\ plan' = plan
      /\ attempts \in Nat /\ sender.blocks \in Seq(B) /\ n \in Nat
      /\ DOMAIN sender.blocks = 1 .. n
      /\ plan.suppress \in BOOLEAN /\ relay.next \in Nat
  <2>1. sender.blocks \in Seq(B) /\ plan.suppress \in BOOLEAN /\ relay.next \in Nat
    BY DEF RelayInv, RelayTypes, Senders, Plans, Relays
  <2> QED BY <2>1, LenProperties DEF RelayInv, RelayTypes
<1>2. /\ f.type = "start" /\ f.kind = k /\ f.index = n /\ Relay!IsBlock(f) /\ f \in Frames
      /\ Relay!Suppressed(f) <=> plan.suppress /\ k = "thinking"
      /\ Relay!Take(f, sender')
  BY <1>1 DEF Relay!Frame, Frames, FrameTypes, Relay!IsBlock, Relay!Suppressed
<1>3. /\ sender'.phase = "content" /\ sender'.blocks \in Seq(B) /\ Len(sender'.blocks) = n + 1
      /\ DOMAIN sender'.blocks = 1 .. n + 1
      /\ \A i \in 1 .. n : sender'.blocks[i] = sender.blocks[i]
      /\ sender'.blocks[n + 1] = [open |-> TRUE, kind |-> k]
  <2>1. sender'.phase = "content" /\ sender'.blocks = Append(sender.blocks, [open |-> TRUE, kind |-> k])
    BY <1>1 DEF Senders
  <2>2. [open |-> TRUE, kind |-> k] \in B
    OBVIOUS
  <2> HIDE DEF B
  <2> QED BY <1>1, <2>1, <2>2, AppendProperties, LenProperties
<1> HIDE DEF n, f, B
<1>4. Relay!OpenBlocks' = {n + 1}
  <2>1. \A i \in 1 .. n : ~sender.blocks[i].open
    BY <1>1 DEF Relay!OpenBlocks
  <2>2. \A i \in 1 .. n + 1 : i \in 1 .. n \/ i = n + 1
    BY <1>1
  <2>3. n + 1 \in 1 .. n + 1
    BY <1>1
  <2> QED BY <1>3, <2>1, <2>2, <2>3 DEF Relay!OpenBlocks
<1>5. /\ Relay!Opened(Kept) = {} /\ Kept # <<>>
      /\ \A m \in Nat : m \in DOMAIN relay.map <=> m < n /\ m \notin relay.skipped
      /\ \A i \in 1 .. n : i - 1 \in relay.skipped <=> sender.blocks[i].kind = "thinking" /\ plan.suppress
      /\ \A m \in relay.skipped : m < n
      /\ \A m \in DOMAIN relay.map : relay.map[m] < relay.next
      /\ \A m \in BlockIndexes(Kept, "start") \union BlockIndexes(Kept, "stop") : m < relay.next
      /\ IsFiniteSet(Starts(Kept)) /\ Cardinality(Starts(Kept)) = relay.next
      /\ relay.stopped => \E j \in DOMAIN Kept : Kept[j].type = "message_stop"
  BY DEF RelayFollows, n
<1>6. relay.skipped \in SUBSET Nat /\ n \notin relay.skipped /\ DOMAIN relay.map \in SUBSET Nat
      /\ \A m \in DOMAIN relay.map : relay.map[m] \in Nat
  <2>1. relay.skipped \in SUBSET Nat /\ relay.map \in UNION {[D -> Nat] : D \in SUBSET Nat}
    BY <1>1 DEF Relays
  <2>2. PICK D \in SUBSET Nat : relay.map \in [D -> Nat]
    BY <2>1
  <2>3. ~(n < n)
    BY <1>1
  <2> QED BY <1>5, <2>1, <2>2, <2>3
<1>7. /\ relay'.map = s.map /\ relay'.skipped = s.skipped /\ relay'.next = s.next
      /\ relay'.stopped = s.stopped
      /\ Kept \in Seq(Frames) /\ g \in Frames /\ g.type = "start" /\ g.kind = k
      /\ IF Relay!IsBlock(f) /\ n \in s.skipped THEN Kept' = Kept ELSE Kept' = Append(Kept, g)
  BY <1>2, KeptIs
<1>8. /\ s.skipped = IF Relay!Suppressed(f) THEN relay.skipped \union {n} ELSE relay.skipped
      /\ s.next = IF f.type = "start" /\ ~Relay!Suppressed(f) THEN relay.next + 1 ELSE relay.next
      /\ s.map =
            IF f.type = "start" /\ ~Relay!Suppressed(f)
            THEN [i \in DOMAIN relay.map \union {n} |-> IF i = n THEN relay.next ELSE relay.map[i]]
            ELSE relay.map
      /\ s.stopped = relay.stopped
  <2>1. relay.stopped \in BOOLEAN
    BY <1>1 DEF Relays
  <2> QED BY <1>1, <1>2, <2>1, SeenFields
<1>9. \A i \in 1 .. n + 1 : (i \in 1 .. n /\ i - 1 # n) \/ i = n + 1
  BY <1>1
<1>10. CASE Relay!Suppressed(f)
  <2>1. /\ relay'.map = relay.map /\ relay'.next = relay.next /\ relay'.stopped = relay.stopped
        /\ relay'.skipped = relay.skipped \union {n} /\ Kept' = Kept
    BY <1>2, <1>7, <1>8, <1>10
  <2>2. \A i \in 1 .. n + 1 :
           i - 1 \in relay'.skipped <=> sender'.blocks[i].kind = "thinking" /\ plan.suppress
    BY <1>1, <1>2, <1>3, <1>5, <1>9, <1>10, <2>1
  <2>3. /\ \A m \in Nat : m \in DOMAIN relay'.map <=> m < n + 1 /\ m \notin relay'.skipped
        /\ \A m \in relay'.skipped : m < n + 1
    BY <1>1, <1>5, <1>6, <2>1
  <2>4. n + 1 - 1 \in relay'.skipped
    BY <1>1, <2>1
  <2>5. RelayFollows'
    BY <1>1, <1>3, <1>4, <1>5, <2>1, <2>2, <2>3, <2>4 DEF RelayFollows
  <2> QED BY <1>1, <2>1, <2>5
<1>11. CASE ~Relay!Suppressed(f)
  <2>1. /\ relay'.skipped = relay.skipped /\ relay'.next = relay.next + 1
        /\ relay'.stopped = relay.stopped /\ Kept' = Append(Kept, g)
        /\ relay'.map = [i \in DOMAIN relay.map \union {n} |-> IF i = n THEN relay.next ELSE relay.map[i]]
        /\ s.map = relay'.map
    BY <1>2, <1>6, <1>7, <1>8, <1>11
  <2>2. relay'.map[n] = relay.next /\ n \in DOMAIN s.map
    BY <2>1
  <2>3. g.index = relay.next
    BY <1>2, <2>1, <2>2 DEF Relay!Renumbered, Frames
  <2> HIDE DEF g
  <2>4. IsMessage(Append(Kept, g), plan.suppress)
    <3>1. g.kind = "thinking" => ~plan.suppress
      BY <1>2, <1>7, <1>11
    <3> QED BY <1>5, <1>7, <2>3, <3>1, MessageGrows
  <2>5. \A i \in 1 .. n + 1 :
           i - 1 \in relay'.skipped <=> sender'.blocks[i].kind = "thinking" /\ plan.suppress
    BY <1>1, <1>2, <1>3, <1>5, <1>6, <1>9, <1>11, <2>1
  <2>6. /\ \A m \in Nat : m \in DOMAIN relay'.map <=> m < n + 1 /\ m \notin relay'.skipped
        /\ \A m \in relay'.skipped : m < n + 1
    BY <1>1, <1>5, <1>6, <2>1
  <2>7. \A m \in DOMAIN relay'.map : relay'.map[m] < relay'.next
    BY <1>1, <1>5, <1>6, <2>1
  <2>8. /\ BlockIndexes(Append(Kept, g), "start") = BlockIndexes(Kept, "start") \union {relay.next}
        /\ BlockIndexes(Append(Kept, g), "stop") = BlockIndexes(Kept, "stop")
        /\ IsFiniteSet(Starts(Append(Kept, g)))
        /\ Cardinality(Starts(Append(Kept, g))) = relay.next + 1
        /\ \A t : (\E j \in DOMAIN Kept : Kept[j].type = t) =>
                     \E j \in DOMAIN Append(Kept, g) : Append(Kept, g)[j].type = t
    <3> DEFINE G == Append(Kept, g)
    <3>1. /\ \A t : BlockIndexes(G, t) = IF g.type = t THEN BlockIndexes(Kept, t) \union {g.index} ELSE BlockIndexes(Kept, t)
          /\ IsFiniteSet(Starts(G))
          /\ Cardinality(Starts(G)) =
                IF g.type = "start" THEN Cardinality(Starts(Kept)) + 1 ELSE Cardinality(Starts(Kept))
          /\ \A t : (\E j \in DOMAIN Kept : Kept[j].type = t) \/ g.type = t =>
                       \E j \in DOMAIN G : G[j].type = t
      BY <1>5, <1>7, IndexesGrow
    <3> HIDE DEF G
    <3>2. g.type = "start" /\ g.type # "stop"
      BY <1>7
    <3>3. /\ BlockIndexes(G, "start") = BlockIndexes(Kept, "start") \union {relay.next}
          /\ BlockIndexes(G, "stop") = BlockIndexes(Kept, "stop")
          /\ IsFiniteSet(Starts(G)) /\ Cardinality(Starts(G)) = relay.next + 1
          /\ \A t : (\E j \in DOMAIN Kept : Kept[j].type = t) => \E j \in DOMAIN G : G[j].type = t
      BY <1>5, <2>3, <3>1, <3>2
    <3> QED BY <3>3 DEF G
  <2>9. relay.next \notin BlockIndexes(Kept, "stop")
    BY <1>1, <1>5
  <2>10. Relay!Opened(Append(Kept, g)) = {relay.next}
    <3>1. BlockIndexes(Kept, "start") \ BlockIndexes(Kept, "stop") = {}
      BY <1>5, OpenedIs
    <3> QED BY <2>8, <2>9, <3>1, OpenedIs
  <2>11. \A m \in BlockIndexes(Append(Kept, g), "start") \union BlockIndexes(Append(Kept, g), "stop") :
            m < relay.next + 1
    <3>1. \A m \in BlockIndexes(Kept, "start") \union BlockIndexes(Kept, "stop") : m \in Nat
      BY <1>7, IndexesAre
    <3>2. \A m \in Nat : m < relay.next => m < relay.next + 1
      BY <1>1
    <3>3. relay.next < relay.next + 1
      BY <1>1
    <3> QED BY <1>5, <2>8, <3>1, <3>2, <3>3
  <2>12. Append(Kept, g) # <<>>
    BY <1>7, AppendProperties
  <2>13. n + 1 - 1 = n /\ n \notin relay'.skipped /\ (n + 1) - 1 = n
    BY <1>1, <1>6, <2>1
  <2>14. Relay!Opened(Kept') = {relay'.map[n]}
    BY <2>1, <2>2, <2>10
  <2>15. relay'.stopped => \E j \in DOMAIN Kept' : Kept'[j].type = "message_stop"
    BY <1>5, <2>1, <2>8
  <2>16. /\ IsFiniteSet(Starts(Kept')) /\ Cardinality(Starts(Kept')) = relay'.next
         /\ \A m \in BlockIndexes(Kept', "start") \union BlockIndexes(Kept', "stop") : m < relay'.next
         /\ Kept' # <<>>
    BY <2>1, <2>8, <2>11, <2>12
  <2>17. Relay!OpenBlocks' # {} /\ (n + 1) - 1 \notin relay'.skipped
         /\ Relay!Opened(Kept') = {relay'.map[(n + 1) - 1]} /\ sender'.phase \notin {"silent", "delta", "end"}
    BY <1>3, <1>4, <2>13, <2>14
  <2>18. RelayFollows'
    BY <1>1, <1>3, <1>4, <2>5, <2>6, <2>7, <2>15, <2>16, <2>17 DEF RelayFollows
  <2> QED BY <1>1, <2>1, <2>4, <2>18
<1> QED BY <1>10, <1>11

\* A delta or the stop of the open block, which may be one that is cut out.
LEMMA FollowsContent ==
    ASSUME RelayInv, IsMessage(Kept, plan.suppress), RelayFollows, relayPc = "stream", UNCHANGED plan,
           NEW i \in Relay!OpenBlocks, NEW type \in {"delta", "stop"},
           sender' = IF type = "delta" THEN sender ELSE [sender EXCEPT !.blocks[i].open = FALSE],
           Relay!Take(Relay!Frame(type, i - 1, sender.blocks[i].kind), sender')
    PROVE  IsMessage(Kept', plan'.suppress) /\ RelayFollows'
<1> DEFINE n == Len(sender.blocks)
           f == Relay!Frame(type, i - 1, sender.blocks[i].kind)
           B == [open : BOOLEAN, kind : BlockKinds]
           s == Relay!Seen(relay, f)
           g == Relay!Renumbered(s, f)
<1>1. /\ RelayTypes /\ relay \in Relays /\ sender \in Senders /\ plan' = plan
      /\ attempts \in Nat /\ sender.blocks \in Seq(B) /\ n \in Nat
      /\ DOMAIN sender.blocks = 1 .. n
      /\ plan.suppress \in BOOLEAN /\ relay.next \in Nat /\ relay.stopped \in BOOLEAN
  <2>1. /\ sender.blocks \in Seq(B) /\ plan.suppress \in BOOLEAN /\ relay.next \in Nat
        /\ relay.stopped \in BOOLEAN
    BY DEF RelayInv, RelayTypes, Senders, Plans, Relays
  <2> QED BY <2>1, LenProperties DEF RelayInv, RelayTypes
<1>2. /\ i = n /\ i \in 1 .. n /\ n - 1 \in Nat /\ Relay!OpenBlocks = {n}
      /\ sender.blocks[i] \in B /\ sender.blocks[i].kind \in BlockKinds
  <2>1. i \in 1 .. n /\ \A j \in Relay!OpenBlocks : j = n
    BY <1>1 DEF RelayFollows, Relay!OpenBlocks
  <2>2. sender.blocks[i] \in B
    BY <1>1, <2>1, ElementOfSeq
  <2>3. sender.blocks[i].kind \in BlockKinds
    BY <2>2
  <2> QED BY <1>1, <2>1, <2>2, <2>3
<1>3. /\ f.type = type /\ f.kind = sender.blocks[i].kind /\ f.index = n - 1 /\ Relay!IsBlock(f)
      /\ f \in Frames /\ ~Relay!Suppressed(f) /\ f.type # "start" /\ f.type # "message_stop"
      /\ Relay!Take(f, sender')
  BY <1>1, <1>2 DEF Relay!Frame, Frames, FrameTypes, Relay!IsBlock, Relay!Suppressed
<1>4. /\ sender'.phase = sender.phase /\ Len(sender'.blocks) = n
      /\ \A j \in 1 .. n : sender'.blocks[j].kind = sender.blocks[j].kind
      /\ Relay!OpenBlocks' = IF type = "delta" THEN {n} ELSE {}
  <2>1. CASE type = "delta"
    BY <1>2, <2>1 DEF Relay!OpenBlocks
  <2>2. CASE type = "stop"
    <3>1. /\ sender'.phase = sender.phase
          /\ sender'.blocks = [sender.blocks EXCEPT ![i] = [@ EXCEPT !.open = FALSE]]
      BY <1>1, <2>2 DEF Senders
    <3>2. [sender.blocks[i] EXCEPT !.open = FALSE] \in B
      BY <1>2
    <3>3. /\ [sender.blocks[i] EXCEPT !.open = FALSE].kind = sender.blocks[i].kind
          /\ ~[sender.blocks[i] EXCEPT !.open = FALSE].open
      BY <1>2
    <3> HIDE DEF B, n
    <3> DEFINE b == [sender.blocks[i] EXCEPT !.open = FALSE]
               blocks == sender.blocks
    <3> HIDE DEF b
    <3>8. b \in B /\ sender'.blocks = [blocks EXCEPT ![i] = b]
      BY <3>1, <3>2 DEF b
    <3>9. blocks \in Seq(B) /\ i \in 1 .. Len(blocks) /\ n = Len(blocks)
      BY <1>1, <1>2 DEF n
    <3> HIDE DEF blocks
    <3>10. /\ Len([blocks EXCEPT ![i] = b]) = Len(blocks) /\ [blocks EXCEPT ![i] = b] \in Seq(B)
           /\ \A j \in 1 .. Len(blocks) : [blocks EXCEPT ![i] = b][j] = IF j = i THEN b ELSE blocks[j]
      BY <3>8, <3>9, ExceptSeq
    <3>4. /\ Len(sender'.blocks) = n /\ sender'.blocks \in Seq(B)
          /\ \A j \in 1 .. n : sender'.blocks[j] =
                IF j = i THEN [sender.blocks[i] EXCEPT !.open = FALSE] ELSE sender.blocks[j]
      BY <3>8, <3>9, <3>10 DEF b, blocks
    <3>5. DOMAIN sender'.blocks = 1 .. n
      BY <3>4, LenProperties
    <3>6. \A j \in 1 .. n : ~sender'.blocks[j].open
      <4>1. \A j \in 1 .. n : j # n => ~sender.blocks[j].open
        BY <1>1, <1>2 DEF Relay!OpenBlocks
      <4> QED BY <1>2, <3>3, <3>4, <4>1
    <3>7. Relay!OpenBlocks' = {}
      BY <3>5, <3>6 DEF Relay!OpenBlocks
    <3> QED BY <2>2, <3>1, <3>3, <3>4, <3>7
  <2> QED BY <2>1, <2>2
<1> HIDE DEF n, f, B
<1>5. /\ Kept # <<>> /\ sender.phase # "silent" /\ sender.phase \notin {"delta", "end"}
      /\ \A m \in Nat : m \in DOMAIN relay.map <=> m < n /\ m \notin relay.skipped
      /\ \A j \in 1 .. n : j - 1 \in relay.skipped <=> sender.blocks[j].kind = "thinking" /\ plan.suppress
      /\ \A m \in relay.skipped : m < n
      /\ \A m \in DOMAIN relay.map : relay.map[m] < relay.next
      /\ \A m \in BlockIndexes(Kept, "start") \union BlockIndexes(Kept, "stop") : m < relay.next
      /\ IsFiniteSet(Starts(Kept)) /\ Cardinality(Starts(Kept)) = relay.next
      /\ relay.stopped => \E j \in DOMAIN Kept : Kept[j].type = "message_stop"
      /\ Relay!Opened(Kept) = IF n - 1 \in relay.skipped THEN {} ELSE {relay.map[n - 1]}
  <2>1. sender.phase # "silent"
    <3>1. sender.phase = "silent" => sender.blocks = <<>>
      BY DEF RelayFollows
    <3>2. sender.blocks = <<>> => n = 0
      BY DEF n
    <3> QED BY <1>1, <1>2, <3>1, <3>2
  <2> QED BY <1>2, <2>1 DEF RelayFollows, n
<1>6. /\ s.skipped = relay.skipped /\ s.next = relay.next /\ s.map = relay.map
      /\ s.stopped = relay.stopped
  BY <1>1, <1>3, SeenFields
<1>7. /\ relay'.map = relay.map /\ relay'.skipped = relay.skipped /\ relay'.next = relay.next
      /\ relay'.stopped = relay.stopped
      /\ Kept \in Seq(Frames) /\ g \in Frames /\ g.type = type /\ g.kind = f.kind
      /\ IF n - 1 \in relay.skipped THEN Kept' = Kept ELSE Kept' = Append(Kept, g)
  BY <1>3, <1>6, KeptIs
<1>8. CASE n - 1 \in relay.skipped
  <2>1. Kept' = Kept
    BY <1>7, <1>8
  <2>2. Relay!Opened(Kept) = {} /\ \A j \in Relay!OpenBlocks' : j = n
    BY <1>4, <1>5, <1>8
  <2>3. RelayFollows'
    BY <1>4, <1>5, <1>7, <1>8, <2>1, <2>2 DEF RelayFollows
  <2> QED BY <1>1, <2>1, <2>3
<1>9. CASE n - 1 \notin relay.skipped
  <2>1. n - 1 \in DOMAIN relay.map
    BY <1>1, <1>2, <1>5, <1>9
  <2>2. g.index = relay.map[n - 1]
    BY <1>3, <1>6, <2>1 DEF Relay!Renumbered, Frames
  <2>3. Kept' = Append(Kept, g) /\ Relay!Opened(Kept) = {g.index}
    BY <1>5, <1>7, <1>9, <2>2
  <2> HIDE DEF g
  <2>4. IsMessage(Append(Kept, g), plan.suppress)
    <3>1. g.kind = "thinking" => ~plan.suppress
      <4>1. i - 1 \notin relay.skipped
        BY <1>2, <1>9
      <4> QED BY <1>2, <1>3, <1>5, <1>7, <4>1
    <3>2. g.type \in {"delta", "stop"}
      BY <1>7
    <3> QED BY <1>5, <1>7, <2>3, <3>1, <3>2, MessageGrows
  <2> DEFINE G == Append(Kept, g)
  <2>5. /\ \A t : BlockIndexes(G, t) = IF g.type = t THEN BlockIndexes(Kept, t) \union {g.index} ELSE BlockIndexes(Kept, t)
        /\ IsFiniteSet(Starts(G))
        /\ Cardinality(Starts(G)) =
              IF g.type = "start" THEN Cardinality(Starts(Kept)) + 1 ELSE Cardinality(Starts(Kept))
        /\ \A t : (\E j \in DOMAIN Kept : Kept[j].type = t) \/ g.type = t =>
                     \E j \in DOMAIN G : G[j].type = t
    BY <1>5, <1>7, IndexesGrow
  <2>6. G # <<>>
    BY <1>7, AppendProperties
  <2> HIDE DEF G
  <2>7. /\ BlockIndexes(G, "start") = BlockIndexes(Kept, "start")
        /\ BlockIndexes(G, "stop") = IF type = "stop" THEN BlockIndexes(Kept, "stop") \union {g.index}
                                     ELSE BlockIndexes(Kept, "stop")
        /\ Cardinality(Starts(G)) = relay.next
        /\ relay.stopped => \E j \in DOMAIN G : G[j].type = "message_stop"
    <3>1. g.type # "start" /\ (g.type = "stop" <=> type = "stop")
      BY <1>7
    <3> QED BY <1>5, <2>5, <3>1
  <2>8. \A m \in BlockIndexes(G, "start") \union BlockIndexes(G, "stop") : m < relay.next
    <3>1. g.index < relay.next
      BY <1>5, <2>1, <2>2
    <3> QED BY <1>5, <2>7, <3>1
  <2>9. Relay!Opened(G) = IF type = "delta" THEN {g.index} ELSE {}
    <3>1. BlockIndexes(Kept, "start") \ BlockIndexes(Kept, "stop") = {g.index}
      BY <2>3, OpenedIs
    <3>2. CASE type = "delta"
      BY <2>7, <3>1, <3>2, OpenedIs
    <3>3. CASE type = "stop"
      BY <2>7, <3>1, <3>3, OpenedIs
    <3> QED BY <3>2, <3>3
  <2>10. Kept' = G
    BY <2>3 DEF G
  <2>11. /\ Relay!Opened(Kept') = IF Relay!OpenBlocks' = {} \/ n - 1 \in relay'.skipped THEN {} ELSE {relay'.map[n - 1]}
         /\ \A j \in Relay!OpenBlocks' : j = n
    BY <1>4, <1>7, <1>9, <2>2, <2>9, <2>10
  <2>13. relay'.stopped => \E j \in DOMAIN Kept' : Kept'[j].type = "message_stop"
    BY <1>7, <2>7, <2>10
  <2>14. /\ IsFiniteSet(Starts(Kept')) /\ Cardinality(Starts(Kept')) = relay'.next
         /\ \A m \in BlockIndexes(Kept', "start") \union BlockIndexes(Kept', "stop") : m < relay'.next
         /\ Kept' # <<>>
    BY <1>7, <2>5, <2>6, <2>7, <2>8, <2>10
  <2>15. /\ \A m \in Nat : m \in DOMAIN relay'.map <=> m < n /\ m \notin relay'.skipped
         /\ \A j \in 1 .. n :
               j - 1 \in relay'.skipped <=> sender'.blocks[j].kind = "thinking" /\ plan'.suppress
         /\ \A m \in relay'.skipped : m < n
         /\ \A m \in DOMAIN relay'.map : relay'.map[m] < relay'.next
    BY <1>1, <1>4, <1>5, <1>7
  <2>12. RelayFollows'
    BY <1>4, <1>5, <2>11, <2>13, <2>14, <2>15 DEF RelayFollows
  <2> QED BY <1>1, <2>3, <2>4, <2>12
<1> QED BY <1>8, <1>9

LEMMA NothingIsMessage == \A quiet : IsMessage(<<>>, quiet)
BY DEF IsMessage

LEMMA NothingKept == << >> \o << >> = << >>
BY EmptySeq, ConcatEmptySeq

LEMMA MessageInit == ASSUME Relay!Init PROVE MessageInv
<1>1. Kept = <<>> /\ relayPc = "new"
  BY NewRelayIs, NothingKept DEF Relay!Init, Kept, Held
<1> QED BY <1>1, NothingIsMessage DEF MessageInv

LEMMA FollowsNothing ==
    ASSUME relay' = Relay!NewRelay, sender' = Relay!Silent, relayed' = <<>>
    PROVE  Kept' = <<>> /\ RelayFollows'
<1>1. Kept' = <<>>
  BY NewRelayIs, NothingKept DEF Kept, Held
<1>2. /\ sender'.phase = "silent" /\ sender'.blocks = <<>> /\ Len(sender'.blocks) = 0
      /\ relay'.skipped = {} /\ relay'.next = 0 /\ DOMAIN relay'.map = {}
      /\ ~relay'.stopped
  BY DEF Relay!NewRelay, Relay!Silent
<1>3. Relay!OpenBlocks' = {}
  BY <1>2 DEF Relay!OpenBlocks
<1>4. BlockIndexes(<<>>, "start") = {} /\ BlockIndexes(<<>>, "stop") = {} /\ Starts(<<>>) = {}
  BY DEF BlockIndexes, Starts
<1>5. Relay!Opened(<<>>) = {}
  BY <1>4, OpenedIs
<1>6. IsFiniteSet({}) /\ Cardinality({}) = 0
  BY FS_EmptySet
<1>7. /\ Relay!Opened(Kept') = {} /\ Starts(Kept') = {} /\ BlockIndexes(Kept', "start") = {}
      /\ BlockIndexes(Kept', "stop") = {}
  BY <1>1, <1>4, <1>5
<1>8. /\ \A m \in Nat : m \in DOMAIN relay'.map <=> m < Len(sender'.blocks) /\ m \notin relay'.skipped
      /\ \A i \in 1 .. Len(sender'.blocks) :
            i - 1 \in relay'.skipped <=> sender'.blocks[i].kind = "thinking" /\ plan'.suppress
      /\ \A m \in relay'.skipped : m < Len(sender'.blocks)
      /\ \A m \in DOMAIN relay'.map : relay'.map[m] < relay'.next
  BY <1>2
<1>9. /\ sender'.phase = "silent" <=> Kept' = <<>>
      /\ sender'.phase = "silent" => sender'.blocks = <<>>
      /\ sender'.phase \in {"delta", "end"} => Relay!OpenBlocks' = {}
      /\ \A i \in Relay!OpenBlocks' : i = Len(sender'.blocks)
      /\ Relay!Opened(Kept') = IF Relay!OpenBlocks' = {} \/ Len(sender'.blocks) - 1 \in relay'.skipped THEN {}
                               ELSE {relay'.map[Len(sender'.blocks) - 1]}
  BY <1>1, <1>2, <1>3, <1>7
<1>10. /\ \A m \in BlockIndexes(Kept', "start") \union BlockIndexes(Kept', "stop") : m < relay'.next
       /\ IsFiniteSet(Starts(Kept')) /\ Cardinality(Starts(Kept')) = relay'.next
  BY <1>2, <1>6, <1>7
<1> QED BY <1>1, <1>2, <1>8, <1>9, <1>10 DEF RelayFollows

LEMMA TakenIs ==
    ASSUME NEW frame, NEW message, Relay!Take(frame, message)
    PROVE  sender' = message /\ Relay!Take(frame, sender')
BY DEF Relay!Take

LEMMA MessageNext == ASSUME RelayInv, MessageInv, [Relay!Next]_Relay!vars PROVE MessageInv'
<1>0. /\ RelayTypes /\ OfThisAttempt /\ relayed \in Seq(Frames) /\ relay.pending \in Seq(Frames)
      /\ \A x \in Seq(Frames) : x \o <<>> = x
  BY ConcatEmptySeq DEF RelayInv, RelayTypes, Relays
<1>1. CASE Relay!Begin \/ Relay!Reject \/ Relay!Refuse
  <2>1. /\ relayPc \in {"new", "open"} /\ relayed' = relayed /\ relayPc' \in {"open", "failed"}
        /\ (relay' = relay \/ relay' = Relay!NewRelay)
    BY <1>1 DEF Relay!Begin, Relay!Reject, Relay!Refuse, Relay!Retried
  <2>2. relayed = <<>> /\ relay.pending = <<>>
    BY <1>0, <2>1 DEF OfThisAttempt, Held
  <2>3. Kept' = <<>>
    BY <2>1, <2>2, NewRelayIs, NothingKept DEF Kept, Held
  <2> QED BY <2>1, <2>3, NothingIsMessage DEF MessageInv
<1>2. CASE Relay!Open
  <2>1. /\ relayPc = "open" /\ relayPc' = "stream" /\ sender' = Relay!Silent /\ relay' = Relay!NewRelay
        /\ relayed' = relayed
    BY <1>2 DEF Relay!Open
  <2>2. relayed' = <<>>
    BY <1>0, <2>1 DEF OfThisAttempt
  <2>3. Kept' = <<>> /\ RelayFollows'
    BY <2>1, <2>2, FollowsNothing
  <2>4. IsMessage(Kept', plan'.suppress)
    BY <2>3, NothingIsMessage
  <2> QED BY <2>1, <2>3, <2>4 DEF MessageInv
<1>3. CASE Relay!Receive
  <2>0. /\ relayPc = "stream" /\ relayPc' = "stream" /\ plan' = plan /\ Relay!Upstream
        /\ IsMessage(Kept, plan.suppress) /\ RelayFollows
    BY <1>3 DEF Relay!Receive, MessageInv
  <2>1. CASE \/ /\ sender.phase = "silent"
                /\ Relay!Take(Relay!Frame("message_start", 0, "none"), [sender EXCEPT !.phase = "content"])
             \/ /\ sender.phase # "silent"
                /\ Relay!Take(Relay!Frame("ping", 0, "none"), sender)
             \/ /\ sender.phase = "content" /\ Relay!OpenBlocks = {}
                /\ Relay!Take(Relay!Frame("message_delta", 0, "none"), [sender EXCEPT !.phase = "delta"])
             \/ /\ sender.phase = "delta"
                /\ Relay!Take(Relay!Frame("message_stop", 0, "none"), [sender EXCEPT !.phase = "end"])
    <3>1. sender = [sender EXCEPT !.phase = sender.phase]
      BY <1>0 DEF RelayTypes, Senders
    <3>2. PICK type \in {"message_start", "ping", "message_delta", "message_stop"},
               phase \in {"content", "delta", "end", sender.phase} :
             /\ Relay!Take(Relay!Frame(type, 0, "none"), [sender EXCEPT !.phase = phase])
             /\ \/ type = "message_start" /\ sender.phase = "silent" /\ phase = "content"
                \/ type = "ping" /\ sender.phase # "silent" /\ phase = sender.phase
                \/ /\ type = "message_delta" /\ sender.phase = "content" /\ phase = "delta"
                   /\ Relay!OpenBlocks = {}
                \/ type = "message_stop" /\ sender.phase = "delta" /\ phase = "end"
      BY <2>1, <3>1
    <3>3. sender' = [sender EXCEPT !.phase = phase] /\ Relay!Take(Relay!Frame(type, 0, "none"), sender')
      BY <3>2, TakenIs
    <3> QED BY <2>0, <3>2, <3>3, FollowsMessage DEF MessageInv
  <2>2. CASE /\ sender.phase = "content" /\ Relay!OpenBlocks = {} /\ Len(sender.blocks) < MaxBlocks
             /\ \E k \in {"thinking", "text"} :
                   Relay!Take(Relay!Frame("start", Len(sender.blocks), k),
                              [sender EXCEPT !.blocks = Append(@, [open |-> TRUE, kind |-> k])])
    <3>1. PICK k \in BlockKinds :
             Relay!Take(Relay!Frame("start", Len(sender.blocks), k),
                        [sender EXCEPT !.blocks = Append(@, [open |-> TRUE, kind |-> k])])
      BY <2>2 DEF BlockKinds
    <3>2. /\ sender' = [sender EXCEPT !.blocks = Append(@, [open |-> TRUE, kind |-> k])]
          /\ Relay!Take(Relay!Frame("start", Len(sender.blocks), k), sender')
      BY <3>1, TakenIs
    <3> QED BY <2>0, <2>2, <3>2, FollowsStart DEF MessageInv
  <2>3. CASE \E i \in Relay!OpenBlocks : Relay!Take(Relay!Frame("delta", i - 1, sender.blocks[i].kind), sender)
    <3>1. PICK i \in Relay!OpenBlocks : Relay!Take(Relay!Frame("delta", i - 1, sender.blocks[i].kind), sender)
      BY <2>3
    <3>2. sender' = sender /\ Relay!Take(Relay!Frame("delta", i - 1, sender.blocks[i].kind), sender')
      BY <3>1, TakenIs
    <3> QED BY <2>0, <3>2, FollowsContent DEF MessageInv
  <2>4. CASE \E i \in Relay!OpenBlocks :
                Relay!Take(Relay!Frame("stop", i - 1, sender.blocks[i].kind), [sender EXCEPT !.blocks[i].open = FALSE])
    <3>1. PICK i \in Relay!OpenBlocks :
             Relay!Take(Relay!Frame("stop", i - 1, sender.blocks[i].kind), [sender EXCEPT !.blocks[i].open = FALSE])
      BY <2>4
    <3>2. /\ sender' = [sender EXCEPT !.blocks[i].open = FALSE]
          /\ Relay!Take(Relay!Frame("stop", i - 1, sender.blocks[i].kind), sender')
      BY <3>1, TakenIs
    <3> QED BY <2>0, <3>2, FollowsContent DEF MessageInv
  <2> QED BY <2>0, <2>1, <2>2, <2>3, <2>4 DEF Relay!Upstream
<1>4. CASE Relay!Finish
  <2>1. /\ relayPc = "stream" /\ relayPc' = "done" /\ relay.stopped /\ relayed' = relayed \o relay.pending
        /\ UNCHANGED <<attempts, plan, rejected, sender, relay, accepted>>
    BY <1>4 DEF Relay!Finish
  <2>2. relay.pending = <<>>
    BY <1>0, <2>1 DEF OfThisAttempt, Held
  <2>3. relayed' = relayed
    BY <1>0, <2>1, <2>2
  <2>4. Kept' = Kept /\ Relay!OpenBlocks' = Relay!OpenBlocks
    BY <2>1, <2>3 DEF Kept, Held, Relay!OpenBlocks
  <2>5. RelayFollows'
    BY <2>1, <2>4 DEF RelayFollows, MessageInv
  <2> QED BY <2>1, <2>4, <2>5 DEF MessageInv
<1>5. CASE Relay!Break
  <2>1. /\ relayPc = "stream" /\ relay' = Relay!NewRelay /\ plan' = plan /\ relayed' = relayed
        /\ relayPc' \in {"open", "failed"}
    BY <1>5 DEF Relay!Break, Relay!Retried
  <2>2. IsMessage(relayed, plan.suppress)
    BY <1>0, PrefixIsMessage DEF Kept, Held, MessageInv
  <2>3. Kept' = relayed
    BY <1>0, <2>1, NewRelayIs DEF Kept, Held
  <2> QED BY <2>1, <2>2, <2>3 DEF MessageInv
<1>6. CASE UNCHANGED Relay!vars
  <2>1. Kept' = Kept /\ Relay!OpenBlocks' = Relay!OpenBlocks
    BY <1>6 DEF Relay!vars, Kept, Held, Relay!OpenBlocks
  <2> QED BY <1>6, <2>1 DEF Relay!vars, MessageInv, RelayFollows
<1> QED BY <1>1, <1>2, <1>3, <1>4, <1>5, <1>6 DEF Relay!Next

LEMMA MessageIsRelayed == ASSUME RelayInv, MessageInv PROVE Relay!RelayedIsAMessage
<1>1. /\ relayed \in Seq(Frames) /\ relay.pending \in Seq(Frames) /\ OfThisAttempt
  BY DEF RelayInv, RelayTypes, Relays
<1>2. IsMessage(relayed, plan.suppress)
  BY <1>1, PrefixIsMessage DEF Kept, Held, MessageInv
<1>3. relayPc = "done" => \E i \in DOMAIN relayed : relayed[i].type = "message_stop"
  <2>1. SUFFICES ASSUME relayPc = "done" PROVE \E i \in DOMAIN relayed : relayed[i].type = "message_stop"
    OBVIOUS
  <2>2. relay.pending = <<>>
    BY <1>1, <2>1 DEF OfThisAttempt, Held
  <2>3. Kept = relayed
    BY <1>1, <2>2, ConcatEmptySeq DEF Kept, Held
  <2> QED BY <2>1, <2>3 DEF MessageInv, RelayFollows
<1> QED BY <1>2, <1>3, RelaySets DEF Relay!RelayedIsAMessage, IsMessage, FrameFits

-----------------------------------------------------------------------------
(* The stream of a response: ResponsesAssembler *)

-----------------------------------------------------------------------------
ItemTypes == {"part_added", "delta", "done", "item_done"}
Items     == Responses!Kinds \union {Responses!NoItem}
Told      == [type : ItemTypes \union {"created", "item_added"}, slot : Nat, output : {<<>>}]

Keys      == Int \union Indexes
OpenItems == [kind : Responses!Kinds, slot : Nat, parts : {"none", "some", "whole", "broken"}]
Actives   == UNION {[D -> OpenItems] : D \in SUBSET Keys}
Assemblers == [started : BOOLEAN, terminal : BOOLEAN, stop : {"none", "end_turn", "max_tokens"},
               provisional : BOOLEAN, active : Actives, slots : Seq(Items), fallback : Int]

\* The slots of the events of a type, all of them or those before the k-th event, and the
\* places of these events.
Slots(S, type) == {S[j].slot : j \in {j \in DOMAIN S : S[j].type = type}}
SlotsBefore(S, type, k) == {S[j].slot : j \in {j \in DOMAIN S : j < k /\ S[j].type = type}}
ItemPlaces(S, type) == {j \in DOMAIN S : S[j].type = type}

\* An event fits behind those before it.
Fits(S, k) ==
    /\ S[k].type = "created" <=> k = 1
    /\ S[k].type = "item_added" => S[k].slot = Cardinality(SlotsBefore(S, "item_added", k))
    /\ S[k].type \in ItemTypes =>
          S[k].slot \in SlotsBefore(S, "item_added", k) \ SlotsBefore(S, "item_done", k)

Reserved(a) == 0 .. Len(a.slots) - 1
Empty(a, s) == s \in Reserved(a) /\ a.slots[s + 1] = Responses!NoItem

\* What was told agrees with the assembler.
AnswerAgrees(a, S) ==
    /\ S \in Seq(Told)
    /\ \A k \in DOMAIN S : Fits(S, k)
    /\ Slots(S, "item_added") = Reserved(a)
    /\ Slots(S, "item_done") = {s \in Reserved(a) : ~Empty(a, s)}
    /\ IsFiniteSet(ItemPlaces(S, "item_added")) /\ Cardinality(ItemPlaces(S, "item_added")) = Len(a.slots)

\* Every empty slot is an active block's, or in X, or was given up.
SlotsOwned(a, X) ==
    /\ a \in Assemblers
    /\ \A i \in DOMAIN a.active : Empty(a, a.active[i].slot) /\ a.active[i].slot \notin X
    /\ \A i, j \in DOMAIN a.active : a.active[i].slot = a.active[j].slot => i = j
    /\ \A s \in X : Empty(a, s)
    /\ ~a.provisional => \A s \in Reserved(a) :
          Empty(a, s) => s \in X \/ \E i \in DOMAIN a.active : a.active[i].slot = s

-----------------------------------------------------------------------------
\* One more event that fits.
LEMMA OneEvent ==
    ASSUME NEW R, NEW S \in Seq(R), \A k \in DOMAIN S : Fits(S, k), NEW x \in R,
           x.type = "created" <=> S = <<>>,
           x.type = "item_added" => x.slot = Cardinality(Slots(S, "item_added")),
           x.type \in ItemTypes => x.slot \in Slots(S, "item_added") \ Slots(S, "item_done")
    PROVE  /\ Append(S, x) \in Seq(R) /\ \A k \in DOMAIN Append(S, x) : Fits(Append(S, x), k)
           /\ \A type : Slots(Append(S, x), type) =
                           Slots(S, type) \union (IF x.type = type THEN {x.slot} ELSE {})
           /\ \A type : ItemPlaces(Append(S, x), type) =
                           ItemPlaces(S, type) \union (IF x.type = type THEN {Len(S) + 1} ELSE {})
<1> DEFINE T == Append(S, x)
           n == Len(S) + 1
<1>1. /\ Len(S) \in Nat /\ DOMAIN S = 1 .. Len(S) /\ T \in Seq(R) /\ DOMAIN T = 1 .. n
      /\ T[n] = x /\ \A i \in DOMAIN S : T[i] = S[i]
  <2>1. /\ T \in Seq(R) /\ Len(T) = n /\ T[n] = x /\ \A i \in 1 .. Len(S) : T[i] = S[i]
    BY AppendProperties
  <2>2. Len(S) \in Nat /\ DOMAIN S = 1 .. Len(S) /\ DOMAIN T = 1 .. Len(T)
    BY <2>1, LenProperties
  <2> QED BY <2>1, <2>2
<1>2. /\ n \in DOMAIN T /\ n \notin DOMAIN S /\ \A i \in DOMAIN S : i \in DOMAIN T /\ i < n
      /\ \A i \in DOMAIN T : i \in DOMAIN S \/ i = n
      /\ S = <<>> <=> n = 1
  <2>1. S = <<>> <=> Len(S) = 0
    BY EmptySeq
  <2> QED BY <1>1, <2>1
<1> HIDE DEF T, n
<1>3. \A type, k : k \in DOMAIN S => SlotsBefore(T, type, k) = SlotsBefore(S, type, k)
  <2>1. \A k \in DOMAIN S, j \in DOMAIN T : j < k => j \in DOMAIN S
    BY <1>1, <1>2
  <2> QED BY <1>1, <1>2, <2>1 DEF SlotsBefore
<1>4. \A type : SlotsBefore(T, type, n) = Slots(S, type)
  <2>1. \A j \in DOMAIN T : j < n <=> j \in DOMAIN S
    BY <1>1, <1>2
  <2> QED BY <1>1, <1>2, <2>1 DEF SlotsBefore, Slots
<1>5. ASSUME NEW k \in DOMAIN S PROVE Fits(T, k)
  BY <1>1, <1>3 DEF Fits
<1>6. Fits(T, n)
  BY <1>1, <1>2, <1>4 DEF Fits
<1>7. \A k \in DOMAIN T : Fits(T, k)
  BY <1>2, <1>5, <1>6
<1>8. \A type : ItemPlaces(T, type) = ItemPlaces(S, type) \union (IF x.type = type THEN {n} ELSE {})
  BY <1>1, <1>2 DEF ItemPlaces
<1>9. \A type : Slots(T, type) = Slots(S, type) \union (IF x.type = type THEN {x.slot} ELSE {})
  <2>1. SUFFICES ASSUME NEW type, NEW s
                 PROVE  s \in Slots(T, type) <=> s \in Slots(S, type) \/ (x.type = type /\ s = x.slot)
    OBVIOUS
  <2>2. s \in Slots(T, type) <=> \E j \in DOMAIN T : T[j].type = type /\ s = T[j].slot
    BY DEF Slots
  <2>3. s \in Slots(S, type) <=> \E j \in DOMAIN S : S[j].type = type /\ s = S[j].slot
    BY DEF Slots
  <2> QED BY <1>1, <1>2, <2>2, <2>3
<1> QED BY <1>1, <1>7, <1>8, <1>9 DEF T, n

LEMMA AssemblerFields ==
    ASSUME NEW a \in Assemblers
    PROVE  /\ a.slots \in Seq(Items) /\ Len(a.slots) \in Nat /\ DOMAIN a.slots = 1 .. Len(a.slots)
           /\ a.active \in Actives /\ DOMAIN a.active \subseteq Keys
           /\ \A i \in DOMAIN a.active : a.active[i] \in OpenItems
           /\ a.active = [i \in DOMAIN a.active |-> a.active[i]]
           /\ a.started \in BOOLEAN /\ a.terminal \in BOOLEAN /\ a.provisional \in BOOLEAN
           /\ a.stop \in {"none", "end_turn", "max_tokens"} /\ a.fallback \in Int
           /\ Reserved(a) \subseteq Nat
           /\ \A s \in Reserved(a) : s + 1 \in DOMAIN a.slots
<1>1. /\ a.slots \in Seq(Items) /\ a.active \in Actives
      /\ a.started \in BOOLEAN /\ a.terminal \in BOOLEAN /\ a.provisional \in BOOLEAN
      /\ a.stop \in {"none", "end_turn", "max_tokens"} /\ a.fallback \in Int
  BY DEF Assemblers
<1>2. Len(a.slots) \in Nat /\ DOMAIN a.slots = 1 .. Len(a.slots)
  BY <1>1, LenProperties
<1>3. PICK D \in SUBSET Keys : a.active \in [D -> OpenItems]
  BY <1>1 DEF Actives
<1>4. /\ DOMAIN a.active \subseteq Keys
      /\ \A i \in DOMAIN a.active : a.active[i] \in OpenItems
      /\ a.active = [i \in DOMAIN a.active |-> a.active[i]]
  BY <1>3
<1>5. /\ Reserved(a) \subseteq Nat
      /\ \A s \in Reserved(a) : s + 1 \in DOMAIN a.slots
  BY <1>2 DEF Reserved
<1> QED BY <1>1, <1>2, <1>4, <1>5

\* An event of an item that is open changes nothing.
LEMMA AgreesWithItemEvent ==
    ASSUME NEW a, NEW S, AnswerAgrees(a, S), S # <<>>, NEW x \in Told, x.type \in {"part_added", "delta", "done"},
           Empty(a, x.slot)
    PROVE  AnswerAgrees(a, Append(S, x))
<1> DEFINE T == Append(S, x)
<1>1. /\ S \in Seq(Told) /\ \A k \in DOMAIN S : Fits(S, k)
      /\ Slots(S, "item_added") = Reserved(a)
      /\ Slots(S, "item_done") = {s \in Reserved(a) : ~Empty(a, s)}
      /\ IsFiniteSet(ItemPlaces(S, "item_added")) /\ Cardinality(ItemPlaces(S, "item_added")) = Len(a.slots)
  BY DEF AnswerAgrees
<1>2. x.type # "created" /\ x.type # "item_added" /\ x.type # "item_done" /\ x.type \in ItemTypes
  BY DEF ItemTypes
<1>3. x.slot \in Slots(S, "item_added") \ Slots(S, "item_done")
  BY <1>1 DEF Empty
<1>4. /\ T \in Seq(Told) /\ \A k \in DOMAIN T : Fits(T, k)
      /\ Slots(T, "item_added") = Slots(S, "item_added")
      /\ Slots(T, "item_done") = Slots(S, "item_done")
      /\ ItemPlaces(T, "item_added") = ItemPlaces(S, "item_added")
  <2>1. /\ T \in Seq(Told) /\ \A k \in DOMAIN T : Fits(T, k)
        /\ \A type : Slots(T, type) = Slots(S, type) \union (IF x.type = type THEN {x.slot} ELSE {})
        /\ \A type : ItemPlaces(T, type) =
                        ItemPlaces(S, type) \union (IF x.type = type THEN {Len(S) + 1} ELSE {})
    BY <1>1, <1>2, <1>3, OneEvent
  <2> HIDE DEF T
  <2>2. /\ Slots(T, "item_added") = Slots(S, "item_added") \union {}
        /\ Slots(T, "item_done") = Slots(S, "item_done") \union {}
        /\ ItemPlaces(T, "item_added") = ItemPlaces(S, "item_added") \union {}
    BY <1>2, <2>1
  <2> QED BY <2>1, <2>2
<1> HIDE DEF T
<1>5. AnswerAgrees(a, T)
  BY <1>1, <1>4 DEF AnswerAgrees
<1> QED BY <1>5 DEF T

\* A slot is reserved.
LEMMA AgreesWithAdded ==
    ASSUME NEW a \in Assemblers, NEW S, AnswerAgrees(a, S), S # <<>>, NEW x \in Told, x.type = "item_added",
           x.slot = Len(a.slots), NEW b, b.slots = Append(a.slots, Responses!NoItem)
    PROVE  AnswerAgrees(b, Append(S, x))
<1> DEFINE T == Append(S, x)
           n == Len(a.slots)
<1>1. /\ S \in Seq(Told) /\ \A k \in DOMAIN S : Fits(S, k)
      /\ Slots(S, "item_added") = Reserved(a)
      /\ Slots(S, "item_done") = {s \in Reserved(a) : ~Empty(a, s)}
      /\ IsFiniteSet(ItemPlaces(S, "item_added")) /\ Cardinality(ItemPlaces(S, "item_added")) = Len(a.slots)
  BY DEF AnswerAgrees
<1>2. n \in Nat /\ a.slots \in Seq(Items) /\ DOMAIN a.slots = 1 .. n
  BY AssemblerFields
<1>3. Cardinality(Reserved(a)) = n
  <2> DEFINE m == n - 1
  <2>1. m \in Int /\ 0 \in Int
    BY <1>2
  <2> HIDE DEF m
  <2>2. Cardinality(0 .. m) = IF 0 > m THEN 0 ELSE m - 0 + 1
    BY <2>1, FS_Interval
  <2>3. (IF 0 > m THEN 0 ELSE m - 0 + 1) = n
    BY <1>2 DEF m
  <2> QED BY <2>2, <2>3 DEF Reserved, m
<1>4. /\ T \in Seq(Told) /\ \A k \in DOMAIN T : Fits(T, k)
      /\ Slots(T, "item_added") = Slots(S, "item_added") \union {n}
      /\ Slots(T, "item_done") = Slots(S, "item_done")
      /\ ItemPlaces(T, "item_added") = ItemPlaces(S, "item_added") \union {Len(S) + 1}
  <2>0. x.type # "created" /\ x.type \notin ItemTypes /\ x.type # "item_done"
    BY DEF ItemTypes
  <2>1. /\ T \in Seq(Told) /\ \A k \in DOMAIN T : Fits(T, k)
        /\ \A type : Slots(T, type) = Slots(S, type) \union (IF x.type = type THEN {x.slot} ELSE {})
        /\ \A type : ItemPlaces(T, type) =
                        ItemPlaces(S, type) \union (IF x.type = type THEN {Len(S) + 1} ELSE {})
    BY <1>1, <1>3, <2>0, OneEvent
  <2> HIDE DEF T
  <2>2. /\ Slots(T, "item_added") = Slots(S, "item_added") \union {n}
        /\ Slots(T, "item_done") = Slots(S, "item_done") \union {}
        /\ ItemPlaces(T, "item_added") = ItemPlaces(S, "item_added") \union {Len(S) + 1}
    BY <2>0, <2>1
  <2> QED BY <2>1, <2>2
<1> HIDE DEF T
<1>5. /\ Len(b.slots) = n + 1 /\ b.slots[n + 1] = Responses!NoItem
      /\ \A i \in 1 .. n : b.slots[i] = a.slots[i]
  BY <1>2, AppendProperties DEF Items
<1>6. Reserved(b) = Reserved(a) \union {n}
  BY <1>2, <1>5 DEF Reserved
<1>7. {s \in Reserved(b) : ~Empty(b, s)} = {s \in Reserved(a) : ~Empty(a, s)}
  <2>1. \A s \in Reserved(a) : Empty(b, s) <=> Empty(a, s)
    BY <1>2, <1>5, <1>6 DEF Empty, Reserved
  <2>2. Empty(b, n) /\ n \notin Reserved(a)
    BY <1>2, <1>5, <1>6 DEF Empty, Reserved
  <2> QED BY <1>6, <2>1, <2>2
<1>8. IsFiniteSet(ItemPlaces(T, "item_added")) /\ Cardinality(ItemPlaces(T, "item_added")) = n + 1
  <2>1. Len(S) + 1 \notin ItemPlaces(S, "item_added")
    BY <1>1, LenProperties DEF ItemPlaces
  <2> DEFINE P == ItemPlaces(S, "item_added")
             z == Len(S) + 1
  <2>2. IsFiniteSet(P) /\ Cardinality(P) = n /\ z \notin P /\ ItemPlaces(T, "item_added") = P \union {z}
    BY <1>1, <1>4, <2>1
  <2> HIDE DEF P, z
  <2> QED BY <2>2, FS_AddElement
<1>9. AnswerAgrees(b, T)
  BY <1>1, <1>4, <1>5, <1>6, <1>7, <1>8 DEF AnswerAgrees
<1> QED BY <1>9 DEF T

\* An item is committed to its slot.
LEMMA AgreesWithDone ==
    ASSUME NEW a \in Assemblers, NEW S, AnswerAgrees(a, S), S # <<>>, NEW x \in Told, x.type = "item_done",
           NEW s, Empty(a, s), x.slot = s, NEW kind \in Responses!Kinds,
           NEW b, b.slots = [a.slots EXCEPT ![s + 1] = kind]
    PROVE  AnswerAgrees(b, Append(S, x))
<1> DEFINE T == Append(S, x)
           n == Len(a.slots)
<1>1. /\ S \in Seq(Told) /\ \A k \in DOMAIN S : Fits(S, k)
      /\ Slots(S, "item_added") = Reserved(a)
      /\ Slots(S, "item_done") = {t \in Reserved(a) : ~Empty(a, t)}
      /\ IsFiniteSet(ItemPlaces(S, "item_added")) /\ Cardinality(ItemPlaces(S, "item_added")) = Len(a.slots)
  BY DEF AnswerAgrees
<1>2. n \in Nat /\ a.slots \in Seq(Items) /\ DOMAIN a.slots = 1 .. n /\ Reserved(a) \subseteq Nat
  BY AssemblerFields
<1>3. s \in Slots(S, "item_added") \ Slots(S, "item_done") /\ s \in Nat /\ s + 1 \in 1 .. n
  BY <1>1, <1>2 DEF Empty, Reserved
<1>4. /\ T \in Seq(Told) /\ \A k \in DOMAIN T : Fits(T, k)
      /\ Slots(T, "item_added") = Slots(S, "item_added")
      /\ Slots(T, "item_done") = Slots(S, "item_done") \union {s}
      /\ ItemPlaces(T, "item_added") = ItemPlaces(S, "item_added")
  <2>0. x.type # "created" /\ x.type \in ItemTypes /\ x.type # "item_added"
    BY DEF ItemTypes
  <2>1. /\ T \in Seq(Told) /\ \A k \in DOMAIN T : Fits(T, k)
        /\ \A type : Slots(T, type) = Slots(S, type) \union (IF x.type = type THEN {x.slot} ELSE {})
        /\ \A type : ItemPlaces(T, type) =
                        ItemPlaces(S, type) \union (IF x.type = type THEN {Len(S) + 1} ELSE {})
    BY <1>1, <1>3, <2>0, OneEvent
  <2> HIDE DEF T
  <2>2. /\ Slots(T, "item_added") = Slots(S, "item_added") \union {}
        /\ Slots(T, "item_done") = Slots(S, "item_done") \union {s}
        /\ ItemPlaces(T, "item_added") = ItemPlaces(S, "item_added") \union {}
    BY <2>0, <2>1
  <2> QED BY <2>1, <2>2
<1> HIDE DEF T
<1>5. /\ Len(b.slots) = n /\ b.slots[s + 1] = kind /\ kind # Responses!NoItem
      /\ \A i \in 1 .. n : i # s + 1 => b.slots[i] = a.slots[i]
  <2>1. kind \in Items /\ kind # Responses!NoItem
    BY DEF Items, Responses!Kinds, Responses!NoItem
  <2> DEFINE q == a.slots
             p == s + 1
  <2>2. q \in Seq(Items) /\ p \in 1 .. Len(q) /\ b.slots = [q EXCEPT ![p] = kind]
    BY <1>2, <1>3
  <2> HIDE DEF q, p
  <2>3. Len([q EXCEPT ![p] = kind]) = Len(q) /\ [q EXCEPT ![p] = kind][p] = kind
        /\ \A i \in 1 .. Len(q) : i # p => [q EXCEPT ![p] = kind][i] = q[i]
    BY <2>1, <2>2, ExceptSeq
  <2> QED BY <2>1, <2>2, <2>3 DEF q, p
<1>6. Reserved(b) = Reserved(a)
  BY <1>2, <1>5 DEF Reserved
<1>7. {t \in Reserved(b) : ~Empty(b, t)} = {t \in Reserved(a) : ~Empty(a, t)} \union {s}
  <2>1. \A t \in Reserved(a) : t # s => (Empty(b, t) <=> Empty(a, t))
    BY <1>2, <1>3, <1>5, <1>6 DEF Empty, Reserved
  <2>2. ~Empty(b, s) /\ s \in Reserved(a)
    BY <1>3, <1>5, <1>6 DEF Empty
  <2> QED BY <1>6, <2>1, <2>2
<1>8. AnswerAgrees(b, T)
  BY <1>1, <1>4, <1>5, <1>6, <1>7 DEF AnswerAgrees
<1> QED BY <1>8 DEF T

-----------------------------------------------------------------------------
\* An emission behind the events B.
Answers == [asm : Assemblers, ev : Seq(Told)]

Tells(e, B, X) ==
    /\ e \in Answers /\ B \in Seq(Told) /\ B \o e.ev # <<>>
    /\ AnswerAgrees(e.asm, B \o e.ev) /\ SlotsOwned(e.asm, X) /\ e.asm.started /\ ~e.asm.terminal

LEMMA AnswerFields ==
    ASSUME NEW e \in Answers
    PROVE  e.asm \in Assemblers /\ e.ev \in Seq(Told) /\ e = [asm |-> e.asm, ev |-> e.ev]
BY DEF Answers

LEMMA OneMoreTold ==
    ASSUME NEW R, NEW B \in Seq(R), NEW v \in Seq(R), NEW x \in R
    PROVE  /\ Append(v, x) \in Seq(R) /\ v \o <<x>> = Append(v, x)
           /\ B \o Append(v, x) = Append(B \o v, x) /\ B \o v \in Seq(R)
           /\ Append(B \o v, x) # <<>>
<1>1. v \o <<x>> = Append(v, x)
  BY AppendIsConcat
<1>2. Append(v, x) \in Seq(R)
  BY AppendProperties
<1> DEFINE D == <<x>>
<1>3. D \in Seq(R) /\ v \o D = Append(v, x)
  BY <1>1
<1> HIDE DEF D
<1>5. B \o (v \o D) = (B \o v) \o D
  <2>1. D \in Seq(R)
    BY <1>3
  <2> QED BY <2>1, ConcatAssociative
<1> DEFINE S == B \o v
<1>4. S \in Seq(R)
  BY ConcatProperties
<1> HIDE DEF S
<1>6. Append(S, x) = S \o D
  BY <1>4, AppendIsConcat DEF D
<1>7. Append(S, x) # <<>>
  <2>1. Len(Append(S, x)) = Len(S) + 1 /\ Len(S) \in Nat /\ Append(S, x) \in Seq(R)
    BY <1>4, AppendProperties, LenProperties
  <2> QED BY <2>1, EmptySeq
<1> QED BY <1>1, <1>2, <1>3, <1>4, <1>5, <1>6, <1>7 DEF S, D

LEMMA TwoMore ==
    ASSUME NEW R, NEW v \in Seq(R), NEW x \in R, NEW y \in R
    PROVE  v \o (<<x>> \o <<y>>) = Append(Append(v, x), y)
<1> DEFINE D == <<x>>
<1>1. D \in Seq(R) /\ v \o D = Append(v, x)
  BY OneMoreTold
<1> HIDE DEF D
<1>2. D \o <<y>> = Append(D, y) /\ v \o Append(D, y) = Append(v \o D, y)
  BY <1>1, OneMoreTold
<1> QED BY <1>1, <1>2 DEF D

LEMMA ItemEventIs ==
    ASSUME NEW type \in ItemTypes \union {"created", "item_added"}, NEW slot \in Nat
    PROVE  /\ Responses!ItemEvent(type, slot) \in Told
           /\ Responses!ItemEvent(type, slot).type = type /\ Responses!ItemEvent(type, slot).slot = slot
BY DEF Responses!ItemEvent, Responses!Event, Told

\* One event of an open item.
LEMMA SayIs ==
    ASSUME NEW e, NEW B, NEW X, Tells(e, B, X), NEW x \in Told, x.type \in {"part_added", "delta", "done"},
           Empty(e.asm, x.slot)
    PROVE  Tells([asm |-> e.asm, ev |-> Append(e.ev, x)], B, X)
<1> DEFINE d == [asm |-> e.asm, ev |-> Append(e.ev, x)]
           v == e.ev
           S == B \o v
<1>1. /\ e.asm \in Assemblers /\ v \in Seq(Told) /\ B \in Seq(Told) /\ S # <<>>
      /\ AnswerAgrees(e.asm, S) /\ SlotsOwned(e.asm, X) /\ e.asm.started /\ ~e.asm.terminal
  BY AnswerFields DEF Tells
<1> HIDE DEF v
<1>2. Append(v, x) \in Seq(Told) /\ B \o Append(v, x) = Append(S, x) /\ Append(S, x) # <<>>
  BY <1>1, OneMoreTold
<1> HIDE DEF S
<1>3. AnswerAgrees(e.asm, Append(S, x))
  BY <1>1, AgreesWithItemEvent
<1>4. d.asm = e.asm /\ d.ev = Append(v, x) /\ d \in Answers
  BY <1>1, <1>2 DEF Answers, v
<1> HIDE DEF d
<1>5. Tells(d, B, X)
  BY <1>1, <1>2, <1>3, <1>4 DEF Tells
<1> QED BY <1>5 DEF d

\* An item is done.
LEMMA ItemCommitIs ==
    ASSUME NEW e, NEW B, NEW block \in OpenItems, Tells(e, B, {block.slot})
    PROVE  LET d == [asm |-> Responses!Commit(e.asm, block.slot, block.kind),
                     ev |-> Append(e.ev, Responses!ItemEvent("item_done", block.slot))]
           IN  /\ Tells(d, B, {}) /\ d.asm.active = e.asm.active
               /\ Len(d.asm.slots) = Len(e.asm.slots)
<1> DEFINE s == block.slot
           kind == block.kind
           x == Responses!ItemEvent("item_done", s)
           a == e.asm
           b == Responses!Commit(a, s, kind)
           v == e.ev
           S == B \o v
           q == [a.slots EXCEPT ![s + 1] = kind]
<1>1. /\ a \in Assemblers /\ v \in Seq(Told) /\ B \in Seq(Told) /\ S # <<>>
      /\ AnswerAgrees(a, S) /\ SlotsOwned(a, {s}) /\ a.started /\ ~a.terminal
  BY AnswerFields DEF Tells
<1>2. s \in Nat /\ kind \in Responses!Kinds
  BY DEF OpenItems
<1>3. x \in Told /\ x.type = "item_done" /\ x.slot = s
  BY <1>2, ItemEventIs DEF ItemTypes
<1>4. Empty(a, s)
  BY <1>1 DEF SlotsOwned
<1>5. /\ a.slots \in Seq(Items) /\ Len(a.slots) \in Nat /\ DOMAIN a.slots = 1 .. Len(a.slots)
      /\ s + 1 \in 1 .. Len(a.slots)
      /\ Reserved(a) \subseteq Nat
  BY <1>1, <1>4, AssemblerFields DEF Empty
<1>6. kind \in Items /\ kind # Responses!NoItem
  BY <1>2 DEF Items, Responses!Kinds, Responses!NoItem
<1>7. /\ q \in Seq(Items) /\ Len(q) = Len(a.slots) /\ q[s + 1] = kind
      /\ \A i \in 1 .. Len(a.slots) : i # s + 1 => q[i] = a.slots[i]
  <2> DEFINE f == a.slots
             p == s + 1
  <2>1. f \in Seq(Items) /\ p \in 1 .. Len(f) /\ q = [f EXCEPT ![p] = kind]
    BY <1>5
  <2> HIDE DEF f, p, q
  <2>2. q \in Seq(Items) /\ Len(q) = Len(f) /\ q[p] = kind
        /\ \A i \in 1 .. Len(f) : i # p => q[i] = f[i]
    BY <1>6, <2>1, ExceptSeq
  <2> QED BY <2>2 DEF f, p
<1>8. b = [a EXCEPT !.slots = q]
  BY DEF Responses!Commit
<1> HIDE DEF q, x, v, a, s, kind
<1> HIDE DEF b
<1>9. /\ b \in Assemblers /\ b.slots = q /\ b.active = a.active /\ b.provisional = a.provisional
      /\ b.started = a.started /\ b.terminal = a.terminal
  BY <1>1, <1>7, <1>8 DEF Assemblers
<1>10. AnswerAgrees(b, Append(S, x))
  <2>1. b.slots = [a.slots EXCEPT ![s + 1] = kind]
    BY <1>9 DEF q
  <2> HIDE DEF S
  <2> QED BY <1>1, <1>2, <1>3, <1>4, <2>1, AgreesWithDone
<1>11. Reserved(b) = Reserved(a) /\ ~Empty(b, s)
       /\ \A t \in Reserved(a) : t # s => (Empty(b, t) <=> Empty(a, t))
  <2>1. Reserved(b) = Reserved(a)
    BY <1>7, <1>9 DEF Reserved
  <2>2. \A t \in Reserved(a) : t + 1 \in 1 .. Len(a.slots)
    BY <1>5 DEF Reserved
  <2>3. \A t \in Reserved(a) : t # s => b.slots[t + 1] = a.slots[t + 1]
    <3>1. \A t \in Reserved(a) : t \in Nat /\ s \in Nat /\ (t # s => t + 1 # s + 1)
      BY <1>2, <1>5
    <3> QED BY <1>7, <1>9, <2>2, <3>1
  <2>4. b.slots[s + 1] # Responses!NoItem
    BY <1>6, <1>7, <1>9
  <2> QED BY <2>1, <2>3, <2>4 DEF Empty
<1>12. SlotsOwned(b, {})
  <2>1. \A i \in DOMAIN a.active : a.active[i].slot # s /\ Empty(a, a.active[i].slot)
    BY <1>1 DEF SlotsOwned
  <2>2. \A i \in DOMAIN a.active : Empty(b, a.active[i].slot)
    BY <1>11, <2>1 DEF Empty
  <2>3. ~b.provisional => \A t \in Reserved(b) :
           Empty(b, t) => \E i \in DOMAIN a.active : a.active[i].slot = t
    BY <1>1, <1>9, <1>11 DEF SlotsOwned
  <2>4. \A i, j \in DOMAIN a.active : a.active[i].slot = a.active[j].slot => i = j
    BY <1>1 DEF SlotsOwned
  <2> QED BY <1>9, <2>2, <2>3, <2>4 DEF SlotsOwned
<1> DEFINE d == [asm |-> b, ev |-> Append(v, x)]
<1>13. Append(v, x) \in Seq(Told) /\ B \o Append(v, x) = Append(S, x) /\ Append(S, x) # <<>>
  BY <1>1, <1>3, OneMoreTold
<1>14. d.asm = b /\ d.ev = Append(v, x) /\ d \in Answers
  BY <1>9, <1>13 DEF Answers
<1>15. Tells(d, B, {}) /\ d.asm.active = a.active /\ Len(d.asm.slots) = Len(a.slots)
  <2> HIDE DEF d
  <2> QED BY <1>1, <1>7, <1>9, <1>10, <1>12, <1>13, <1>14 DEF Tells
<1> QED BY <1>15 DEF d, b, x, v, a, s, kind

LEMMA DoneIs ==
    ASSUME NEW e, NEW B, NEW block \in OpenItems, Tells(e, B, {block.slot}),
           NEW events \in {<<>>, <<Responses!ItemEvent("done", block.slot)>>,
                           <<Responses!ItemEvent("delta", block.slot)>> \o <<Responses!ItemEvent("done", block.slot)>>}
    PROVE  LET d == Responses!Done(e, block, events)
           IN  /\ Tells(d, B, {}) /\ d.asm.active = e.asm.active
               /\ Len(d.asm.slots) = Len(e.asm.slots)
<1> DEFINE s == block.slot
           x == Responses!ItemEvent("delta", s)
           y == Responses!ItemEvent("done", s)
           z == Responses!ItemEvent("item_done", s)
           v == e.ev
           f == [asm |-> e.asm, ev |-> v \o events]
<1>1. e.asm \in Assemblers /\ v \in Seq(Told) /\ e = [asm |-> e.asm, ev |-> v] /\ Empty(e.asm, s)
  BY AnswerFields DEF Tells, SlotsOwned
<1>2. /\ s \in Nat /\ x \in Told /\ x.type = "delta" /\ x.slot = s
      /\ y \in Told /\ y.type = "done" /\ y.slot = s /\ z \in Told
  BY ItemEventIs DEF OpenItems, ItemTypes
<1>3. events \in {<<>>, <<y>>, <<x>> \o <<y>>}
  OBVIOUS
<1> HIDE DEF s, x, y, z, v
<1>4. Tells(f, B, {s}) /\ f.asm = e.asm /\ f.ev = v \o events
  <2>1. CASE events = <<>>
    <3>1. v \o events = v
      BY <1>1, <2>1, ConcatEmptySeq
    <3>2. f = e
      BY <1>1, <3>1
    <3> QED BY <3>1, <3>2 DEF s, v
  <2>2. CASE events = <<y>>
    <3>1. v \o events = Append(v, y)
      BY <1>1, <1>2, <2>2, OneMoreTold
    <3>2. Tells([asm |-> e.asm, ev |-> Append(v, y)], B, {s})
      BY <1>1, <1>2, SayIs DEF v, s
    <3> QED BY <3>1, <3>2
  <2>3. CASE events = <<x>> \o <<y>>
    <3> DEFINE w == Append(v, x)
               g == [asm |-> e.asm, ev |-> w]
    <3>1. w \in Seq(Told) /\ w = v \o <<x>>
      BY <1>1, <1>2, OneMoreTold
    <3>2. v \o events = Append(Append(v, x), y)
      <4>1. v \in Seq(Told) /\ x \in Told /\ y \in Told
        BY <1>1, <1>2
      <4>2. v \o (<<x>> \o <<y>>) = Append(Append(v, x), y)
        BY <4>1, TwoMore
      <4> QED BY <2>3, <4>2
    <3>3. Tells(g, B, {s})
      BY <1>1, <1>2, SayIs DEF v, s
    <3>4. g.asm = e.asm /\ g.ev = w
      OBVIOUS
    <3> HIDE DEF g, w
    <3>5. Tells([asm |-> g.asm, ev |-> Append(g.ev, y)], B, {s})
      BY <1>1, <1>2, <3>3, <3>4, SayIs
    <3>6. v \o events = Append(w, y)
      BY <3>2 DEF w
    <3> QED BY <3>4, <3>5, <3>6
  <2> QED BY <1>3, <2>1, <2>2, <2>3
<1>5. Responses!Done(e, block, events) = [asm |-> Responses!Commit(f.asm, s, block.kind), ev |-> Append(f.ev, z)]
  <2>1. Responses!Done(e, block, events) = [asm |-> Responses!Commit(e.asm, s, block.kind), ev |-> (v \o events) \o <<z>>]
    BY DEF Responses!Done, s, v, z
  <2> DEFINE w == v \o events
  <2>2. w \in Seq(Told) /\ f.ev = w
    BY <1>4 DEF Tells, Answers
  <2> HIDE DEF w, f
  <2>3. w \o <<z>> = Append(w, z)
    BY <1>2, <2>2, OneMoreTold
  <2> QED BY <1>4, <2>1, <2>2, <2>3 DEF w
<1> HIDE DEF f
<1>6. LET d == [asm |-> Responses!Commit(f.asm, block.slot, block.kind),
                ev |-> Append(f.ev, Responses!ItemEvent("item_done", block.slot))]
      IN  /\ Tells(d, B, {}) /\ d.asm.active = f.asm.active
          /\ Len(d.asm.slots) = Len(f.asm.slots)
  BY <1>4, ItemCommitIs DEF s
<1> QED BY <1>4, <1>5, <1>6 DEF s, z

\* The rest of an assembler may change: its slots, and what is owed to them, may not.
LEMMA SlotsAreKept ==
    ASSUME NEW e, NEW B, NEW X, Tells(e, B, X), NEW b, NEW Y, SlotsOwned(b, Y), b.slots = e.asm.slots,
           b.started, ~b.terminal
    PROVE  Tells([asm |-> b, ev |-> e.ev], B, Y)
<1> DEFINE d == [asm |-> b, ev |-> e.ev]
           S == B \o e.ev
<1>1. e.ev \in Seq(Told) /\ B \in Seq(Told) /\ S # <<>> /\ AnswerAgrees(e.asm, S)
  BY AnswerFields DEF Tells
<1>2. b \in Assemblers
  BY DEF SlotsOwned
<1>3. d.asm = b /\ d.ev = e.ev /\ d \in Answers
  BY <1>1, <1>2 DEF Answers
<1>4. Reserved(b) = Reserved(e.asm) /\ \A s : Empty(b, s) <=> Empty(e.asm, s)
  BY DEF Reserved, Empty
<1> HIDE DEF S, d
<1>5. AnswerAgrees(b, S)
  BY <1>1, <1>4 DEF AnswerAgrees
<1>6. B \o d.ev = S
  BY <1>3 DEF S
<1>7. Tells(d, B, Y)
  BY <1>1, <1>3, <1>5, <1>6 DEF Tells
<1> QED BY <1>7 DEF d

\* A block that was taken from the active ones is completed.
LEMMA CompleteIs ==
    ASSUME NEW e, NEW B, NEW block \in OpenItems, Tells(e, B, {block.slot})
    PROVE  /\ Tells(Responses!Complete(e, block), B, {}) /\ Responses!Complete(e, block).asm.active = e.asm.active
           /\ Len(Responses!Complete(e, block).asm.slots) = Len(e.asm.slots)
<1>1. CASE block.kind = "function" /\ block.parts = "broken"
  <2> DEFINE a == e.asm
             b == [a EXCEPT !.provisional = TRUE]
             d == [asm |-> b, ev |-> e.ev]
  <2>1. a \in Assemblers /\ e = [asm |-> a, ev |-> e.ev] /\ SlotsOwned(a, {block.slot}) /\ a.started /\ ~a.terminal
    BY AnswerFields DEF Tells
  <2>2. Responses!Complete(e, block) = d
    BY <1>1 DEF Responses!Complete, Responses!Holding
  <2> HIDE DEF a
  <2>4. /\ b \in Assemblers /\ b.slots = a.slots /\ b.active = a.active /\ b.provisional
        /\ b.started = a.started /\ b.terminal = a.terminal
    BY <2>1 DEF Assemblers
  <2> HIDE DEF b
  <2>5. SlotsOwned(b, {})
    <3>1. \A s : Empty(b, s) <=> Empty(a, s)
      BY <2>4 DEF Empty, Reserved
    <3> QED BY <2>1, <2>4, <3>1 DEF SlotsOwned
  <2>6. Tells(d, B, {})
    BY <2>1, <2>4, <2>5, SlotsAreKept DEF a
  <2>7. d.asm.active = e.asm.active /\ Len(d.asm.slots) = Len(e.asm.slots)
    BY <2>4 DEF a
  <2> QED BY <2>2, <2>6, <2>7
<1>2. CASE ~(block.kind = "function" /\ block.parts = "broken")
  <2> DEFINE delta == <<Responses!ItemEvent("delta", block.slot)>>
             done == <<Responses!ItemEvent("done", block.slot)>>
  <2>1. \E events \in {<<>>, done, delta \o done} : Responses!Complete(e, block) = Responses!Done(e, block, events)
    <3> DEFINE said == IF block.kind \in {"reasoning", "encrypted"}
                       THEN IF block.parts = "none" THEN <<>> ELSE done
                       ELSE IF block.kind = "text" \/ (block.kind = "custom" /\ block.parts = "none")
                       THEN done
                       ELSE delta \o done
    <3>1. Responses!Complete(e, block) = Responses!Done(e, block, said)
      BY <1>2 DEF Responses!Complete
    <3> HIDE DEF delta, done
    <3>2. said \in {<<>>, done, delta \o done}
      OBVIOUS
    <3> HIDE DEF said
    <3> QED BY <3>1, <3>2
  <2>2. PICK events \in {<<>>, done, delta \o done} : Responses!Complete(e, block) = Responses!Done(e, block, events)
    BY <2>1
  <2>3. LET d == Responses!Done(e, block, events)
        IN  /\ Tells(d, B, {}) /\ d.asm.active = e.asm.active
            /\ Len(d.asm.slots) = Len(e.asm.slots)
    BY <2>2, DoneIs
  <2> QED BY <2>2, <2>3
<1> QED BY <1>1, <1>2

\* A block is closed: it is no longer active, the others are.
LEMMA CloseIs ==
    ASSUME NEW e, NEW B, Tells(e, B, {}), NEW i
    PROVE  /\ Tells(Responses!Close(e, i), B, {}) /\ Responses!Close(e, i).asm.active = Responses!Without(e.asm.active, i)
           /\ Len(Responses!Close(e, i).asm.slots) = Len(e.asm.slots)
<1> DEFINE a == e.asm
<1>1. a \in Assemblers /\ e = [asm |-> a, ev |-> e.ev] /\ SlotsOwned(a, {}) /\ a.started /\ ~a.terminal
  BY AnswerFields DEF Tells
<1>2. CASE i \notin DOMAIN a.active
  <2>1. a.active = [j \in DOMAIN a.active |-> a.active[j]]
    BY <1>1, AssemblerFields
  <2>2. Responses!Without(a.active, i) = a.active
    <3>1. DOMAIN a.active \ {i} = DOMAIN a.active
      BY <1>2
    <3> QED BY <2>1, <3>1 DEF Responses!Without
  <2>3. Responses!Close(e, i) = e
    BY <1>2 DEF Responses!Close
  <2> QED BY <2>2, <2>3
<1>3. CASE i \in DOMAIN a.active
  <2> DEFINE w == Responses!Without(a.active, i)
             b == [a EXCEPT !.active = w]
             d == [asm |-> b, ev |-> e.ev]
             block == a.active[i]
  <2>1. Responses!Close(e, i) = Responses!Complete(d, block)
    BY <1>3 DEF Responses!Close, Responses!Holding
  <2>3. block \in OpenItems /\ DOMAIN a.active \subseteq Keys
    BY <1>1, <1>3, AssemblerFields
  <2> HIDE DEF a
  <2>4. /\ DOMAIN w = DOMAIN a.active \ {i} /\ w \in Actives
        /\ \A j \in DOMAIN w : w[j] = a.active[j]
    <3>1. DOMAIN w = DOMAIN a.active \ {i} /\ \A j \in DOMAIN w : w[j] = a.active[j]
      BY DEF Responses!Without
    <3>2. \A j \in DOMAIN a.active : a.active[j] \in OpenItems
      BY <1>1, AssemblerFields
    <3>3. w \in [DOMAIN a.active \ {i} -> OpenItems]
      BY <3>2 DEF Responses!Without
    <3>4. DOMAIN a.active \ {i} \in SUBSET Keys
      BY <2>3
    <3> QED BY <3>1, <3>3, <3>4 DEF Actives
  <2> HIDE DEF w, block
  <2>5. /\ b \in Assemblers /\ b.slots = a.slots /\ b.active = w /\ b.provisional = a.provisional
        /\ b.started = a.started /\ b.terminal = a.terminal
    BY <1>1, <2>4 DEF Assemblers
  <2> HIDE DEF b
  <2>6. SlotsOwned(b, {block.slot})
    <3>0. Reserved(b) = Reserved(a) /\ \A s : Empty(b, s) <=> Empty(a, s)
      BY <2>5 DEF Empty, Reserved
    <3>1. /\ \A j \in DOMAIN a.active : Empty(a, a.active[j].slot)
          /\ \A j, k \in DOMAIN a.active : a.active[j].slot = a.active[k].slot => j = k
          /\ ~a.provisional => \A s \in Reserved(a) :
                Empty(a, s) => \E j \in DOMAIN a.active : a.active[j].slot = s
      BY <1>1 DEF SlotsOwned
    <3>2. \A j \in DOMAIN w : Empty(b, w[j].slot) /\ w[j].slot # block.slot
      BY <1>3, <2>4, <3>0, <3>1 DEF block
    <3>3. \A j, k \in DOMAIN w : w[j].slot = w[k].slot => j = k
      BY <2>4, <3>1
    <3>4. Empty(b, block.slot)
      BY <1>3, <3>0, <3>1 DEF block
    <3>5. ASSUME ~b.provisional, NEW s \in Reserved(b), Empty(b, s)
          PROVE  s = block.slot \/ \E j \in DOMAIN w : w[j].slot = s
      <4>1. PICK j \in DOMAIN a.active : a.active[j].slot = s
        BY <2>5, <3>0, <3>1, <3>5
      <4>2. CASE j = i
        BY <4>1, <4>2 DEF block
      <4>3. CASE j # i
        BY <2>4, <4>1, <4>3
      <4> QED BY <4>2, <4>3
    <3> QED BY <2>5, <3>2, <3>3, <3>4, <3>5 DEF SlotsOwned
  <2>7. Tells(d, B, {block.slot}) /\ d.asm = b
    <3>1. Tells([asm |-> b, ev |-> e.ev], B, {block.slot})
      BY <1>1, <2>5, <2>6, SlotsAreKept DEF a
    <3> QED BY <3>1
  <2> HIDE DEF d
  <2>8. /\ Tells(Responses!Complete(d, block), B, {}) /\ Responses!Complete(d, block).asm.active = d.asm.active
        /\ Len(Responses!Complete(d, block).asm.slots) = Len(d.asm.slots)
    BY <2>3, <2>7, CompleteIs DEF block
  <2> QED BY <2>1, <2>5, <2>7, <2>8 DEF a, w
<1> QED BY <1>2, <1>3 DEF a

\* A block starts: it is the active one of its index, in a slot of its own.
LEMMA ItemStartIs ==
    ASSUME NEW e, NEW B, Tells(e, B, {}), NEW i \in Keys, NEW kind \in Responses!Kinds,
           NEW parts \in {"none", "some", "whole", "broken"}
    PROVE  /\ Tells(Responses!Start(e, i, kind, parts), B, {}) /\ i \in DOMAIN Responses!Start(e, i, kind, parts).asm.active
           /\ Responses!Start(e, i, kind, parts).asm.active[i].kind = kind
<1> DEFINE c == Responses!Close(e, i)
           a == c.asm
           v == c.ev
           n == Len(a.slots)
           block == [kind |-> kind, slot |-> n, parts |-> parts]
           active == Responses!With(a.active, i, block)
           slots == Append(a.slots, Responses!NoItem)
           b == [a EXCEPT !.slots = slots, !.active = active]
           x == Responses!ItemEvent("item_added", n)
           y == Responses!ItemEvent("part_added", n)
           opened == Responses!Holding(c, [c.asm EXCEPT !.slots = Append(@, Responses!NoItem),
                                                        !.active = Responses!With(@, i, block)])
           more == IF kind = "text" THEN <<y>> ELSE <<>>
<1>1. Tells(c, B, {}) /\ a.active = Responses!Without(e.asm.active, i)
  BY CloseIs
<1>2. Responses!Start(e, i, kind, parts) = Responses!Emit(opened, <<x>> \o more)
  BY DEF Responses!Start
<1> HIDE DEF c
<1>3. /\ a \in Assemblers /\ v \in Seq(Told) /\ c = [asm |-> a, ev |-> v] /\ B \in Seq(Told)
      /\ B \o v # <<>> /\ AnswerAgrees(a, B \o v) /\ SlotsOwned(a, {}) /\ a.started /\ ~a.terminal
  BY <1>1, AnswerFields DEF Tells
<1>4. opened.asm = b /\ opened.ev = v
  BY DEF Responses!Holding
<1> HIDE DEF a, v, opened
<1>5. /\ a.slots \in Seq(Items) /\ n \in Nat /\ DOMAIN a.slots = 1 .. n /\ DOMAIN a.active \subseteq Keys
      /\ \A j \in DOMAIN a.active : a.active[j] \in OpenItems
  BY <1>3, AssemblerFields
<1>6. i \notin DOMAIN a.active
  BY <1>1 DEF Responses!Without
<1>7. block \in OpenItems /\ block.slot = n /\ block.kind = kind
  BY <1>5 DEF OpenItems
<1> HIDE DEF block
<1>8. /\ DOMAIN active = DOMAIN a.active \union {i} /\ active[i] = block
      /\ \A j \in DOMAIN a.active : active[j] = a.active[j]
      /\ active \in Actives
  <2>1. DOMAIN active = DOMAIN a.active \union {i} /\ active[i] = block
        /\ \A j \in DOMAIN a.active : active[j] = a.active[j]
    BY <1>6 DEF Responses!With
  <2>2. active \in [DOMAIN a.active \union {i} -> OpenItems]
    BY <1>5, <1>7 DEF Responses!With
  <2>3. DOMAIN a.active \union {i} \in SUBSET Keys
    BY <1>5
  <2> QED BY <2>1, <2>2, <2>3 DEF Actives
<1> HIDE DEF active
<1>9. /\ slots \in Seq(Items) /\ Len(slots) = n + 1 /\ slots[n + 1] = Responses!NoItem
      /\ \A j \in 1 .. n : slots[j] = a.slots[j]
  <2>1. Responses!NoItem \in Items
    BY DEF Items
  <2> QED BY <1>5, <2>1, AppendProperties
<1> HIDE DEF slots
<1>10. /\ b \in Assemblers /\ b.slots = slots /\ b.active = active /\ b.provisional = a.provisional
       /\ b.started = a.started /\ b.terminal = a.terminal
  BY <1>3, <1>8, <1>9 DEF Assemblers
<1> HIDE DEF b
<1>11. /\ Reserved(b) = Reserved(a) \union {n} /\ n \notin Reserved(a) /\ Empty(b, n)
       /\ \A s \in Reserved(a) : Empty(b, s) <=> Empty(a, s)
  <2>1. Reserved(b) = Reserved(a) \union {n} /\ n \notin Reserved(a)
    BY <1>5, <1>9, <1>10 DEF Reserved
  <2>2. \A s \in Reserved(a) : slots[s + 1] = a.slots[s + 1]
    BY <1>5, <1>9 DEF Reserved
  <2> QED BY <1>9, <1>10, <2>1, <2>2 DEF Empty
<1>12. SlotsOwned(b, {})
  <2>1. /\ \A j \in DOMAIN a.active : Empty(a, a.active[j].slot)
        /\ \A j, k \in DOMAIN a.active : a.active[j].slot = a.active[k].slot => j = k
        /\ ~a.provisional => \A s \in Reserved(a) :
              Empty(a, s) => \E j \in DOMAIN a.active : a.active[j].slot = s
    BY <1>3 DEF SlotsOwned
  <2>2. \A j \in DOMAIN a.active : Empty(b, active[j].slot) /\ active[j].slot # n
    BY <1>8, <1>11, <2>1 DEF Empty
  <2>3. active[i].slot = n
    BY <1>7, <1>8
  <2>4. \A j \in DOMAIN active : Empty(b, active[j].slot)
    BY <1>8, <1>11, <2>2, <2>3
  <2>5. \A j, k \in DOMAIN active : active[j].slot = active[k].slot => j = k
    BY <1>8, <2>1, <2>2, <2>3
  <2>6. ASSUME ~b.provisional, NEW s \in Reserved(b), Empty(b, s)
        PROVE  \E j \in DOMAIN active : active[j].slot = s
    <3>1. CASE s = n
      BY <1>8, <2>3, <3>1
    <3>2. CASE s # n
      <4>1. s \in Reserved(a) /\ Empty(a, s) /\ ~a.provisional
        BY <1>10, <1>11, <2>6, <3>2
      <4>2. PICK j \in DOMAIN a.active : a.active[j].slot = s
        BY <2>1, <4>1
      <4> QED BY <1>8, <4>2
    <3> QED BY <3>1, <3>2
  <2> QED BY <1>10, <2>4, <2>5, <2>6 DEF SlotsOwned
<1>13. /\ x \in Told /\ x.type = "item_added" /\ x.slot = n
       /\ y \in Told /\ y.type = "part_added" /\ y.slot = n
  BY <1>5, ItemEventIs DEF ItemTypes
<1> DEFINE f == [asm |-> b, ev |-> Append(v, x)]
<1>14. Tells(f, B, {}) /\ f.asm = b /\ f.ev = Append(v, x)
  <2> DEFINE S == B \o v
  <2> HIDE DEF x
  <2>1. Append(v, x) \in Seq(Told) /\ B \o Append(v, x) = Append(S, x) /\ Append(S, x) # <<>>
    BY <1>3, <1>13, OneMoreTold
  <2>2. S # <<>> /\ AnswerAgrees(a, S) /\ b.slots = Append(a.slots, Responses!NoItem)
    BY <1>3, <1>10 DEF slots
  <2> HIDE DEF S
  <2>3. AnswerAgrees(b, Append(S, x))
    BY <1>3, <1>13, <2>2, AgreesWithAdded
  <2>4. f.asm = b /\ f.ev = Append(v, x) /\ f \in Answers
    BY <1>10, <2>1 DEF Answers
  <2> HIDE DEF f
  <2> QED BY <1>3, <1>10, <1>12, <2>1, <2>3, <2>4 DEF Tells
<1>15. b.active = active /\ i \in DOMAIN active /\ active[i].kind = kind
  BY <1>7, <1>8, <1>10
<1>16. Responses!Emit(opened, <<x>> \o more) = [asm |-> b, ev |-> v \o (<<x>> \o more)]
  BY <1>4 DEF Responses!Emit
<1> HIDE DEF x, y
<1>17. CASE kind = "text"
  <2>1. v \o (<<x>> \o more) = Append(Append(v, x), y)
    <3>1. more = <<y>>
      BY <1>17
    <3> HIDE DEF more
    <3>2. v \o (<<x>> \o <<y>>) = Append(Append(v, x), y)
      BY <1>3, <1>13, TwoMore
    <3> QED BY <3>1, <3>2
  <2> HIDE DEF f
  <2>2. Tells([asm |-> f.asm, ev |-> Append(f.ev, y)], B, {})
    BY <1>11, <1>13, <1>14, SayIs
  <2>3. Responses!Start(e, i, kind, parts) = [asm |-> b, ev |-> Append(Append(v, x), y)]
    BY <1>2, <1>16, <2>1
  <2> QED BY <1>14, <1>15, <2>2, <2>3
<1>18. CASE kind # "text"
  <2>1. v \o (<<x>> \o more) = Append(v, x)
    <3> DEFINE D == <<x>>
    <3>1. more = <<>>
      BY <1>18
    <3>2. D \in Seq(Told) /\ v \o D = Append(v, x)
      BY <1>3, <1>13, OneMoreTold
    <3> HIDE DEF D
    <3>3. D \o <<>> = D
      BY <3>2, ConcatEmptySeq
    <3> QED BY <3>1, <3>2, <3>3 DEF D
  <2>2. Responses!Start(e, i, kind, parts) = f
    BY <1>2, <1>16, <2>1
  <2> HIDE DEF f
  <2> QED BY <1>14, <1>15, <2>2
<1> QED BY <1>17, <1>18

\* An assembler with the same items.
LEMMA HoldingIs ==
    ASSUME NEW e, NEW B, Tells(e, B, {}), NEW b \in Assemblers, b.slots = e.asm.slots,
           DOMAIN b.active = DOMAIN e.asm.active,
           \A i \in DOMAIN b.active : b.active[i].slot = e.asm.active[i].slot,
           b.provisional = e.asm.provisional, b.started = e.asm.started, b.terminal = e.asm.terminal
    PROVE  Tells(Responses!Holding(e, b), B, {}) /\ Responses!Holding(e, b).asm = b
<1> DEFINE a == e.asm
<1>1. SlotsOwned(a, {}) /\ a.started /\ ~a.terminal
  BY DEF Tells
<1>2. Reserved(b) = Reserved(a) /\ \A s : Empty(b, s) <=> Empty(a, s)
  BY DEF Reserved, Empty
<1> HIDE DEF a
<1>3. SlotsOwned(b, {})
  BY <1>1, <1>2 DEF SlotsOwned, a
<1>4. Tells([asm |-> b, ev |-> e.ev], B, {})
  BY <1>1, <1>3, SlotsAreKept DEF a
<1> QED BY <1>4 DEF Responses!Holding

\* What an active block holds changes.
LEMMA KeepIs ==
    ASSUME NEW e, NEW B, Tells(e, B, {}), NEW i \in DOMAIN e.asm.active,
           NEW parts \in {"none", "some", "whole", "broken"}
    PROVE  /\ Tells(Responses!Keep(e, i, parts), B, {})
           /\ Empty(Responses!Keep(e, i, parts).asm, e.asm.active[i].slot)
<1> DEFINE a == e.asm
           block == [a.active[i] EXCEPT !.parts = parts]
           active == Responses!With(a.active, i, block)
           b == [a EXCEPT !.active = active]
<1>1. a \in Assemblers /\ SlotsOwned(a, {})
  BY AnswerFields DEF Tells
<1>2. Responses!Keep(e, i, parts) = Responses!Holding(e, b)
  BY DEF Responses!Keep
<1>3. DOMAIN a.active \subseteq Keys /\ \A j \in DOMAIN a.active : a.active[j] \in OpenItems
  BY <1>1, AssemblerFields
<1>4. i \in DOMAIN a.active
  OBVIOUS
<1> HIDE DEF a
<1>5. a.active[i] \in OpenItems
  BY <1>3, <1>4
<1>6. block \in OpenItems /\ block.slot = a.active[i].slot
  BY <1>5 DEF OpenItems
<1> HIDE DEF block
<1>7. /\ DOMAIN active = DOMAIN a.active /\ active \in Actives
      /\ \A j \in DOMAIN active : active[j].slot = a.active[j].slot
  <2>1. DOMAIN a.active \union {i} = DOMAIN a.active
    BY <1>4
  <2>2. DOMAIN active = DOMAIN a.active
    BY <2>1 DEF Responses!With
  <2>3. \A j \in DOMAIN active : active[j] = IF j = i THEN block ELSE a.active[j]
    BY <2>1 DEF Responses!With
  <2>4. active \in [DOMAIN a.active -> OpenItems]
    BY <1>3, <1>6, <2>1 DEF Responses!With
  <2>5. DOMAIN a.active \in SUBSET Keys
    BY <1>3
  <2>6. active \in Actives
    BY <2>4, <2>5 DEF Actives
  <2>7. \A j \in DOMAIN active : active[j].slot = a.active[j].slot
    BY <1>6, <2>3
  <2> QED BY <2>2, <2>6, <2>7
<1> HIDE DEF active
<1>8. /\ b \in Assemblers /\ b.slots = a.slots /\ b.active = active /\ b.provisional = a.provisional
      /\ b.started = a.started /\ b.terminal = a.terminal
  BY <1>1, <1>7 DEF Assemblers
<1> HIDE DEF b
<1>9. Tells(Responses!Holding(e, b), B, {}) /\ Responses!Holding(e, b).asm = b
  BY <1>7, <1>8, HoldingIs DEF a
<1>10. Empty(a, a.active[i].slot)
  BY <1>1, <1>4 DEF SlotsOwned
<1>11. Empty(b, a.active[i].slot)
  BY <1>8, <1>10 DEF Empty, Reserved
<1> QED BY <1>2, <1>9, <1>11 DEF a

LEMMA ItemTextIs ==
    ASSUME NEW e, NEW B, Tells(e, B, {}), NEW i \in DOMAIN e.asm.active
    PROVE  Tells(Responses!Text(e, i), B, {})
<1> DEFINE k == Responses!Keep(e, i, "some")
           s == e.asm.active[i].slot
           x == Responses!ItemEvent("delta", s)
<1>1. Tells(k, B, {}) /\ Empty(k.asm, s)
  BY KeepIs
<1>2. Responses!Text(e, i) = Responses!Emit(k, <<x>>)
  BY DEF Responses!Text
<1>3. s \in Nat
  <2>1. e.asm \in Assemblers
    BY AnswerFields DEF Tells
  <2>2. e.asm.active[i] \in OpenItems
    BY <2>1, AssemblerFields
  <2> QED BY <2>2 DEF OpenItems
<1>4. x \in Told /\ x.type = "delta" /\ x.slot = s
  BY <1>3, ItemEventIs DEF ItemTypes
<1> HIDE DEF k, s, x
<1>5. k.ev \in Seq(Told)
  BY <1>1, AnswerFields DEF Tells
<1>6. k.ev \o <<x>> = Append(k.ev, x)
  BY <1>4, <1>5, OneMoreTold
<1>7. Tells([asm |-> k.asm, ev |-> Append(k.ev, x)], B, {})
  BY <1>1, <1>4, SayIs
<1> QED BY <1>2, <1>6, <1>7 DEF Responses!Emit

\* A text finds an index.
LEMMA TextAssemblerIs ==
    ASSUME NEW e, NEW B, Tells(e, B, {}), NEW i \in Indexes \union {Responses!NoIndex}
    PROVE  Tells(Responses!Holding(e, Responses!TextAssembler(e.asm, i)), B, {}) /\ Responses!TextIndex(e.asm, i) \in Keys
<1> DEFINE a == e.asm
           b == Responses!TextAssembler(a, i)
<1>1. a \in Assemblers /\ a.fallback \in Int
  BY AnswerFields, AssemblerFields DEF Tells
<1> HIDE DEF a
<1>2. Responses!TextIndex(a, i) \in Keys
  BY <1>1 DEF Responses!TextIndex, Keys
<1>3. /\ b \in Assemblers /\ b.slots = a.slots /\ b.active = a.active /\ b.provisional = a.provisional
      /\ b.started = a.started /\ b.terminal = a.terminal
  BY <1>1 DEF Responses!TextAssembler, Assemblers
<1> HIDE DEF b
<1>4. Tells(Responses!Holding(e, b), B, {})
  BY <1>3, HoldingIs DEF a
<1> QED BY <1>2, <1>4 DEF a, b

LEMMA ReasonIs ==
    ASSUME NEW e, NEW B, Tells(e, B, {}), NEW stop \in {"end_turn", "max_tokens"}
    PROVE  Tells(Responses!Holding(e, [e.asm EXCEPT !.stop = stop]), B, {})
<1> DEFINE a == e.asm
           b == [a EXCEPT !.stop = stop]
<1>1. a \in Assemblers
  BY AnswerFields DEF Tells
<1> HIDE DEF a
<1>2. /\ b \in Assemblers /\ b.slots = a.slots /\ b.active = a.active /\ b.provisional = a.provisional
      /\ b.started = a.started /\ b.terminal = a.terminal
  BY <1>1 DEF Assemblers
<1> HIDE DEF b
<1>3. Tells(Responses!Holding(e, b), B, {})
  BY <1>2, HoldingIs DEF a
<1> QED BY <1>3 DEF a, b

\* The block a delta extends is active.
LEMMA ExtendedIs ==
    ASSUME NEW e, NEW B, Tells(e, B, {}), NEW i \in Keys, NEW kinds, NEW kind \in Responses!Kinds
    PROVE  /\ Tells(Responses!Extended(e, i, kinds, kind), B, {})
           /\ i \in DOMAIN Responses!Extended(e, i, kinds, kind).asm.active
<1>1. /\ Tells(Responses!Start(e, i, kind, "none"), B, {}) /\ i \in DOMAIN Responses!Start(e, i, kind, "none").asm.active
  BY ItemStartIs
<1> QED BY <1>1 DEF Responses!Extended

\* What an event of the upstream leaves, when it is not the last.
LEMMA HandledIs ==
    ASSUME NEW e, NEW B, Tells(e, B, {}), NEW i \in Indexes \union {Responses!NoIndex}, NEW type, NEW kind, NEW parts,
           \/ type = "block_start" /\ kind \in Responses!Kinds
           \/ type = "block_delta" /\ kind \in {"text", "reasoning", "arguments"}
                /\ parts \in {"none", "whole", "broken"}
           \/ type \in {"block_stop", "message_start"}
           \/ type = "message_delta" /\ kind \in {"end_turn", "max_tokens"}
    PROVE  Tells(Responses!Handled(e, type, i, kind, parts), B, {})
<1> DEFINE h == Responses!Handled(e, type, i, kind, parts)
           f == Responses!Holding(e, Responses!TextAssembler(e.asm, i))
           n == Responses!TextIndex(e.asm, i)
<1>0. Tells(f, B, {}) /\ n \in Keys /\ "text" \in Responses!Kinds /\ "reasoning" \in Responses!Kinds
  BY TextAssemblerIs DEF Responses!Kinds
<1>1. i # Responses!NoIndex => i \in Keys
  BY DEF Keys
<1>2. CASE type = "block_start" /\ kind \in Responses!Kinds
  <2>1. h = Responses!BlockStart(e, i, kind)
    BY <1>2 DEF Responses!Handled
  <2>2. Responses!BlockStart(e, i, kind) = IF kind = "text" THEN Responses!Start(f, n, kind, "none")
                                           ELSE IF i = Responses!NoIndex THEN e ELSE Responses!Start(e, i, kind, "none")
    BY DEF Responses!BlockStart
  <2> HIDE DEF h, f, n
  <2>3. Tells(Responses!Start(f, n, kind, "none"), B, {})
    BY <1>0, <1>2, ItemStartIs
  <2>4. i # Responses!NoIndex => Tells(Responses!Start(e, i, kind, "none"), B, {})
    BY <1>1, <1>2, ItemStartIs
  <2> QED BY <2>1, <2>2, <2>3, <2>4 DEF h
<1>3. CASE type = "block_delta" /\ kind \in {"text", "reasoning", "arguments"}
             /\ parts \in {"none", "whole", "broken"}
  <2>1. CASE kind = "text"
    <3> DEFINE g == Responses!Extended(f, n, {"text"}, "text")
    <3>1. h = Responses!TextDelta(e, i)
      BY <1>3, <2>1 DEF Responses!Handled
    <3>2. Responses!TextDelta(e, i) = Responses!Text(g, n)
      BY DEF Responses!TextDelta
    <3> HIDE DEF f, n, h
    <3>3. Tells(g, B, {}) /\ n \in DOMAIN g.asm.active
      BY <1>0, ExtendedIs
    <3> HIDE DEF g
    <3>4. Tells(Responses!Text(g, n), B, {})
      BY <3>3, ItemTextIs
    <3> QED BY <3>1, <3>2, <3>4 DEF h
  <2>2. CASE kind = "reasoning"
    <3> DEFINE g == Responses!Extended(e, i, {"reasoning", "encrypted"}, "reasoning")
    <3>1. h = Responses!ThinkingDelta(e, i)
      BY <1>3, <2>2 DEF Responses!Handled
    <3>2. Responses!ThinkingDelta(e, i) = IF i = Responses!NoIndex THEN e ELSE Responses!Text(g, i)
      BY DEF Responses!ThinkingDelta
    <3> HIDE DEF h
    <3>3. CASE i = Responses!NoIndex
      BY <3>1, <3>2, <3>3 DEF h
    <3>4. CASE i # Responses!NoIndex
      <4>1. Tells(g, B, {}) /\ i \in DOMAIN g.asm.active
        BY <1>0, <1>1, <3>4, ExtendedIs
      <4> HIDE DEF g
      <4>2. Tells(Responses!Text(g, i), B, {})
        BY <4>1, ItemTextIs
      <4> QED BY <3>1, <3>2, <3>4, <4>2 DEF h
    <3> QED BY <3>3, <3>4
  <2>3. CASE kind = "arguments"
    <3>1. h = Responses!ArgumentsDelta(e, i, parts)
      BY <1>3, <2>3 DEF Responses!Handled
    <3> DEFINE extends == i \in DOMAIN e.asm.active /\ e.asm.active[i].kind \in {"function", "custom"}
    <3>2. Responses!ArgumentsDelta(e, i, parts) = IF extends THEN Responses!Keep(e, i, parts) ELSE e
      BY DEF Responses!ArgumentsDelta
    <3>3. extends => i \in DOMAIN e.asm.active
      OBVIOUS
    <3> HIDE DEF h, extends
    <3>4. CASE extends
      <4>1. Tells(Responses!Keep(e, i, parts), B, {})
        BY <1>3, <3>3, <3>4, KeepIs
      <4> QED BY <3>1, <3>2, <3>4, <4>1 DEF h
    <3>5. CASE ~extends
      BY <3>1, <3>2, <3>5 DEF h
    <3> QED BY <3>4, <3>5
  <2> QED BY <1>3, <2>1, <2>2, <2>3
<1>4. CASE type \in {"block_stop", "message_start"}
  <2>1. h = e \/ h = Responses!Close(e, i)
    BY <1>4 DEF Responses!Handled
  <2>2. Tells(Responses!Close(e, i), B, {})
    BY CloseIs
  <2> QED BY <2>1, <2>2
<1>5. CASE type = "message_delta" /\ kind \in {"end_turn", "max_tokens"}
  <2>1. h = Responses!Holding(e, [e.asm EXCEPT !.stop = kind])
    BY <1>5 DEF Responses!Handled
  <2>2. Tells(Responses!Holding(e, [e.asm EXCEPT !.stop = kind]), B, {})
    BY <1>5, ReasonIs
  <2> QED BY <2>1, <2>2
<1> QED BY <1>2, <1>3, <1>4, <1>5

-----------------------------------------------------------------------------
\* The emissions that a flush goes through, up to a slot.
Flushes(f, e, n) ==
    f = [slots \in 0 .. n |-> IF slots = 0 THEN e ELSE Responses!CloseSlot(f[slots - 1], slots - 1)]

LEMMA SomeFlushes ==
    ASSUME NEW e, NEW n \in Nat PROVE \E f : Flushes(f, e, n)
<1> DEFINE Bad == {m \in Nat : ~\E f : Flushes(f, e, m)}
<1>1. SUFFICES ASSUME Bad # {} PROVE FALSE
  OBVIOUS
<1>2. PICK m \in Bad : \A k \in Bad : m <= k
  BY <1>1, LeastNatural
<1>3. m \in Nat /\ ~\E f : Flushes(f, e, m)
  OBVIOUS
<1>4. m # 0
  <2>1. Flushes([slots \in 0 .. 0 |-> e], e, 0)
    BY DEF Flushes
  <2> QED BY <1>3, <2>1
<1>5. m - 1 \in Nat /\ m - 1 \notin Bad
  BY <1>2, <1>3, <1>4
<1>6. PICK g : Flushes(g, e, m - 1)
  BY <1>5
<1> DEFINE h == [slots \in 0 .. m |-> IF slots = m THEN Responses!CloseSlot(g[m - 1], m - 1) ELSE g[slots]]
<1>7. /\ h = [slots \in 0 .. m |-> h[slots]] /\ h[m] = Responses!CloseSlot(g[m - 1], m - 1)
      /\ \A s \in 0 .. m - 1 : h[s] = g[s]
  BY <1>3
<1>8. /\ \A s \in 0 .. m - 1 : g[s] = IF s = 0 THEN e ELSE Responses!CloseSlot(g[s - 1], s - 1)
  BY <1>6 DEF Flushes
<1> HIDE DEF h
<1>9. ASSUME NEW s \in 0 .. m
      PROVE  h[s] = IF s = 0 THEN e ELSE Responses!CloseSlot(h[s - 1], s - 1)
  <2>1. CASE s = m
    <3>1. m - 1 \in 0 .. m - 1
      BY <1>5
    <3> QED BY <1>3, <1>4, <1>7, <2>1, <3>1
  <2>2. CASE s # m
    <3>1. s \in 0 .. m - 1
      BY <1>3, <2>2
    <3>2. CASE s = 0
      BY <1>7, <1>8, <3>1, <3>2
    <3>3. CASE s # 0
      <4>1. s - 1 \in 0 .. m - 1
        BY <3>1, <3>3
      <4> QED BY <1>7, <1>8, <3>1, <3>3, <4>1
    <3> QED BY <3>2, <3>3
  <2> QED BY <2>1, <2>2
<1>10. h = [s \in 0 .. m |-> IF s = 0 THEN e ELSE Responses!CloseSlot(h[s - 1], s - 1)]
  BY <1>7, <1>9
<1>11. Flushes(h, e, m)
  BY <1>10 DEF Flushes
<1> QED BY <1>3, <1>11

LEMMA FlushIsLast ==
    ASSUME NEW e, Len(e.asm.slots) \in Nat
    PROVE  \E f : Flushes(f, e, Len(e.asm.slots)) /\ Responses!Flush(e) = f[Len(e.asm.slots)]
<1> DEFINE n == Len(e.asm.slots)
           f == CHOOSE f : Flushes(f, e, n)
<1>1. Responses!Flush(e) = f[n]
  BY DEF Responses!Flush, Flushes
<1>2. Flushes(f, e, n)
  BY SomeFlushes
<1> QED BY <1>1, <1>2

LEMMA CloseSlotIs ==
    ASSUME NEW e, NEW B, Tells(e, B, {}), NEW s \in Nat,
           \A i \in DOMAIN e.asm.active : e.asm.active[i].slot >= s
    PROVE  LET d == Responses!CloseSlot(e, s)
           IN  /\ Tells(d, B, {}) /\ Len(d.asm.slots) = Len(e.asm.slots)
               /\ \A i \in DOMAIN d.asm.active : d.asm.active[i].slot >= s + 1
<1> DEFINE active == e.asm.active
           d == Responses!CloseSlot(e, s)
<1>1. /\ \A i, j \in DOMAIN active : active[i].slot = active[j].slot => i = j
      /\ \A i \in DOMAIN active : active[i].slot \in Nat
  <2>1. e.asm \in Assemblers /\ SlotsOwned(e.asm, {})
    BY AnswerFields DEF Tells
  <2>2. \A i \in DOMAIN active : active[i] \in OpenItems
    BY <2>1, AssemblerFields
  <2>3. \A i \in DOMAIN active : active[i].slot \in Nat
    BY <2>2 DEF OpenItems
  <2>4. \A i, j \in DOMAIN active : active[i].slot = active[j].slot => i = j
    BY <2>1 DEF SlotsOwned
  <2> QED BY <2>3, <2>4
<1>2. CASE ~\E i \in DOMAIN active : active[i].slot = s
  <2>1. d = e
    BY <1>2 DEF Responses!CloseSlot
  <2>2. \A i \in DOMAIN active : active[i].slot >= s + 1
    BY <1>1, <1>2
  <2> QED BY <2>1, <2>2
<1>3. CASE \E i \in DOMAIN active : active[i].slot = s
  <2> DEFINE i == CHOOSE i \in DOMAIN active : active[i].slot = s
  <2>1. i \in DOMAIN active /\ active[i].slot = s
    BY <1>3
  <2>2. d = Responses!Close(e, i)
    BY <1>3 DEF Responses!CloseSlot
  <2> HIDE DEF i, d
  <2>3. /\ Tells(d, B, {}) /\ d.asm.active = Responses!Without(active, i)
        /\ Len(d.asm.slots) = Len(e.asm.slots)
    BY <2>2, CloseIs
  <2>4. \A j \in DOMAIN Responses!Without(active, i) :
           j \in DOMAIN active /\ j # i /\ Responses!Without(active, i)[j] = active[j]
    BY DEF Responses!Without
  <2>5. \A j \in DOMAIN active : j # i => active[j].slot >= s + 1
    BY <1>1, <2>1
  <2> QED BY <2>3, <2>4, <2>5 DEF d
<1> QED BY <1>2, <1>3

\* A flush leaves no block active.
LEMMA FlushIs ==
    ASSUME NEW e, NEW B, Tells(e, B, {})
    PROVE  Tells(Responses!Flush(e), B, {}) /\ DOMAIN Responses!Flush(e).asm.active = {}
<1> DEFINE n == Len(e.asm.slots)
           Past(d, s) == /\ Tells(d, B, {}) /\ Len(d.asm.slots) = n
                         /\ \A i \in DOMAIN d.asm.active : d.asm.active[i].slot >= s
<1>1. n \in Nat
  <2>1. e.asm \in Assemblers
    BY AnswerFields DEF Tells
  <2> QED BY <2>1, AssemblerFields
<1>2. PICK f : Flushes(f, e, n) /\ Responses!Flush(e) = f[n]
  BY <1>1, FlushIsLast
<1> HIDE DEF n
<1>3. \A s \in 0 .. n : f[s] = IF s = 0 THEN e ELSE Responses!CloseSlot(f[s - 1], s - 1)
  BY <1>2 DEF Flushes
<1>4. Past(e, 0)
  <2>1. e.asm \in Assemblers
    BY AnswerFields DEF Tells
  <2>2. \A i \in DOMAIN e.asm.active : e.asm.active[i] \in OpenItems
    BY <2>1, AssemblerFields
  <2>3. \A i \in DOMAIN e.asm.active : e.asm.active[i].slot >= 0
    BY <2>2 DEF OpenItems
  <2> QED BY <2>3 DEF n
<1>5. ASSUME NEW d, NEW s \in Nat, Past(d, s) PROVE Past(Responses!CloseSlot(d, s), s + 1)
  <2>1. LET c == Responses!CloseSlot(d, s)
        IN  /\ Tells(c, B, {}) /\ Len(c.asm.slots) = Len(d.asm.slots)
            /\ \A i \in DOMAIN c.asm.active : c.asm.active[i].slot >= s + 1
    BY <1>5, CloseSlotIs
  <2> QED BY <1>5, <2>1
<1> HIDE DEF Past
<1> DEFINE Bad == {s \in 0 .. n : ~Past(f[s], s)}
<1>6. Bad = {}
  <2>1. SUFFICES ASSUME Bad # {} PROVE FALSE
    OBVIOUS
  <2>2. Bad \subseteq Nat
    BY <1>1
  <2>3. PICK s \in Bad : \A t \in Bad : s <= t
    BY <2>1, <2>2, LeastNatural
  <2>4. s \in 0 .. n /\ ~Past(f[s], s)
    OBVIOUS
  <2>5. s # 0
    BY <1>1, <1>3, <1>4, <2>4
  <2>6. s - 1 \in 0 .. n /\ s - 1 \in Nat /\ s - 1 \notin Bad
    BY <1>1, <2>3, <2>4, <2>5
  <2>7. Past(f[s - 1], s - 1)
    BY <2>6
  <2>8. Past(Responses!CloseSlot(f[s - 1], s - 1), s - 1 + 1)
    BY <1>5, <2>6, <2>7
  <2>9. s - 1 + 1 = s /\ f[s] = Responses!CloseSlot(f[s - 1], s - 1)
    BY <1>1, <1>3, <2>4, <2>5
  <2> QED BY <2>4, <2>8, <2>9
<1>7. Past(f[n], n)
  <2>1. n \in 0 .. n /\ n \notin Bad
    BY <1>1, <1>6
  <2> QED BY <2>1
<1> DEFINE d == Responses!Flush(e)
<1>8. Tells(d, B, {}) /\ Len(d.asm.slots) = n /\ \A i \in DOMAIN d.asm.active : d.asm.active[i].slot >= n
  BY <1>2, <1>7 DEF Past
<1> HIDE DEF d
<1>9. DOMAIN d.asm.active = {}
  <2>1. \A i \in DOMAIN d.asm.active : d.asm.active[i].slot \in 0 .. n - 1
    BY <1>8 DEF Tells, SlotsOwned, Empty, Reserved
  <2> QED BY <1>1, <1>8, <2>1
<1> QED BY <1>8, <1>9 DEF d

-----------------------------------------------------------------------------
\* What was told is one response, and its end tells of all items.
Sound(S, over) ==
    /\ \A k \in DOMAIN S : Fits(S, k) /\ (S[k].type \in Responses!TerminalEvents => k = Len(S))
    /\ over => S[Len(S)].type \in Responses!TerminalEvents

Whole(S, slots) ==
    \A k \in DOMAIN S : S[k].type \in {"completed", "incomplete"} =>
       /\ Slots(S, "item_added") = Slots(S, "item_done")
       /\ Len(S[k].output) = Cardinality(ItemPlaces(S, "item_added"))
       /\ S[k].output = slots

LEMMA OutputIs ==
    ASSUME NEW a \in Assemblers, \A s \in Reserved(a) : ~Empty(a, s)
    PROVE  Responses!Output(a) = a.slots
<1> DEFINE n == Len(a.slots)
           held == {i \in DOMAIN a.slots : a.slots[i] # Responses!NoItem}
           nth(k) == CHOOSE i \in held : Cardinality({j \in held : j < i}) = k - 1
<1>1. a.slots \in Seq(Items) /\ n \in Nat /\ DOMAIN a.slots = 1 .. n
  BY AssemblerFields
<1>2. held = 1 .. n
  <2>1. ASSUME NEW i \in 1 .. n PROVE a.slots[i] # Responses!NoItem
    <3>1. i - 1 \in Reserved(a) /\ i - 1 + 1 = i
      BY <1>1 DEF Reserved
    <3>2. ~Empty(a, i - 1)
      BY <3>1
    <3> QED BY <3>1, <3>2 DEF Empty
  <2> QED BY <1>1, <2>1
<1>3. Responses!Output(a) = [k \in 1 .. Cardinality(held) |-> a.slots[nth(k)]]
  BY DEF Responses!Output, Responses!Cardinality, Cardinality, Responses!IsFiniteSet, IsFiniteSet
<1> HIDE DEF held
<1>4. Cardinality(held) = n
  <2>1. Cardinality(1 .. n) = IF 1 > n THEN 0 ELSE n - 1 + 1
    BY <1>1, FS_Interval
  <2> QED BY <1>1, <1>2, <2>1
<1>5. ASSUME NEW i \in held PROVE Cardinality({j \in held : j < i}) = i - 1
  <2> DEFINE m == i - 1
  <2>1. i \in 1 .. n /\ m \in Int /\ 1 \in Int
    BY <1>1, <1>2
  <2>2. {j \in held : j < i} = 1 .. m
    BY <1>1, <1>2, <2>1
  <2> HIDE DEF m
  <2>3. Cardinality(1 .. m) = IF 1 > m THEN 0 ELSE m - 1 + 1
    BY <2>1, FS_Interval
  <2>4. (IF 1 > m THEN 0 ELSE m - 1 + 1) = m
    BY <2>1 DEF m
  <2> QED BY <2>2, <2>3, <2>4 DEF m
<1>6. ASSUME NEW k \in 1 .. n PROVE nth(k) = k
  <2>1. k \in held /\ Cardinality({j \in held : j < k}) = k - 1
    BY <1>2, <1>5
  <2>2. nth(k) \in held /\ Cardinality({j \in held : j < nth(k)}) = k - 1
    BY <2>1
  <2> HIDE DEF nth
  <2>3. nth(k) - 1 = k - 1 /\ nth(k) \in 1 .. n
    BY <1>2, <1>5, <2>2
  <2> QED BY <1>1, <2>3
<1>7. Responses!Output(a) = [k \in 1 .. n |-> a.slots[k]]
  BY <1>3, <1>4, <1>6
<1>8. a.slots = [k \in 1 .. n |-> a.slots[k]]
  BY <1>1, SeqDef
<1> QED BY <1>7, <1>8

LEMMA TerminalIs ==
    ASSUME NEW e, NEW B, Tells(e, B, {}), DOMAIN e.asm.active = {}, NEW type \in Responses!TerminalEvents,
           type # "failed" => ~e.asm.provisional
    PROVE  LET d == Responses!Terminal(e, type)
           IN  Sound(B \o d.ev, TRUE) /\ Whole(B \o d.ev, d.asm.slots) /\ d.asm.terminal
<1> DEFINE a == e.asm
           v == e.ev
           x == Responses!Event(type, 0, Responses!Output(a))
           S == B \o v
           R == Told \union {x}
           T == Append(S, x)
           d == Responses!Terminal(e, type)
           n == Len(a.slots)
<1>1. /\ a \in Assemblers /\ v \in Seq(Told) /\ B \in Seq(Told) /\ S # <<>> /\ S \in Seq(Told)
      /\ AnswerAgrees(a, S) /\ SlotsOwned(a, {})
  <2>1. AnswerAgrees(a, S) => S \in Seq(Told)
    BY DEF AnswerAgrees
  <2> QED BY <2>1, AnswerFields DEF Tells
<1>2. d.ev = v \o <<x>> /\ d.asm.slots = a.slots /\ d.asm.terminal
  <2> DEFINE b == [a EXCEPT !.terminal = TRUE]
  <2>1. d.asm = b /\ d.ev = v \o <<x>>
    BY DEF Responses!Terminal, Responses!Emit, Responses!Holding
  <2> HIDE DEF a, v, x, d
  <2>2. b.slots = a.slots /\ b.terminal = TRUE
    BY <1>1 DEF Assemblers
  <2> HIDE DEF b
  <2> QED BY <2>1, <2>2
<1>3. x.type = type /\ x.output = Responses!Output(a) /\ x.slot = 0
  BY DEF Responses!Event
<1> HIDE DEF a, v, x, d
<1>4. v \in Seq(R) /\ B \in Seq(R) /\ x \in R /\ S \in Seq(R)
  <2>1. Told \subseteq R /\ x \in R
    OBVIOUS
  <2> HIDE DEF R, S
  <2> QED BY <1>1, <2>1, SeqMonotonic
<1> HIDE DEF R
<1>5. B \o d.ev = T
  <2>1. v \o <<x>> = Append(v, x) /\ B \o Append(v, x) = Append(B \o v, x)
    BY <1>4, OneMoreTold
  <2> QED BY <1>2, <2>1
<1>6. /\ \A k \in DOMAIN S : Fits(S, k) /\ Slots(S, "item_added") = Reserved(a)
      /\ Slots(S, "item_done") = {s \in Reserved(a) : ~Empty(a, s)}
      /\ IsFiniteSet(ItemPlaces(S, "item_added")) /\ Cardinality(ItemPlaces(S, "item_added")) = n
  BY <1>1 DEF AnswerAgrees
<1> HIDE DEF S
<1>7. x.type # "created" /\ x.type # "item_added" /\ x.type # "item_done" /\ x.type \notin ItemTypes
  BY <1>3 DEF Responses!TerminalEvents, ItemTypes
<1>8. /\ T \in Seq(R) /\ \A k \in DOMAIN T : Fits(T, k)
      /\ \A t : Slots(T, t) = Slots(S, t) \union (IF x.type = t THEN {x.slot} ELSE {})
      /\ \A t : ItemPlaces(T, t) = ItemPlaces(S, t) \union (IF x.type = t THEN {Len(S) + 1} ELSE {})
  BY <1>1, <1>4, <1>6, <1>7, OneEvent
<1>9. /\ Slots(T, "item_added") = Slots(S, "item_added") \union {}
      /\ Slots(T, "item_done") = Slots(S, "item_done") \union {}
      /\ ItemPlaces(T, "item_added") = ItemPlaces(S, "item_added") \union {}
  BY <1>7, <1>8
<1>10. /\ Len(S) \in Nat /\ DOMAIN S = 1 .. Len(S)
       /\ Len(T) = Len(S) + 1 /\ DOMAIN T = 1 .. Len(T) /\ T[Len(T)] = x
       /\ \A k \in 1 .. Len(S) : T[k] = S[k]
  BY <1>4, <1>8, AppendProperties, LenProperties
<1>11. \A k \in 1 .. Len(S) : S[k].type \notin Responses!TerminalEvents
  <2>1. \A k \in 1 .. Len(S) : S[k] \in Told
    BY <1>1, ElementOfSeq
  <2> QED BY <2>1 DEF Told, ItemTypes, Responses!TerminalEvents
<1> HIDE DEF T
<1>12. \A k \in DOMAIN T : T[k].type \in Responses!TerminalEvents => k = Len(T)
  BY <1>10, <1>11
<1>13. Sound(T, TRUE)
  <2>1. T[Len(T)].type \in Responses!TerminalEvents
    BY <1>3, <1>10
  <2> QED BY <1>8, <1>12, <2>1 DEF Sound
<1>14. Whole(T, a.slots)
  <2>1. SUFFICES ASSUME NEW k \in DOMAIN T, T[k].type \in {"completed", "incomplete"}
                 PROVE  /\ Slots(T, "item_added") = Slots(T, "item_done")
                        /\ Len(T[k].output) = Cardinality(ItemPlaces(T, "item_added"))
                        /\ T[k].output = a.slots
    BY DEF Whole
  <2>2. T[k] = x
    BY <1>10, <1>12, <2>1 DEF Responses!TerminalEvents
  <2>3. ~a.provisional
    BY <1>3, <2>1, <2>2 DEF a
  <2>4. \A s \in Reserved(a) : ~Empty(a, s)
    <3>1. DOMAIN a.active = {}
      BY DEF a
    <3> QED BY <1>1, <2>3, <3>1 DEF SlotsOwned
  <2>5. Responses!Output(a) = a.slots
    BY <1>1, <2>4, OutputIs
  <2> QED BY <1>3, <1>6, <1>9, <2>2, <2>4, <2>5
<1> QED BY <1>2, <1>5, <1>13, <1>14 DEF d

LEMMA FinishIs ==
    ASSUME NEW e, NEW B, Tells(e, B, {}), NEW d \in {Responses!Finish(e), Responses!Fail(e)}
    PROVE  Sound(B \o d.ev, TRUE) /\ Whole(B \o d.ev, d.asm.slots) /\ d.asm.terminal
<1> DEFINE f == Responses!Flush(e)
<1>1. Tells(f, B, {}) /\ DOMAIN f.asm.active = {}
  BY FlushIs
<1>2. d = Responses!Terminal(f, Responses!Ending(f.asm)) \/ d = Responses!Terminal(f, "failed")
  BY DEF Responses!Finish, Responses!Fail
<1> HIDE DEF f
<1>3. PICK type \in Responses!TerminalEvents : d = Responses!Terminal(f, type) /\ (type # "failed" => ~f.asm.provisional)
  BY <1>2 DEF Responses!Ending, Responses!TerminalEvents
<1>4. LET c == Responses!Terminal(f, type)
      IN  Sound(B \o c.ev, TRUE) /\ Whole(B \o c.ev, c.asm.slots) /\ c.asm.terminal
  BY <1>1, <1>3, TerminalIs
<1> QED BY <1>3, <1>4

-----------------------------------------------------------------------------
\* The first event creates the response.
LEMMA CreatedIs ==
    ASSUME NEW x \in Told, x.type = "created", NEW S \in Seq(Told), Len(S) = 0
    PROVE  /\ Append(S, x) \in Seq(Told) /\ \A k \in DOMAIN Append(S, x) : Fits(Append(S, x), k)
           /\ Slots(Append(S, x), "item_added") = {} /\ Slots(Append(S, x), "item_done") = {}
           /\ ItemPlaces(Append(S, x), "item_added") = {}
<1> DEFINE T == Append(S, x)
<1>1. T \in Seq(Told) /\ Len(T) = 1 /\ T[1] = x
  BY AppendProperties
<1>2. DOMAIN T = {1}
  <2>1. DOMAIN T = 1 .. 1
    BY <1>1, LenProperties
  <2> QED BY <2>1
<1> HIDE DEF T
<1>3. Fits(T, 1)
  BY <1>1 DEF Fits, ItemTypes
<1>4. Slots(T, "item_added") = {} /\ Slots(T, "item_done") = {} /\ ItemPlaces(T, "item_added") = {}
  BY <1>1, <1>2 DEF Slots, ItemPlaces
<1> QED BY <1>1, <1>2, <1>3, <1>4 DEF T

LEMMA StartedIs ==
    ASSUME NEW a, NEW B, AnswerAgrees(a, B), SlotsOwned(a, {}), ~a.terminal, a.started <=> B # <<>>
    PROVE  Tells(Responses!Started(a), B, {})
<1>1. a \in Assemblers /\ B \in Seq(Told) /\ <<>> \in Seq(Told)
  BY EmptySeq DEF AnswerAgrees, SlotsOwned
<1>2. CASE a.started
  <2> DEFINE e == Responses!Emission(a)
  <2>1. Responses!Started(a) = e /\ e.asm = a /\ e.ev = <<>>
    BY <1>2 DEF Responses!Started, Responses!Emission
  <2>2. e \in Answers
    BY <1>1 DEF Responses!Emission, Answers
  <2>3. B \o <<>> = B
    BY <1>1, ConcatEmptySeq
  <2> HIDE DEF e
  <2> QED BY <1>1, <1>2, <2>1, <2>2, <2>3 DEF Tells
<1>3. CASE ~a.started
  <2> DEFINE x == Responses!Event("created", 0, <<>>)
             b == [a EXCEPT !.started = TRUE]
             e == [asm |-> b, ev |-> <<x>>]
             E == <<>>
  <2>1. x \in Told /\ x.type = "created"
    BY DEF Responses!Event, Told
  <2> HIDE DEF x
  <2>2. Responses!Started(a) = e
    <3>1. Responses!Started(a) = [asm |-> b, ev |-> <<>> \o <<x>>]
      BY <1>3 DEF Responses!Started, Responses!Emission, Responses!Emit, x
    <3> DEFINE D == <<x>>
    <3>2. D \in Seq(Told)
      BY <2>1
    <3> HIDE DEF D
    <3>3. <<>> \o D = D
      BY <3>2, ConcatEmptySeq
    <3> QED BY <3>1, <3>3 DEF D
  <2>3. /\ b \in Assemblers /\ b.slots = a.slots /\ b.active = a.active /\ b.provisional = a.provisional
        /\ b.started = TRUE /\ b.terminal = a.terminal
    BY <1>1 DEF Assemblers
  <2> HIDE DEF b
  <2>4. B = E
    BY <1>3
  <2>5. /\ Append(E, x) \in Seq(Told) /\ E \o <<x>> = Append(E, x) /\ Append(E \o E, x) # <<>>
        /\ E \o E = E
    BY <1>1, <2>1, OneMoreTold, ConcatEmptySeq
  <2>6. /\ E \in Seq(Told) /\ \A k \in DOMAIN E : Fits(E, k)
        /\ Slots(E, "item_added") = Reserved(a) /\ Slots(E, "item_done") = {s \in Reserved(a) : ~Empty(a, s)}
        /\ IsFiniteSet(ItemPlaces(E, "item_added")) /\ Cardinality(ItemPlaces(E, "item_added")) = Len(a.slots)
    BY <2>4 DEF AnswerAgrees
  <2> DEFINE T == Append(E, x)
  <2>7. /\ T \in Seq(Told) /\ \A k \in DOMAIN T : Fits(T, k)
        /\ Slots(T, "item_added") = {} /\ Slots(T, "item_done") = {} /\ ItemPlaces(T, "item_added") = {}
    <3>1. E \in Seq(Told) /\ Len(E) = 0
      BY <2>6
    <3> HIDE DEF E
    <3> QED BY <2>1, <3>1, CreatedIs
  <2>8. Reserved(b) = Reserved(a) /\ \A s : Empty(b, s) <=> Empty(a, s)
    BY <2>3 DEF Reserved, Empty
  <2>9. Slots(E, "item_added") = {} /\ Slots(E, "item_done") = {} /\ ItemPlaces(E, "item_added") = {}
    BY DEF Slots, ItemPlaces
  <2>11. B \o <<x>> = T /\ T # <<>>
    BY <2>4, <2>5
  <2> HIDE DEF T, E
  <2>12. AnswerAgrees(b, T)
    BY <2>3, <2>6, <2>7, <2>8, <2>9 DEF AnswerAgrees
  <2>13. SlotsOwned(b, {})
    BY <2>3, <2>8 DEF SlotsOwned
  <2>14. e \in Answers /\ e.asm = b /\ e.ev = <<x>>
    <3> DEFINE D == <<x>>
    <3>1. D \in Seq(Told)
      BY <2>1
    <3> HIDE DEF D
    <3>2. e = [asm |-> b, ev |-> D]
      BY DEF D
    <3>3. [asm |-> b, ev |-> D] \in Answers
      BY <2>3, <3>1 DEF Answers
    <3> QED BY <3>2, <3>3 DEF D
  <2> HIDE DEF e
  <2> QED BY <1>1, <2>2, <2>3, <2>11, <2>12, <2>13, <2>14 DEF Tells
<1> QED BY <1>2, <1>3

-----------------------------------------------------------------------------
\* The stream is read as long as the response is not over.
Reads(place, a, S) ==
    /\ place \in {"read", "end", "raised"}
    /\ place = "read" => AnswerAgrees(a, S) /\ SlotsOwned(a, {}) /\ ~a.terminal /\ (a.started <=> S # <<>>)
    /\ place # "read" => Sound(S, place = "end") /\ Whole(S, a.slots)

ResponsesInv == Reads(readerPc, assembler, answer)

\* An emission is put: the response goes on, or it is over.
LEMMA GoesOn ==
    ASSUME NEW e, NEW B, Tells(e, B, {}) PROVE Reads("read", e.asm, B \o e.ev) /\ ~e.asm.terminal
BY DEF Tells, Reads

LEMMA IsOver ==
    ASSUME NEW e, NEW B, Tells(e, B, {}), NEW d \in {Responses!Finish(e), Responses!Fail(e)}
    PROVE  Reads("end", d.asm, B \o d.ev) /\ d.asm.terminal
BY FinishIs DEF Reads

LEMMA ReceiveKeeps ==
    ASSUME ResponsesInv, NEW i \in Indexes \union {Responses!NoIndex}, NEW type, NEW kind, NEW parts,
           Responses!Receive(type, i, kind, parts),
           \/ type = "block_start" /\ kind \in Responses!Kinds
           \/ type = "block_delta" /\ kind \in {"text", "reasoning", "arguments"}
                /\ parts \in {"none", "whole", "broken"}
           \/ type \in {"block_stop", "message_start"}
           \/ type = "message_delta" /\ kind \in {"end_turn", "max_tokens"}
           \/ type \in {"message_stop", "error"}
    PROVE  ResponsesInv'
<1> DEFINE e == Responses!Started(assembler)
           h == Responses!Handled(e, type, i, kind, parts)
<1>1. Tells(e, answer, {})
  BY StartedIs DEF ResponsesInv, Reads, Responses!Receive
<1>2. assembler' = h.asm /\ answer' = answer \o h.ev
      /\ readerPc' = IF h.asm.terminal THEN "end" ELSE "read"
  BY DEF Responses!Receive, Responses!Put
<1> HIDE DEF e
<1>3. CASE type \in {"message_stop", "error"}
  <2>1. h \in {Responses!Finish(e), Responses!Fail(e)}
    BY <1>3 DEF Responses!Handled
  <2> HIDE DEF h
  <2>2. Reads("end", h.asm, answer \o h.ev) /\ h.asm.terminal
    BY <1>1, <2>1, IsOver
  <2> QED BY <1>2, <2>2 DEF ResponsesInv
<1>4. CASE type \notin {"message_stop", "error"}
  <2>1. Tells(h, answer, {})
    BY <1>1, <1>4, HandledIs
  <2> HIDE DEF h
  <2>2. Reads("read", h.asm, answer \o h.ev) /\ ~h.asm.terminal
    BY <2>1, GoesOn
  <2> QED BY <1>2, <2>2 DEF ResponsesInv
<1> QED BY <1>3, <1>4

LEMMA ResponsesInit ==
    ASSUME Responses!Init PROVE ResponsesInv
<1> DEFINE a == Responses!NewAssembler
           E == <<>>
<1>1. readerPc = "read" /\ assembler = a /\ answer = E
  BY DEF Responses!Init
<1>2. /\ a.slots = <<>> /\ a.active = <<>> /\ a.provisional = FALSE /\ a.started = FALSE
      /\ a.terminal = FALSE
  BY DEF Responses!NewAssembler
<1>3. a \in Assemblers
  <2>1. <<>> \in Seq(Items)
    BY EmptySeq
  <2>2. <<>> \in Actives
    <3>1. <<>> \in [{} -> OpenItems]
      OBVIOUS
    <3>2. {} \in SUBSET Keys
      OBVIOUS
    <3> QED BY <3>1, <3>2 DEF Actives
  <2> QED BY <2>1, <2>2 DEF Responses!NewAssembler, Assemblers
<1> HIDE DEF a
<1>4. Len(a.slots) = 0 /\ Reserved(a) = {} /\ DOMAIN a.active = {}
  BY <1>2 DEF Reserved
<1>5. SlotsOwned(a, {})
  BY <1>3, <1>4 DEF SlotsOwned
<1>6. E \in Seq(Told) /\ DOMAIN E = {}
  BY EmptySeq
<1> HIDE DEF E
<1>7. AnswerAgrees(a, E)
  <2>1. Slots(E, "item_added") = {} /\ Slots(E, "item_done") = {} /\ ItemPlaces(E, "item_added") = {}
    BY <1>6 DEF Slots, ItemPlaces
  <2>2. IsFiniteSet({}) /\ Cardinality({}) = 0
    BY FS_EmptySet
  <2> QED BY <1>4, <1>6, <2>1, <2>2 DEF AnswerAgrees
<1> QED BY <1>1, <1>2, <1>5, <1>7 DEF ResponsesInv, Reads, E

LEMMA ResponsesNext ==
    ASSUME ResponsesInv, [Responses!Next]_Responses!vars PROVE ResponsesInv'
<1>1. CASE UNCHANGED Responses!vars
  BY <1>1 DEF Responses!vars, ResponsesInv
<1>2. CASE Responses!BlockEvent
  BY <1>2, ReceiveKeeps DEF Responses!BlockEvent, Responses!Kinds
<1>3. CASE Responses!MessageEvent
  <2>1. Responses!NoIndex \in Indexes \union {Responses!NoIndex}
    OBVIOUS
  <2> QED BY <1>3, <2>1, ReceiveKeeps DEF Responses!MessageEvent
<1>4. CASE Responses!UpstreamEnds
  <2> DEFINE e == Responses!Started(assembler)
             d == Responses!Finish(e)
  <2>1. Tells(e, answer, {})
    BY <1>4, StartedIs DEF ResponsesInv, Reads, Responses!UpstreamEnds
  <2>2. assembler' = d.asm /\ answer' = answer \o d.ev /\ readerPc' = "end"
    BY <1>4 DEF Responses!UpstreamEnds, Responses!Put
  <2> HIDE DEF e
  <2>3. Reads("end", d.asm, answer \o d.ev)
    BY <2>1, IsOver
  <2> QED BY <2>2, <2>3 DEF ResponsesInv
<1>5. CASE Responses!UpstreamRaises
  <2>1. CASE answer = <<>>
    <3>1. readerPc' = "raised" /\ answer' = <<>> /\ DOMAIN answer' = {}
      BY <1>5, <2>1 DEF Responses!UpstreamRaises
    <3> QED BY <3>1 DEF ResponsesInv, Reads, Sound, Whole
  <2>2. CASE answer # <<>>
    <3> DEFINE e == Responses!Emission(assembler)
               d == Responses!Fail(e)
    <3>1. Tells(e, answer, {})
      <4>1. readerPc = "read"
        BY <1>5 DEF Responses!UpstreamRaises
      <4>2. assembler.started /\ Tells(Responses!Started(assembler), answer, {})
        BY <2>2, <4>1, StartedIs DEF ResponsesInv, Reads
      <4> QED BY <4>2 DEF Responses!Started
    <3>2. assembler' = d.asm /\ answer' = answer \o d.ev /\ readerPc' = "end"
      BY <1>5, <2>2 DEF Responses!UpstreamRaises, Responses!Put
    <3> HIDE DEF e
    <3>3. Reads("end", d.asm, answer \o d.ev)
      BY <3>1, IsOver
    <3> QED BY <3>2, <3>3 DEF ResponsesInv
  <2> QED BY <2>1, <2>2
<1> QED BY <1>1, <1>2, <1>3, <1>4, <1>5 DEF Responses!Next

\* What the client reads is one response, and a response that is complete is whole.
LEMMA ResponsesAreWhole ==
    ASSUME ResponsesInv PROVE Responses!ResponseIsWellFormed /\ Responses!CompleteMeansWhole
<1>1. readerPc = "read" => \A k \in DOMAIN answer : Fits(answer, k) /\ answer[k].type \notin Responses!TerminalEvents
  <2>1. SUFFICES ASSUME readerPc = "read", NEW k \in DOMAIN answer
                 PROVE  Fits(answer, k) /\ answer[k].type \notin Responses!TerminalEvents
    OBVIOUS
  <2>2. answer \in Seq(Told) /\ Fits(answer, k)
    BY <2>1 DEF ResponsesInv, Reads, AnswerAgrees
  <2>3. answer[k] \in Told
    BY <2>2, ElementOfSeq, LenProperties
  <2> QED BY <2>2, <2>3 DEF Told, ItemTypes, Responses!TerminalEvents
<1>2. Sound(answer, readerPc = "end") /\ Whole(answer, assembler.slots)
  <2>1. CASE readerPc = "read"
    <3>1. readerPc # "end"
      BY <2>1
    <3>2. \A k \in DOMAIN answer : answer[k].type \notin {"completed", "incomplete"}
      BY <1>1, <2>1 DEF Responses!TerminalEvents
    <3> QED BY <1>1, <2>1, <3>1, <3>2 DEF Sound, Whole
  <2>2. CASE readerPc # "read"
    BY <2>2 DEF ResponsesInv, Reads
  <2> QED BY <2>1, <2>2
<1>3. Responses!ResponseIsWellFormed
  <2>1. \A k \in DOMAIN answer :
           /\ Fits(answer, k) /\ (answer[k].type \in Responses!TerminalEvents => k = Len(answer))
           /\ {answer[j].slot : j \in {j \in DOMAIN answer : j < k} \intersect Responses!Of("item_added")} =
                 SlotsBefore(answer, "item_added", k)
           /\ {answer[j].slot : j \in {j \in DOMAIN answer : j < k} \intersect Responses!Of("item_done")} =
                 SlotsBefore(answer, "item_done", k)
    <3>1. ASSUME NEW k \in DOMAIN answer, NEW type
          PROVE  {j \in DOMAIN answer : j < k} \intersect Responses!Of(type) =
                    {j \in DOMAIN answer : j < k /\ answer[j].type = type}
      BY DEF Responses!Of
    <3>2. ASSUME NEW k \in DOMAIN answer, NEW type
          PROVE  {answer[j].slot : j \in {j \in DOMAIN answer : j < k} \intersect Responses!Of(type)} =
                    SlotsBefore(answer, type, k)
      BY <3>1 DEF SlotsBefore
    <3> QED BY <1>2, <3>2 DEF Sound
  <2>2. readerPc = "end" => answer[Len(answer)].type \in Responses!TerminalEvents
    BY <1>2 DEF Sound
  <2> QED BY <2>1, <2>2, ResponsesSets DEF Responses!ResponseIsWellFormed, Fits, ItemTypes
<1>4. Responses!CompleteMeansWhole
  <2>1. \A type : Responses!Of(type) = ItemPlaces(answer, type)
    BY DEF Responses!Of, ItemPlaces
  <2>2. \A type : {answer[j].slot : j \in Responses!Of(type)} = Slots(answer, type)
    BY DEF Responses!Of, Slots
  <2>3. SUFFICES ASSUME NEW k \in Responses!Of("completed") \union Responses!Of("incomplete")
                 PROVE  /\ {answer[j].slot : j \in Responses!Of("item_added")} = {answer[j].slot : j \in Responses!Of("item_done")}
                        /\ Len(answer[k].output) = Cardinality(Responses!Of("item_added"))
                        /\ answer[k].output = assembler.slots
    BY ResponsesSets DEF Responses!CompleteMeansWhole
  <2>4. k \in DOMAIN answer /\ answer[k].type \in {"completed", "incomplete"}
    BY DEF Responses!Of
  <2> QED BY <1>2, <2>1, <2>2, <2>4 DEF Whole
<1> QED BY <1>3, <1>4

-----------------------------------------------------------------------------
(* The streams together. *)

\* What is known of each stream, whichever of them is read.
StreamsInv == ChatInv /\ RelayInv /\ MessageInv /\ ResponsesInv

LEMMA StreamsInit == ASSUME InitStreams PROVE StreamsInv
<1>1. ChatInv
  BY ChatInit DEF InitStreams
<1>2. RelayInv /\ MessageInv
  BY RelayInit, MessageInit DEF InitStreams
<1>3. ResponsesInv
  BY ResponsesInit DEF InitStreams
<1> QED BY <1>1, <1>2, <1>3 DEF StreamsInv

\* A step is one of the stream that is read, and leaves the others alone.
LEMMA OneStreamSteps ==
    ASSUME [NextStreams]_streamsVars
    PROVE  /\ [Chat!Next]_Chat!vars
           /\ [Relay!Next]_Relay!vars
           /\ [Responses!Next]_Responses!vars
<1>1. /\ UNCHANGED chatVars => UNCHANGED Chat!vars
      /\ UNCHANGED relayVars => UNCHANGED Relay!vars
      /\ UNCHANGED readerVars => UNCHANGED Responses!vars
  BY DEF chatVars, relayVars, readerVars, Chat!vars, Relay!vars, Responses!vars
<1>2. CASE NextStreams
  BY <1>1, <1>2 DEF NextStreams
<1>3. CASE UNCHANGED streamsVars
  BY <1>1, <1>3 DEF streamsVars
<1> QED BY <1>2, <1>3

LEMMA StreamsNext == ASSUME StreamsInv, [NextStreams]_streamsVars PROVE StreamsInv'
<1>1. ChatInv'
  BY OneStreamSteps, ChatNext, StreamsAssumption DEF StreamsInv, StreamsAssumption
<1>2. RelayInv'
  BY OneStreamSteps, RelayNext, StreamsAssumption DEF StreamsInv, StreamsAssumption
<1>3. MessageInv'
  BY OneStreamSteps, MessageNext DEF StreamsInv
<1>4. ResponsesInv'
  BY OneStreamSteps, ResponsesNext DEF StreamsInv
<1> QED BY <1>1, <1>2, <1>3, <1>4 DEF StreamsInv

\* The invariant behind the two results below.
THEOREM StreamsAreSound == SpecStreams => []StreamsInv
BY StreamsInit, StreamsNext, PTL DEF SpecStreams

\* For any tools, plans, bounds and upstreams: what a client reads is one message or one
\* response of its protocol, whoever made it: each block is begun once, told in order and
\* closed, nothing is told outside of its block, a tool call that was salvaged is whole, and a
\* response that was cut short is not passed off as complete (ledger.py, stream.py,
\* recovery.py, client.py, assembler.py).
THEOREM StreamsAreWhole == SpecStreams => []StreamsAreWellFormed
<1>1. StreamsInv => StreamsAreWellFormed
  BY MessagesAreKept, SalvagesAreWhole, MessageIsRelayed, ResponsesAreWhole
     DEF StreamsInv, StreamsAreWellFormed
<1> QED BY <1>1, StreamsAreSound, PTL

\* For any number of attempts: what a client has read was made by the last ledger and by the
\* last attempt alone, and a request that is sent after a correction is not one that was rejected
\* before it (stream_recovery.py, client.py, request.py).
THEOREM RetriesStayInvisible == SpecStreams => []RetriesAreInvisible
<1>1. StreamsInv => RetriesAreInvisible
  BY ReplaysAreInvisible, AttemptsAreOne, DifferentIsNew DEF StreamsInv, RetriesAreInvisible
<1> QED BY <1>1, StreamsAreSound, PTL
=============================================================================
