------------------------------ MODULE MCParser ------------------------------
(***************************************************************************)
(* Instances of Parser for TLC.                                            *)
(***************************************************************************)
EXTENDS Parser

X == 120

\* 8=|9=n|body10=|, with a body of n bytes that ends its last field.
Message(body) ==
  [sound |-> TRUE,
   text |-> BeginString \o BodyLength \o <<Digit(Len(body)), Soh>> \o body
              \o Tail(CheckSum) \o <<Soh>>]
Noise(text) == [sound |-> FALSE, text |-> text]

Short == Message(<<>>)
\* Bodies that look like the end of a message, and like the start of one.
Ending == Message(<<X>> \o CheckSum \o <<Soh>>)
Starting == Message(BeginString \o BodyLength \o <<Digit(0), Soh>>)

\* A stray byte, half a BeginString, a length without a message; a message whose
\* length is no number.
Strays == {Noise(<<X>>), Noise(<<Digit(8)>>), Noise(BodyLength \o <<Digit(1), Soh>>)}
Broken == Noise(BeginString \o BodyLength \o <<X, Soh>>)

\* More noise than the buffer takes.
Long == Noise([i \in 1..(2 * MaxChunk + 5) |-> X])

\* A message of more than the buffer takes.
Huge == Noise(BeginString \o BodyLength \o <<Digit(9), Digit(9), Soh>> \o Long.text)

SeqOf3(S) == {<<p, q, r>> : p \in S, q \in S, r \in S}

\* Messages and noise in any order; and messages, with a broken one after the first.
\* (What is left of a body that looks like a message would be taken for one.)
AllStreams ==
  SeqOf3({Short, Ending, Starting} \cup Strays)
    \cup {<<p, q, Broken>> \o s : p \in {Short, Ending}, q \in {Short} \cup Strays,
                                 s \in SeqOf3({Short, Ending})}
    \cup {<<Short, Long, p>> : p \in {Short, Ending, Starting}}
    \cup {<<Short, Huge>>, <<Huge>>}

\* What the first read leaves, and another read.
Room == 2 * MaxChunk

=============================================================================
