--------------------------- MODULE MCMessageDecoding --------------------------
EXTENDS MessageDecoding

Names == BoundedSeq({"a", "B", ".", "_", "EAcute"}, 3)
OfDevice == [topic |-> <<"app", "sn1">>]
Json(ps) == [kind |-> "json", params |-> ps] @@ OfDevice
Pair(p, x, q, y) == [n \in {p, q} |-> IF n = p THEN x ELSE y]

\* Two parameters, of whatever names, in one message.
TwoNames == {<<Json(Pair(p, Number(2), q, Number(3)))>> : p, q \in Names}

\* pdata as a device masks it: not from src 32, and not without being told.
Pdata(plain, encType, seq, src) ==
    plain @@ [mask |-> IF encType = 1 /\ src # 32 THEN seq % 256 ELSE 0]
JsonPdata(ps)  == [kind |-> "json", params |-> ps]
MessagePdata(m) == [kind |-> "message", m |-> m]
Text == [kind |-> "text"]

Header(cmd, plain, encType, seq, src) ==
    [cmd |-> cmd, encType |-> encType, seq |-> seq, src |-> src,
     pdata |-> Pdata(plain, encType, seq, src)]

Scalar(n) == [v |-> n]
Sub(m) == [m |-> m]
Pack(num, s) == (<<"n">> :> Scalar(num)) @@ (<<"s">> :> Scalar(s)) @@ (<<"x">> :> Scalar(9))

Contents ==
    {<< <<3, 1>>, JsonPdata(<<"o", "n">> :> Number(5)) >>,
     << <<3, 1>>, MessagePdata(<<"s">> :> Scalar(4)) >>,
     << <<32, 50>>, MessagePdata(Pack(1, 6)) >>,
     << <<254, 30>>, MessagePdata(Pack(12, 7)) >>,
     << <<254, 22>>, MessagePdata((<<"p", "S">> :> Scalar(1)) @@ (<<"p", "x">> :> Scalar(2))
            @@ (<<"s", "A">> :> Scalar(3)) @@ (<<"o", "S">> :> Sub(<<"o", "A">> :> Scalar(8)))) >>,
     << <<32, 2>>, MessagePdata((<<"m", "0">> :> Sub(<<"s">> :> Scalar(0)))
            @@ (<<"m", "1">> :> Sub(<<"m", "A">> :> Scalar(1)))) >>,
     << <<254, 21>>, MessagePdata(NoParams) >>,
     << <<254, 20>>, MessagePdata(<<"s">> :> Scalar(2)) >>,
     << <<3, 50>>, Text >>}

Plain == {Header(c[1], c[2], 0, 0, 2) : c \in Contents}
Masked == {Header(c[1], c[2], 1, seq, src) :
              c \in Contents, seq \in {0, 1, 256, 257}, src \in {2, 32}}
          \cup {Header(c[1], c[2], 0, 257, 2) : c \in Contents}

Headers(hs) == [kind |-> "headers", headers |-> hs] @@ OfDevice

\* One to three headers in a message.
InOneMessage ==
    {<<Headers(<<h>>)>> : h \in Masked} \cup {<<Headers(hs)>> : hs \in SeqOf(Plain, 3)}

\* Three messages one after another, of different formats.
Messages ==
    {[kind |-> "text"] @@ OfDevice, [kind |-> "object"] @@ OfDevice,
     [topic |-> <<>>] @@ Json(<<"a">> :> Number(7)),
     [topic |-> <<"app", "">>] @@ Json(<<"a">> :> Number(7)),
     [topic |-> <<"app", "sn2">>] @@ Headers(<<Header(<<3, 1>>, Text, 0, 0, 2)>>),
     Headers(<<>>), Json(NoParams),
     Json(<<"a", "B">> :> Number(1)), Json(<<"a", "B">> :> Other),
     Json(<<"a", ".", "b">> :> Bool(TRUE)),
     Json(Pair(<<"o", "n">>, Number(0), <<"a", ".", "b">>, Other))}
    \cup {Headers(<<h>>) : h \in {k \in Plain : k.cmd # <<32, 2>>}}

MCInboxes == TwoNames \cup InOneMessage \cup [1 .. 3 -> Messages]

MCOnlineName == <<"o", "n">>

=============================================================================
