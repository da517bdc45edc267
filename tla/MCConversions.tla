--------------------------- MODULE MCConversions ---------------------------
(* Inputs for every conversion: bytes of five bits, integers of two bytes. *)
EXTENDS Conversions

Ints == {0, 1, Base ^ Word - 1}
Blocks == {<<>>, <<0>>, <<3, Base - 1>>, <<5, 0, 16>>}
Tagged(name, set) == {<<name, x>> : x \in set}

Messages ==
    {KeepAlive}
    \cup {Plain(k) : k \in {"Choke", "UnChoke", "Interested", "NotInterested"}}
    \cup {Have(n) : n \in Ints} \cup {Port(n) : n \in Ints} \cup {Bitfield(b) : b \in Blocks}
    \cup {Request(i, b, l) : i, b, l \in Ints} \cup {Cancel(i, b, l) : i, b, l \in Ints}
    \cup {Piece(i, b, block) : i, b \in Ints, block \in Blocks}
    \cup {HandShake(pstr, <<r>>, <<h>>, <<p>>) :
             pstr \in Blocks \cup {[i \in 1 .. Base \div 2 - 1 |-> i]}, r, h, p \in {0, Base - 1}}

(* Frames with every type byte, and buffers whose header is short or wrong. *)
Buffers ==
    UNION {{IntToBytes(n, Word) \o <<t>> \o rest : t \in Byte, rest \in [1 .. n - 1 -> {0, Base - 1}]} : n \in 1 .. 7}
    \cup {IntToBytes(n, Word) \o b : n \in 0 .. 3, b \in Blocks}
    \cup UNION {[1 .. n -> {0, 1, 2, Base - 1}] : n \in 0 .. 3}

HandShakeBuffers ==
    {[i \in 1 .. HandShakeLen + c |-> IF i = 1 THEN c ELSE i % Base] : c \in Byte}
    \cup {[i \in 1 .. n |-> IF i = 1 THEN c ELSE i] : n \in 1 .. 6, c \in Byte}

BitFields == UNION {[1 .. n -> BOOLEAN] : n \in 0 .. 2 * Bits}

Dict(pairs) == [k \in {p[1] : p \in {q \in pairs : q[2] # None}} |-> (CHOOSE p \in pairs : p[1] = k)[2][1]]

Str(s) == Some(Bstring(s))
Num(n) == Some(Bint(n))

FileDicts ==
    {Bdict(Dict({<<"length", l>>, <<"md5sum", m>>, <<"path", p>>})) :
        l \in {None, Num(2), Str("x")}, m \in {None, Str(""), Str("h")},
        p \in {None, Num(1), Some(Blist(<<Bstring("a"), Bstring("b")>>)), Some(Blist(<<Bint(1)>>))}}
    \cup {Bint(1)}

FileLists ==
    {None, Num(1)} \cup {Some(Blist(<<f>>)) : f \in FileDicts}
    \cup {Some(Blist(<<Bdict(Dict({<<"length", Num(3)>>, <<"path", Some(Blist(<<Bstring("c")>>))>>})), f>>)) : f \in FileDicts}

Infos ==
    {Dict({<<"name", n>>, <<"length", l>>, <<"md5sum", m>>, <<"files", f>>, <<"piece length", pl>>,
           <<"pieces", Str("p")>>, <<"private", pr>>, <<"source", src>>}) :
        n \in {None, Str("d"), Num(1)}, l \in {None, Num(4)}, m \in {None, Str(""), Str("h")},
        f \in FileLists, pl \in {None, Num(2)}, pr \in {None, Num(1), Str("1")}, src \in {None, Str("s")}}

OneInfo == Dict({<<"name", Str("d")>>, <<"length", Num(4)>>, <<"piece length", Num(2)>>, <<"pieces", Str("p")>>})

TorrentDicts ==
    {Bdict(Dict({<<"announce", Str("u")>>, <<"info", Some(Bdict(i))>>})) : i \in Infos}
    \cup {Bdict(Dict({<<"announce", a>>, <<"announce-list", al>>, <<"info", i>>})) :
             a \in {None, Str("u"), Num(1)},
             al \in {None, Num(1), Some(Blist(<<Bint(1)>>)), Some(Blist(<<Blist(<<Bstring("u"), Bint(2)>>), Blist(<<>>)>>))},
             i \in {None, Num(1), Some(Bdict(OneInfo))}}
    \cup {Bint(1)}

PeerDict(id, ip, port) == Bdict(Dict({<<"peer id", id>>, <<"ip", ip>>, <<"port", port>>}))

PeerLists ==
    {None, Num(0)}
    \cup {Some(Bstring(s)) : s \in UNION {[1 .. n -> {0, 1, 7}] : n \in 0 .. 6}}
    \cup {Some(Blist(<<PeerDict(Str("i"), Str("h"), Num(1)), PeerDict(id, ip, port)>>)) :
             id \in {None, Str("j")}, ip \in {None, Str("k")}, port \in {None, Num(2), Str("x")}}
    \cup {Some(Blist(<<>>)), Some(Blist(<<Bint(1)>>))}

Answers ==
    {Bdict(Dict({<<"failure reason", fr>>, <<"interval", i>>, <<"min interval", mi>>, <<"complete", c>>,
                 <<"incomplete", Num(1)>>, <<"peers", p>>})) :
        fr \in {None, Str("no"), Num(1)}, i \in {None, Num(9)}, mi \in {None, Num(5)},
        c \in {Num(2), Str("2")}, p \in {q \in PeerLists : q = None \/ q[1][1] # "str" \/ Len(q[1][2]) <= 1}}
    \cup {Bdict(Dict({<<"interval", Num(9)>>, <<"complete", Num(2)>>, <<"incomplete", Num(1)>>, <<"peers", p>>})) : p \in PeerLists}
    \cup {Bint(1)}

(* One hash for each piece, the last of which may be shorter. *)
SmallTorrents ==
    {t \in UNION {[files : [1 .. n -> 0 .. 3], pieceLength : 1 .. 4, pieces : {HashLength * k : k \in 1 .. 9}] : n \in 1 .. 3} :
        /\ Size(t) > t.pieceLength * (NumberOfPieces(t) - 1)
        /\ Size(t) <= t.pieceLength * NumberOfPieces(t)}

AllInputs ==
    Tagged("message", Messages) \cup Tagged("buffer", Buffers) \cup Tagged("handshake", HandShakeBuffers)
    \cup Tagged("bits", BitFields) \cup Tagged("torrent file", TorrentDicts)
    \cup Tagged("answer", Answers) \cup Tagged("torrent", SmallTorrents)
=============================================================================
