------------------------------ MODULE MCResume ------------------------------
(***************************************************************************)
(* Instances of Resume for TLC: torrents of one and two pieces, in one     *)
(* file and in three, some of them odd.  The hashes are those of djb2      *)
(* modulo 256.  They are used modulo 16 and 7, since the dictionaries have *)
(* less slots here, where as in 256 none of the keys looked up collide;    *)
(* "comment" and "created by" do.                                          *)
(***************************************************************************)
EXTENDS Resume

Djb2 ==
  [announce |-> 188, bitfield |-> 104, comment |-> 88, downloaded |-> 134, files |-> 56,
   info |-> 209, length |-> 199, name |-> 70, path |-> 242, pieces |-> 254, uploaded |-> 179]
KeysMore ==
  [k \in {"created by", "download-dir", "dtorr-state", "piece length"} |->
     CASE k = "created by" -> 88 [] k = "download-dir" -> 201
       [] k = "dtorr-state" -> 254 [] k = "piece length" -> 237]
AllKeys == DOMAIN Djb2 \cup DOMAIN KeysMore
AllHashes == [k \in AllKeys |-> IF k \in DOMAIN Djb2 THEN Djb2[k] ELSE KeysMore[k]]

Sorted ==
  <<"announce", "bitfield", "comment", "created by", "download-dir", "downloaded",
    "dtorr-state", "files", "info", "length", "name", "path", "piece length", "pieces",
    "uploaded">>
StrcmpOrder == [k \in AllKeys |-> CHOOSE n \in DOMAIN Sorted : Sorted[n] = k]

-----------------------------------------------------------------------------
Entry(key, tokens) == <<KeyToken(key)>> \o tokens
NumEntry(key, n) == Entry(key, <<NumToken(n)>>)
Bracketed(open, tokens) == <<Token(open)>> \o tokens \o <<Token("e")>>

PieceEntries(each, count) ==
  NumEntry("piece length", each) \o Entry("pieces", <<StrToken("hashes", 20 * count)>>)

OneFile(n) ==
  Bracketed("d", NumEntry("length", n)
                   \o Entry("path", Bracketed("l", <<StrToken("dir", 3), StrToken("file", 4)>>)))
FileEntries(lengths) ==
  Entry("files", Bracketed("l", FlattenSeq([k \in DOMAIN lengths |-> OneFile(lengths[k])])))

TorrentFile(info, sorted) ==
  [before |-> <<Token("d")>> \o Entry("announce", <<StrToken("url", 3)>>)
                \o Entry("comment", <<StrToken("text", 4)>>)
                \o Entry("created by", <<StrToken("text", 4)>>)
                \o <<KeyToken("info")>>,
   info |-> Bracketed("d", info),
   after |-> <<Token("e")>>,
   sorted |-> sorted]

Name == Entry("name", <<StrToken("name", 4)>>)

Single == TorrentFile(NumEntry("length", 3) \o Name \o PieceEntries(2, 2), TRUE)
Spanning == TorrentFile(FileEntries(<<1, 1, 2>>) \o Name \o PieceEntries(3, 2), TRUE)
Unsorted == TorrentFile(Name \o PieceEntries(2, 1) \o NumEntry("length", 2), FALSE)
EmptyLast == TorrentFile(NumEntry("length", 2) \o Name \o PieceEntries(2, 2), TRUE)
LengthTwice ==
  TorrentFile(FileEntries(<<1, 1>>) \o NumEntry("length", 1) \o Name \o PieceEntries(3, 1), TRUE)
Wrapping == TorrentFile(FileEntries(<<3, 3, 3>>) \o Name \o PieceEntries(1, 1), TRUE)

TooShort == TorrentFile(NumEntry("length", 1) \o Name \o PieceEntries(2, 2), TRUE)
TooLong == TorrentFile(NumEntry("length", 5) \o Name \o PieceEntries(2, 2), TRUE)
NoHashes == TorrentFile(NumEntry("length", 2) \o Name \o PieceEntries(2, 0), TRUE)
NoValue == TorrentFile(NumEntry("length", 2) \o Name \o PieceEntries(2, 1) \o <<KeyToken("uploaded")>>, TRUE)

Good == {Single, Spanning}
Odd == {Unsorted, EmptyLast, LengthTwice, Wrapping, NoValue}
Refused == {TooShort, TooLong, NoHashes}
SingleOnly == {Single}
AllFiles == Good \cup Odd \cup Refused

-----------------------------------------------------------------------------
\* How many brackets are open behind the k-th token.
Depth(file, k) ==
  Cardinality({j \in 1 .. k : file[j].t \in {"d", "l"}})
    - Cardinality({j \in 1 .. k : file[j].t = "e"})

\* The item that begins with the k-th token, and all items in a file.
ItemAt(file, k) ==
  SubSeq(file, k, CHOOSE n \in k .. Len(file) :
                    /\ Depth(file, n) = Depth(file, k - 1)
                    /\ \A j \in k .. n - 1 : Depth(file, j) # Depth(file, k - 1))
ItemsIn(file) == {ItemAt(file, k) : k \in {j \in DOMAIN file : file[j].t # "e"}}

\* Those that an item is put together from.
Inside(item) ==
  LET firsts == {k \in 2 .. Len(item) - 1 : Depth(item, k - 1) = 1 /\ item[k].t # "e"}
      Nth(n) == CHOOSE k \in firsts : Cardinality({j \in firsts : j <= k}) = n
  IN  [n \in 1 .. Cardinality(firsts) |-> ItemAt(item, Nth(n))]

CutOf(item) ==
  LET first == item[1]
      inside == Inside(item)
      pairs == (Len(inside) + 1) \div 2
  IN  CASE first.t = "i" -> [type |-> "num", value |-> first.value]
        [] first.t = "s" -> [type |-> "str", value |-> first.value, len |-> first.len]
        [] first.t = "l" -> [type |-> "list", parts |-> inside]
        [] first.t = "d" ->
             [type |-> "dict",
              keys |-> [k \in 1 .. pairs |-> inside[2 * k - 1][1].value],
              parts |-> [k \in 1 .. pairs |->
                           IF 2 * k <= Len(inside) THEN inside[2 * k] ELSE <<>>]]

SortedItems == UNION {ItemsIn(Tokens(file)) : file \in {f \in AllFiles : f.sorted}}
FileCutting == [item \in SortedItems |-> CutOf(item)]

SomeCuts == {20}

\* What any of them lies on disk as.
AllLayouts ==
  {LayoutOf(load_torrent_metadata(Tokens(file))) : file \in {f \in AllFiles : Loads(Tokens(f))}}

=============================================================================
