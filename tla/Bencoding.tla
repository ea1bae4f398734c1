----------------------------- MODULE Bencoding -----------------------------
(***************************************************************************)
(* bencoding_decode and bencoding_encode.  A file is a sequence of tokens: *)
(* "d" and "l" open a dictionary and a list, "e" ends either, "i" is a     *)
(* number, "s" a string with its length, and a token of any other type is  *)
(* what is left of one that was cut.  A node of the decoded tree has a     *)
(* type, a length and a value, as dtorr_node; a dictionary's value is a    *)
(* hash map.                                                               *)
(*                                                                         *)
(* Both directions go through a tree that C walks with calls of functions  *)
(* for the levels below.  Here a decoder takes one token at a time, and    *)
(* keeps the calls that have not returned in a sequence; an encoder writes *)
(* the whole tree down once for each level, one level deeper each time.    *)
(***************************************************************************)
EXTENDS HashMap, Integers, SequencesExt

CONSTANTS
  MAX_RECURSION,
  DICT_SIZE        \* the 256 slots that handle_dict gives a dictionary

ASSUME BencodingAssumption == MAX_RECURSION \in Nat /\ DICT_SIZE \in Nat \ {0}

Num(n) == [type |-> "num", len |-> 0, value |-> n]
Str(value, len) == [type |-> "str", len |-> len, value |-> value]
List(elements) == [type |-> "list", len |-> Len(elements), value |-> elements]
Dict(map) == [type |-> "dict", len |-> 0, value |-> map]

\* What memset leaves in a node whose value was never decoded.
Blank == [type |-> "none", len |-> 0, value |-> 0]

\* The tokens of a number and of a string, and those without a value.
NumToken(n) == [t |-> "i", value |-> n]
StrToken(value, len) == [t |-> "s", value |-> value, len |-> len]
Token(t) == [t |-> t]

\* A key is found by what it is; its length is not told apart.
KeyToken(key) == StrToken(key, 1)

-----------------------------------------------------------------------------
(***************************************************************************)
(* bencoding_decode.  A call of handle_dict or handle_list that has not    *)
(* returned has a node, with what it holds so far, and the call of         *)
(* handle_dict may have a key whose value is to come.                      *)
(***************************************************************************)
Call(node, key) == [node |-> node, key |-> key]
NoKey == <<>>

\* The calls are in the order they were made.  node is what they returned in the end.
Reading(calls) == [status |-> "reading", calls |-> calls, node |-> Blank]
Decoded(node) == [status |-> "decoded", calls |-> <<>>, node |-> node]

\* Every function returns the null pointer.
Null == [status |-> "null", calls |-> <<>>, node |-> Blank]

\* The last call goes on as another one.
GoesOn(calls, call) == Reading(Append(Front(calls), call))

\* A node is decoded: an element of a list, the value of a key, or the root.
Placed(calls, node) ==
  IF calls = <<>> THEN Decoded(node)
  ELSE LET call == Last(calls)
       IN  IF call.node.type = "list"
           THEN GoesOn(calls, Call(List(Append(call.node.value, node)), NoKey))
           ELSE GoesOn(calls, Call(Dict(hashmap_insert(call.node.value, Head(call.key), node)),
                                   NoKey))

\* The "e" is also looked for between a key and its value, which then stays blank.
WithBlank(call) ==
  IF call.key = NoKey THEN call.node
  ELSE Dict(hashmap_insert(call.node.value, Head(call.key), Blank))

\* Mutant: a token that was cut is taken for an end.
EndsEarly(calls, token) == calls # <<>> /\ token.t \notin {"d", "l", "i", "s"}

\* The loops of handle_dict and handle_list stop here.
Ends(calls, token) == calls # <<>> /\ token.t = "e"

AwaitsKey(calls) == calls # <<>> /\ Last(calls).node.type = "dict" /\ Last(calls).key = NoKey

handle_key(calls, token) ==
  LET map == Last(calls).node.value
  IN  IF token.t # "s" THEN Null
      ELSE IF ~ HasRoom(map, token.value) THEN Null
      ELSE GoesOn(calls, Call(Dict(map), <<token.value>>))

\* The level is one more than the calls that have not returned.
decode_helper(calls, token) ==
  IF Len(calls) + 1 > MAX_RECURSION THEN Null
  ELSE CASE token.t = "d" -> Reading(Append(calls, Call(Dict(hashmap_init(DICT_SIZE)), NoKey)))
         [] token.t = "l" -> Reading(Append(calls, Call(List(<<>>), NoKey)))
         [] token.t = "i" -> Placed(calls, Num(token.value))
         [] token.t = "s" -> Placed(calls, Str(token.value, token.len))
         [] OTHER -> Null

\* What follows the root is not looked at.
Take(decoder, token) ==
  LET calls == decoder.calls
  IN  IF decoder.status # "reading" THEN decoder
      ELSE IF Ends(calls, token) THEN Placed(Front(calls), WithBlank(Last(calls)))
      ELSE IF AwaitsKey(calls) THEN handle_key(calls, token)
      ELSE decode_helper(calls, token)

\* A file that ends before the root does is not decoded.
bencoding_decode(file) ==
  LET after[n \in 0 .. Len(file)] ==
        IF n = 0 THEN Reading(<<>>) ELSE Take(after[n - 1], file[n])
      decoder == after[Len(file)]
  IN  IF decoder.status = "decoded" THEN decoder ELSE Null

-----------------------------------------------------------------------------
(***************************************************************************)
(* bencoding_encode.  What is written down is tokens, and nodes that are   *)
(* still to be encoded.  start settles the order of equal keys, see        *)
(* hashmap_entries.                                                        *)
(***************************************************************************)
ToEncode(node) == [t |-> "node", node |-> node]

EncodeEntries(map, start) ==
  LET entries == hashmap_entries(map, start)
  IN  FlattenSeq([k \in DOMAIN entries |->
                    <<KeyToken(entries[k].key), ToEncode(entries[k].value)>>])

\* What has no type is left out without an error.
encode_helper(node, start) ==
  CASE node.type = "dict" ->
         <<Token("d")>> \o EncodeEntries(node.value, start) \o <<Token("e")>>
    [] node.type = "list" ->
         <<Token("l")>> \o [k \in DOMAIN node.value |-> ToEncode(node.value[k])] \o <<Token("e")>>
    [] node.type = "num" -> <<NumToken(node.value)>>
    [] node.type = "str" -> <<StrToken(node.value, node.len)>>
    [] OTHER -> <<>>

\* One level more is encoded, and the nodes below it stay, or are left out.
Encoded(items, start) ==
  FlattenSeq([k \in DOMAIN items |->
                IF items[k].t = "node" THEN encode_helper(items[k].node, start)
                ELSE <<items[k]>>])
TokensOf(items) ==
  FlattenSeq([k \in DOMAIN items |-> IF items[k].t = "node" THEN <<>> ELSE <<items[k]>>])

\* What is deeper than MAX_RECURSION is left out without an error, too.
bencoding_encode(node, start) ==
  LET level[n \in 0 .. MAX_RECURSION] ==
        IF n = 0 THEN <<ToEncode(node)>> ELSE Encoded(level[n - 1], start)
  IN  TokensOf(level[MAX_RECURSION])

=============================================================================
