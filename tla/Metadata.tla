------------------------------ MODULE Metadata ------------------------------
(***************************************************************************)
(* load_torrent_metadata: which files make a torrent, and what torrent     *)
(* they make.  Numbers are signed in the file and unsigned, of limited     *)
(* width, in the torrent, so that sums and products of lengths wrap.       *)
(***************************************************************************)
EXTENDS Bencoding

CONSTANT Modulus   \* 2^64

ASSUME MetadataAssumption == Modulus \in Nat \ {0}

HashLength == 20

\* What the map has for a key is a node of this type, or also a number above 0.
IsNode(map, key, type) == Has(map, key) /\ hashmap_get(map, key).type = type
IsPositive(map, key) == IsNode(map, key, "num") /\ hashmap_get(map, key).value > 0

NumberOf(map, key) == hashmap_get(map, key).value

-----------------------------------------------------------------------------
(***************************************************************************)
(* validate_and_calc_files                                                 *)
(***************************************************************************)

\* A file of the list: the components of its path are not looked at.
FileAccepted(file) ==
  /\ file.type = "dict"
  /\ IsPositive(file.value, "length")
  /\ IsNode(file.value, "path", "list")
  /\ hashmap_get(file.value, "path").len # 0

FilesAccepted(files) ==
  /\ files.type = "list" /\ files.len # 0
  /\ \A k \in 1 .. files.len : FileAccepted(files.value[k])

\* The files of the torrent, from the list or, with handle_single_file, from
\* length alone.
FileLengths(info) ==
  IF Has(info, "files")
  THEN LET files == hashmap_get(info, "files").value
       IN  [k \in DOMAIN files |-> NumberOf(files[k].value, "length")]
  ELSE <<NumberOf(info, "length")>>

Total(lengths) ==
  LET sum[n \in 0 .. Len(lengths)] == IF n = 0 THEN 0 ELSE sum[n - 1] + lengths[n]
  IN  sum[Len(lengths)]

-----------------------------------------------------------------------------
(***************************************************************************)
(* process_info                                                            *)
(***************************************************************************)

piece_count(info) == hashmap_get(info, "pieces").len \div HashLength
piece_length(info) == NumberOf(info, "piece length")

\* A length in the dictionary counts even when there are files: each of them
\* is added to it.
length(info) ==
  (IF Has(info, "files")
   THEN Total(FileLengths(info)) + (IF Has(info, "length") THEN NumberOf(info, "length") ELSE 0)
   ELSE NumberOf(info, "length")) % Modulus

\* Mutant: a torrent may have less than what its pieces hash.
LengthValidLoosely(count, each, total) == total <= (each * count) % Modulus

\* validate_pieces_and_length
LengthValid(count, each, total) ==
  /\ total >= (each * (count - 1)) % Modulus
  /\ total <= (each * count) % Modulus

InfoAccepted(info) ==
  /\ IsNode(info, "pieces", "str")
  /\ hashmap_get(info, "pieces").len % HashLength = 0
  /\ IsPositive(info, "piece length")
  /\ Has(info, "length") => IsPositive(info, "length")
  /\ IF Has(info, "files") THEN FilesAccepted(hashmap_get(info, "files"))
     ELSE Has(info, "length")
  /\ length(info) # 0
  /\ LengthValid(piece_count(info), piece_length(info), length(info))

-----------------------------------------------------------------------------
(***************************************************************************)
(* process_decoded, generate_infohash, load_torrent_metadata               *)
(***************************************************************************)

\* The dictionary at the root of a decoded file is a torrent's.
Accepted(root) ==
  /\ root.type = "dict"
  /\ IsNode(root.value, "announce", "str")
  /\ hashmap_get(root.value, "announce").len # 0
  /\ IsNode(root.value, "info", "dict")
  /\ InfoAccepted(hashmap_get(root.value, "info").value)

\* The hash stands for what is hashed: the info dictionary encoded again.
Infohash(root) == bencoding_encode(hashmap_get(root.value, "info"), 0)

\* A torrent without saved state.
Torrent(root) ==
  LET info == hashmap_get(root.value, "info").value
  IN  [decoded |-> root.value,
       infohash |-> Infohash(root),
       piece_count |-> piece_count(info),
       piece_length |-> piece_length(info),
       length |-> length(info),
       files |-> FileLengths(info),
       bitfield |-> [i \in 0 .. piece_count(info) - 1 |-> 0],
       downloaded |-> 0,
       uploaded |-> 0,
       download_dir |-> "none"]

\* The file is accepted, at whatever length: what follows the root is ignored.
Loads(file) ==
  LET root == bencoding_decode(file)
  IN  root.status = "decoded" /\ Accepted(root.node)

=============================================================================
