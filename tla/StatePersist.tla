---------------------------- MODULE StatePersist ----------------------------
(***************************************************************************)
(* save_state and parse_state: what the client has done for a torrent,     *)
(* kept in a dictionary of its own inside the decoded torrent file.        *)
(***************************************************************************)
EXTENDS Metadata

CONSTANT STATE_SIZE   \* the 16 slots of the dictionary of a first save

ASSUME StatePersistAssumption == STATE_SIZE \in Nat \ {0}

STATE_KEY == "dtorr-state"
DOWNLOAD_DIR_KEY == "download-dir"
BITFIELD_KEY == "bitfield"
DOWNLOADED_KEY == "downloaded"
UPLOADED_KEY == "uploaded"

\* The state comes before the info dictionary in a file, and the bitfield before what
\* else is in the state, which can be decoded that deep.
ASSUME StateOrderAssumption ==
  /\ place_of(STATE_KEY) < place_of("info")
  /\ \A key \in {DOWNLOAD_DIR_KEY, DOWNLOADED_KEY, UPLOADED_KEY} :
       place_of(BITFIELD_KEY) < place_of(key)
  /\ MAX_RECURSION >= 3

-----------------------------------------------------------------------------
(***************************************************************************)
(* The parts of save_state work on a record of two dictionaries: decoded,  *)
(* which is the whole file, and state.  ok is whether they all returned 0  *)
(* so far; what a part has written stays when a later one fails.           *)
(***************************************************************************)

\* The node that a lookup found gets another value.
Overwrite(map, key, value) == WithEntry(map, Home(map, key), key, value)

\* A key that is not found is inserted, if there is room.
Insert(s, key, node) ==
  IF HasRoom(s.state, key)
  THEN [s EXCEPT !.state = hashmap_insert(s.state, key, node)]
  ELSE [s EXCEPT !.ok = FALSE]

\* Mutant: the comparison of the lengths is the other way around.
save_bitfield_refused(s, t) ==
  LET node == Str(t.bitfield, t.piece_count)
  IN  IF ~ Has(s.state, BITFIELD_KEY) THEN Insert(s, BITFIELD_KEY, node)
      ELSE [s EXCEPT !.ok = FALSE]

\* Mutant: a bitfield that is there already stays as it is.
save_bitfield_once(s, t) ==
  IF Has(s.state, BITFIELD_KEY) THEN s
  ELSE Insert(s, BITFIELD_KEY, Str(t.bitfield, t.piece_count))

save_bitfield(s, t) ==
  LET node == Str(t.bitfield, t.piece_count)
  IN  IF ~ Has(s.state, BITFIELD_KEY) THEN Insert(s, BITFIELD_KEY, node)
      ELSE IF /\ IsNode(s.state, BITFIELD_KEY, "str")
              /\ hashmap_get(s.state, BITFIELD_KEY).len = t.piece_count
           THEN [s EXCEPT !.state = Overwrite(s.state, BITFIELD_KEY, node)]
           ELSE [s EXCEPT !.ok = FALSE]

save_download_dir(s, t) ==
  LET node == Str(t.download_dir, 1)
  IN  IF ~ s.ok \/ t.download_dir = "none" THEN [s EXCEPT !.ok = FALSE]
      ELSE IF Has(s.state, DOWNLOAD_DIR_KEY)
           THEN [s EXCEPT !.state = Overwrite(s.state, DOWNLOAD_DIR_KEY, node)]
           ELSE Insert(s, DOWNLOAD_DIR_KEY, node)

\* Mutant: the count has no place of its own, but that of the other count.
save_data_count_swapped(s, key, value) ==
  Insert(s, IF key = DOWNLOADED_KEY THEN UPLOADED_KEY ELSE DOWNLOADED_KEY, Num(value))

\* The key is looked up in the whole file, and inserted into the state.
save_data_count(s, key, value) ==
  IF ~ s.ok THEN s
  ELSE IF Has(s.decoded, key)
       THEN [s EXCEPT !.decoded = Overwrite(s.decoded, key,
                             [hashmap_get(s.decoded, key) EXCEPT !.value = value])]
       ELSE Insert(s, key, Num(value))

\* Where the state is found, or goes.
StateSlot(decoded) ==
  IF Has(decoded, STATE_KEY) THEN Home(decoded, STATE_KEY) ELSE FreeSlot(decoded, STATE_KEY)

\* save_state gets a dictionary to save into.
HasPlace(decoded) ==
  IF Has(decoded, STATE_KEY) THEN IsNode(decoded, STATE_KEY, "dict")
  ELSE HasRoom(decoded, STATE_KEY)

\* save_download_dir leaves a node that it finds the type that it has.  What a string is
\* as the value of another type is undefined.
DirIsString(state) == Has(state, DOWNLOAD_DIR_KEY) => IsNode(state, DOWNLOAD_DIR_KEY, "str")

\* save_data_count writes a number to whatever the file has under that name.  What
\* that does to anything but a number is undefined.
CountsAreNumbers(decoded) ==
  \A key \in {DOWNLOADED_KEY, UPLOADED_KEY} : Has(decoded, key) => IsNode(decoded, key, "num")

\* save_state up to the encoding: did it succeed, what has decoded become, if what it
\* did was defined, and what the dictionary that it saved into?
Saved(t) ==
  LET state == IF Has(t.decoded, STATE_KEY) THEN hashmap_get(t.decoded, STATE_KEY).value
               ELSE hashmap_init(STATE_SIZE)
      bitfield == save_bitfield([ok |-> TRUE, decoded |-> t.decoded, state |-> state], t)
      dir == save_download_dir(bitfield, t)
      downloaded == save_data_count(dir, DOWNLOADED_KEY, t.downloaded)
      uploaded == save_data_count(downloaded, UPLOADED_KEY, t.uploaded)
  IN  IF HasPlace(t.decoded)
      THEN [ok |-> uploaded.ok,
            defined |-> dir.ok => DirIsString(bitfield.state) /\ CountsAreNumbers(t.decoded),
            decoded |-> WithEntry(uploaded.decoded, StateSlot(t.decoded), STATE_KEY,
                                  Dict(uploaded.state)),
            state |-> uploaded.state]
      ELSE [ok |-> FALSE, defined |-> TRUE, decoded |-> t.decoded,
            state |-> hashmap_init(STATE_SIZE)]

-----------------------------------------------------------------------------
(***************************************************************************)
(* parse_state                                                             *)
(***************************************************************************)

\* A count is taken as unsigned; the test for a negative one looks at a pointer.
Count(state, key, before) ==
  IF IsNode(state, key, "num") THEN NumberOf(state, key) % Modulus ELSE before

BitfieldFits(state, t) ==
  /\ IsNode(state, BITFIELD_KEY, "str")
  /\ hashmap_get(state, BITFIELD_KEY).len = t.piece_count

parse_state(t) ==
  LET state == hashmap_get(t.decoded, STATE_KEY).value
  IN  IF ~ IsNode(t.decoded, STATE_KEY, "dict") \/ ~ IsNode(state, DOWNLOAD_DIR_KEY, "str")
      THEN t
      ELSE [t EXCEPT
              !.downloaded = Count(state, DOWNLOADED_KEY, @),
              !.uploaded = Count(state, UPLOADED_KEY, @),
              !.download_dir = hashmap_get(state, DOWNLOAD_DIR_KEY).value,
              !.bitfield = IF BitfieldFits(state, t)
                           THEN hashmap_get(state, BITFIELD_KEY).value ELSE @]

\* What load_torrent_metadata makes of a file it accepts.
load_torrent_metadata(file) == parse_state(Torrent(bencoding_decode(file).node))

=============================================================================
