------------------------------- MODULE Resume -------------------------------
(***************************************************************************)
(* A download over several runs of a client, as PieceStore, with the       *)
(* torrent file: loaded at the start, the original or the one that the     *)
(* client wrote, and written anew, with what the client has, at a save.    *)
(* A crash, or a write that fails, may leave any part of it.               *)
(***************************************************************************)
EXTENDS StatePersist, PieceStore

CONSTANTS
  Files,         \* torrent files: what is before info, info, and behind it
  Cutting,       \* how the items of the sorted ones are put together
  Cuts,          \* how many tokens may be written of a file that is cut short
  MaxStarts,     \* bounds on how often the client is started,
  MaxSaves,      \* on its calls of save_state,
  MaxUploaded    \* and on what it serves

ASSUME ResumeAssumption ==
  /\ \A n \in Cuts : n \in Nat
  /\ MaxStarts \in Nat /\ MaxSaves \in Nat /\ MaxUploaded \in Nat

\* The parts of the files are tokens that can be read.
IsToken(token) ==
  \/ token \in [t : {"d", "l", "e"}]
  \/ token.t = "i" /\ token = NumToken(token.value) /\ token.value \in Int
  \/ token.t = "s" /\ token = StrToken(token.value, token.len) /\ token.len \in Nat

ASSUME FilesAssumption ==
  \A file \in Files : \A part \in {file.before, file.info, file.after} :
    part \in Seq(Range(part)) /\ \A token \in Range(part) : IsToken(token)

Tokens(file) == file.before \o file.info \o file.after

\* An item is a number, a string, a list of items, or a dictionary with its keys in
\* order, each followed by an item; the last key may be without one.
IsCut(item, how, items) ==
  \/ how.type = "num" /\ item = <<NumToken(how.value)>> /\ how.value \in Int
  \/ how.type = "str" /\ item = <<StrToken(how.value, how.len)>> /\ how.len \in Nat
  \/ /\ how.type = "list" /\ how.parts \in Seq(items)
     /\ item = <<Token("l")>> \o FlattenSeq(how.parts) \o <<Token("e")>>
  \/ /\ how.type = "dict" /\ how.parts \in Seq(items \cup {<<>>})
     /\ \A j, k \in DOMAIN how.parts :
          j < k => how.parts[j] # <<>> /\ place_of(how.keys[j]) < place_of(how.keys[k])
     /\ item = <<Token("d")>>
                 \o FlattenSeq([k \in DOMAIN how.parts |->
                                  <<KeyToken(how.keys[k])>> \o how.parts[k]])
                 \o <<Token("e")>>

ASSUME CuttingAssumption ==
  /\ \A item \in DOMAIN Cutting :
       item \in Seq(Range(item)) /\ IsCut(item, Cutting[item], DOMAIN Cutting)
  /\ \A file \in Files : file.sorted =>
       /\ Tokens(file) \in DOMAIN Cutting /\ Cutting[Tokens(file)].type = "dict"
       /\ LET root == Cutting[Tokens(file)]
          IN  \A k \in DOMAIN root.parts : root.keys[k] = "info" => root.parts[k] = file.info

VARIABLES        \* on disk
  torrent_file,  \* the original
  saved          \* the one the client wrote, empty if there is none

VARIABLES        \* of the running client
  torrent,       \* but its bitfield, and what layout has
  out            \* what save_state returned

VARIABLES        \* history
  lineage,       \* what was saved into the decoded file, in this run and before
  written,       \* the same for saved, with the count that was written
  save_failed,   \* save_state has failed in this run
  starts, saves

boundVars == <<starts, saves>>
fileVars == <<torrent_file, saved, out, lineage, written, save_failed>>
vars == <<storeVars, fileVars, torrent, boundVars>>

NoTorrent == [decoded |-> <<>>]
NothingSaved == [count |-> 0, downloaded |-> {}, uploaded |-> {}]
NothingWritten == [downloaded |-> 0, lineage |-> NothingSaved]

\* What PieceStore needs to know of a torrent.
LayoutOf(t) ==
  [files |-> t.files, piece_count |-> t.piece_count,
   piece_length |-> t.piece_length, length |-> t.length]

\* PieceStore has the torrents that there are.
ASSUME LayoutsAssumption ==
  \A file \in Files :
    Loads(Tokens(file)) => LayoutOf(load_torrent_metadata(Tokens(file))) \in Layouts

-----------------------------------------------------------------------------
(***************************************************************************)
(* The client starts                                                       *)
(***************************************************************************)

\* load_torrent with a file, and the directory that the user names.
Load(tokens, past) ==
  LET t == load_torrent_metadata(tokens)
  IN  /\ starts < MaxStarts /\ starts' = starts + 1
      /\ Loads(tokens)
      /\ Begin(LayoutOf(t), t.bitfield)
      /\ torrent' = [decoded |-> t.decoded, infohash |-> t.infohash, download_dir |-> "dir",
                     downloaded |-> t.downloaded, uploaded |-> t.uploaded]
      /\ lineage' = past
      /\ UNCHANGED <<torrent_file, saved, out, written, save_failed, saves>>

Start ==
  /\ mode = "off"
  /\ Load(Tokens(torrent_file), NothingSaved) \/ Load(saved, written.lineage)

\* What the client knew of the torrent file goes with it.
Forget ==
  torrent' = NoTorrent /\ out' = <<>> /\ lineage' = NothingSaved /\ save_failed' = FALSE

InitFailsAndExits == InitFails /\ Forget /\ UNCHANGED <<torrent_file, saved, written, boundVars>>

-----------------------------------------------------------------------------
(***************************************************************************)
(* The client runs                                                         *)
(***************************************************************************)

\* What concerns the files and the bitfield only.
StoreStep ==
  /\ \/ InitFile
     \/ mode = "run" /\ \E i \in Pieces(layout) :
          BeginWrite(i) \/ (torrent.uploaded < MaxUploaded /\ BeginRead(i))
     \/ RwTurn \/ GiveUpCall
  /\ UNCHANGED <<fileVars, torrent, boundVars>>

CountPiece ==
  /\ CompletePiece
  /\ torrent' = [torrent EXCEPT !.downloaded = @ + PieceSize(layout, call.index)]
  /\ UNCHANGED <<fileVars, boundVars>>

CountServed ==
  /\ ServePiece
  /\ torrent' = [torrent EXCEPT !.uploaded = @ + 1]
  /\ UNCHANGED <<fileVars, boundVars>>

-----------------------------------------------------------------------------
(***************************************************************************)
(* persist_state                                                           *)
(***************************************************************************)

\* The slots of a state that hold a count. There may be several of each.
CountSlots(state) ==
  {slot \in DOMAIN state.elements : state.elements[slot].key \in {DOWNLOADED_KEY, UPLOADED_KEY}}

\* The torrent as save_state gets it.
Current ==
  [decoded |-> torrent.decoded, download_dir |-> torrent.download_dir,
   downloaded |-> torrent.downloaded, uploaded |-> torrent.uploaded,
   bitfield |-> bitfield, piece_count |-> layout.piece_count]

\* save_state, if all it does is defined, then fopen, which leaves an empty file.
SaveState ==
  LET s == Saved(Current)
  IN  /\ BeginSave /\ saves < MaxSaves /\ saves' = saves + 1 /\ s.ok /\ s.defined
      /\ torrent' = [torrent EXCEPT !.decoded = s.decoded]
      /\ \E start \in {0} \cup CountSlots(s.state) :
           out' = bencoding_encode(Dict(s.decoded), start)
      /\ lineage' = [count |-> lineage.count + 1,
                     downloaded |-> lineage.downloaded \cup {torrent.downloaded},
                     uploaded |-> lineage.uploaded \cup {torrent.uploaded}]
      /\ saved' = <<>> /\ written' = NothingWritten
      /\ UNCHANGED <<torrent_file, save_failed, starts>>

\* save_state returned null; what it did to the decoded file stays.
SaveFails ==
  LET s == Saved(Current)
  IN  /\ Idle /\ saves < MaxSaves /\ saves' = saves + 1 /\ ~ s.ok /\ s.defined
      /\ torrent' = [torrent EXCEPT !.decoded = s.decoded]
      /\ save_failed' = TRUE
      /\ UNCHANGED <<storeVars, torrent_file, saved, out, lineage, written, starts>>

WriteSaved ==
  /\ EndSave
  /\ saved' = out /\ out' = <<>>
  /\ written' = [downloaded |-> torrent.downloaded, lineage |-> lineage]
  /\ UNCHANGED <<torrent_file, torrent, lineage, save_failed, boundVars>>

\* What is there of the file, besides nothing, before all of it is written.
Parts == {SubSeq(out, 1, n) : n \in {m \in Cuts : m < Len(out)}}

\* The disk is full: persist_state does not look at what fwrite returns.  (Nor at what
\* fopen returned, but with that null the client ends: see Killed.)
WriteCutShort ==
  /\ SaveCutShort
  /\ saved' \in {saved} \cup Parts /\ out' = <<>>
  /\ UNCHANGED <<torrent_file, torrent, lineage, written, save_failed, boundVars>>

-----------------------------------------------------------------------------
(***************************************************************************)
(* The specification                                                       *)
(***************************************************************************)

\* Killed while it writes the torrent file, the client leaves a part of it.
Killed ==
  /\ Crash /\ Forget
  /\ saved' \in {saved} \cup Parts
  /\ UNCHANGED <<torrent_file, written, boundVars>>

Init ==
  /\ StoreInit
  /\ torrent_file \in Files
  /\ saved = <<>> /\ torrent = NoTorrent /\ out = <<>>
  /\ lineage = NothingSaved /\ written = NothingWritten
  /\ save_failed = FALSE /\ starts = 0 /\ saves = 0

Next ==
  \/ Start \/ InitFailsAndExits \/ StoreStep \/ CountPiece \/ CountServed
  \/ SaveState \/ SaveFails \/ WriteSaved \/ WriteCutShort
  \/ Killed

Spec == Init /\ [][Next]_vars

-----------------------------------------------------------------------------
(***************************************************************************)
(* Properties, besides HaveOnDisk and ReadsBack of PieceStore              *)
(***************************************************************************)

\* Each start has the torrent that the starts before had, with the bitfield that was
\* last written down, or an empty one: through state and torrent file, encoded,
\* cut off by a crash, and decoded, the client is the one of PieceStore.
ImplementsPieceStore == StoreSpec

\* A torrent file that the client wrote to its end loads again, as the same torrent,
\* with the bitfield it was written with.  The counts are those of some save, of
\* this run or of one before: of the only one, if there was but one.
SavedIsRestored ==
  ~ Loaded /\ kept # NothingKept =>
    /\ Loads(saved)
    /\ LET t == load_torrent_metadata(saved)
       IN  /\ t.infohash = Infohash(bencoding_decode(Tokens(torrent_file)).node)
           /\ t.bitfield = kept /\ t.download_dir = "dir"
           /\ t.downloaded \in written.lineage.downloaded
           /\ t.uploaded \in written.lineage.uploaded

\* A torrent file whose writing was cut short, between two tokens or inside one, is
\* refused: never does half of a state pass for a whole one.
CutIsRefused ==
  mode = "save" =>
    \A n \in 0 .. Len(out) - 1 :
      ~ Loads(SubSeq(out, 1, n)) /\ ~ Loads(Append(SubSeq(out, 1, n), Token("cut")))

\* save_state fails only when the dictionary is full: it has room for a bitfield, a
\* directory, and two more counts at each save, those of earlier saves included.
\* So seven saves succeed with the 16 slots of a first state.  A state that was
\* loaded has 256, room for more than a hundred, although it loads with the right
\* counts after some 45 only (SavedIsRestored).  The run looks at three saves.
StateMap == hashmap_get(torrent.decoded, STATE_KEY).value
FailsOnlyWhenFull ==
  Loaded /\ save_failed /\ Has(torrent.decoded, STATE_KEY) /\ mode # "init"
    => 2 + 2 * (lineage.count + 1) > StateMap.map_size

\* What test_state_persist.c shows for one save: the count that is loaded is the one
\* that was saved.  It fails for a second save, which leaves the first one's count
\* where it was, and puts its own into another entry with the same key.
CountRestored ==
  ~ Loaded /\ kept # NothingKept =>
    load_torrent_metadata(saved).downloaded = written.downloaded

\* The infohash is that of the info dictionary as the file has it, if its keys are in
\* order: decoding and encoding again lose nothing.
InfohashOfFile ==
  Loaded /\ torrent_file.sorted => torrent.infohash = torrent_file.info

\* An accepted torrent is cut into pieces that are not longer than they should be, none
\* without bytes but perhaps the last, and that make up the whole length; unless
\* its lengths wrap.
LayoutSound ==
  Loaded /\ layout.piece_length * layout.piece_count < Modulus =>
    /\ layout.piece_count > 0
    /\ layout.piece_length * (layout.piece_count - 1) <= layout.length
    /\ layout.length <= layout.piece_length * layout.piece_count
    /\ UNION {Positions(layout, i) : i \in Pieces(layout)} = 0 .. layout.length - 1

=============================================================================
