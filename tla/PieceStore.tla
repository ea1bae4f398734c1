----------------------------- MODULE PieceStore -----------------------------
(***************************************************************************)
(* The pieces of one torrent in its files, over several runs of a client   *)
(* that works as test_manage.c: it initialises the files unless it has     *)
(* piece 0, completes and serves pieces, and at times writes down which it *)
(* has.  It may be killed at any point, in the middle of initialising,     *)
(* of writing a piece, or of writing down, and is started again, with      *)
(* what it last wrote down or with nothing.                                *)
(*                                                                         *)
(* What the torrent file looks like, and how the bitfield gets into it and *)
(* back, is left to Resume.                                                *)
(***************************************************************************)
EXTENDS FileMap

CONSTANT Layouts   \* files, and how they are cut into pieces

\* How the bytes of a torrent are cut into pieces.
Layout(l) == INSTANCE PieceLayout
  WITH PieceCount <- l.piece_count, PieceLength <- l.piece_length,
       Length <- l.length, RequestSize <- 1

\* There is a file and a piece, and lengths are unsigned.
ASSUME PieceStoreAssumption ==
  \A l \in Layouts :
    /\ l.files \in Seq(Nat) /\ l.files # <<>>
    /\ l.piece_length \in Nat /\ l.piece_count \in Nat \ {0} /\ l.length \in Nat
    /\ l.length < Width

VARIABLES        \* on disk
  disk,
  kept           \* the bitfield that was written down, if any

VARIABLES        \* of the running client
  mode,          \* "off", "init", "run", "save" while the bitfield is written
  layout,        \* what it loaded, which is known when it is off, too
  bitfield,
  init_at,       \* the loop of init_torrent_files
  call           \* of rw_piece

VARIABLE         \* history
  wiped          \* pieces that were lost when files were initialised

storeVars == <<disk, kept, mode, layout, bitfield, init_at, call, wiped>>

NoCall == [result |-> "none"]
NothingKept == <<>>
NoLayout == [files |-> <<>>]

-----------------------------------------------------------------------------
(***************************************************************************)
(* Helpers                                                                 *)
(***************************************************************************)

Pieces(l) == Layout(l)!Pieces
PieceSize(l, i) == Layout(l)!calc_piece_length(i)

\* The bytes of a piece, and the pieces that have a byte in a file.
Positions(l, i) == i * l.piece_length .. i * l.piece_length + PieceSize(l, i) - 1
PiecesIn(l, f) ==
  {i \in Pieces(l) :
     Positions(l, i) \cap (FileStart(l.files, f) .. FileStart(l.files, f) + l.files[f] - 1) # {}}

NoPieces(l) == [i \in Pieces(l) |-> 0]
Bits(bits) == {i \in DOMAIN bits : bits[i] = 1}

\* Pieces that memory, or what was written down, says are there.
Claimed == Bits(bitfield) \cup Bits(kept)

\* The client is gone, and what was in its memory.
Stop == mode' = "off" /\ bitfield' = <<>> /\ init_at' = 0 /\ call' = NoCall /\ UNCHANGED layout

-----------------------------------------------------------------------------
(***************************************************************************)
(* The client starts                                                       *)
(***************************************************************************)

\* The client does not have the first piece.
NeedsInit(bits) == bits[0] = 0

\* With a torrent, and a bitfield.  At the first start there are no files.
Begin(l, bits) ==
  /\ mode = "off" /\ mode' = IF NeedsInit(bits) THEN "init" ELSE "run"
  /\ layout' = l /\ bitfield' = bits /\ init_at' = 1
  /\ disk' = IF disk = <<>> THEN [f \in DOMAIN l.files |-> NoFile] ELSE disk
  /\ UNCHANGED <<kept, call, wiped>>

\* It is the same torrent each time.
BeginAny ==
  /\ mode = "off"
  /\ \E l \in Layouts :
       /\ disk # <<>> => l = layout
       /\ \/ Begin(l, NoPieces(l))
          \/ kept # NothingKept /\ Begin(l, kept)

Wipe == wiped' = wiped \cup (Claimed \cap PiecesIn(layout, init_at))

\* A turn of init_torrent_files.
InitFile ==
  /\ mode = "init" /\ init_at <= Len(layout.files)
  /\ disk' = [disk EXCEPT ![init_at] = allocate_file(layout.files[init_at])]
  /\ Wipe
  /\ init_at' = init_at + 1
  /\ mode' = IF init_at' > Len(layout.files) THEN "run" ELSE "init"
  /\ UNCHANGED <<kept, layout, bitfield, call>>

\* It cannot write all of the file, or cannot even open it, and the client exits.
InitFails ==
  /\ mode = "init"
  /\ \/ /\ \E n \in 0 .. layout.files[init_at] - 1 :
             disk' = [disk EXCEPT ![init_at] = allocate_file(n)]
        /\ Wipe
     \/ UNCHANGED <<disk, wiped>>
  /\ Stop
  /\ UNCHANGED kept

-----------------------------------------------------------------------------
(***************************************************************************)
(* The client runs                                                         *)
(***************************************************************************)

Idle == mode = "run" /\ call = NoCall

BeginCall(i, is_write) ==
  /\ Idle
  /\ call' = rw_piece(i, i * layout.piece_length, PieceSize(layout, i), is_write)
  /\ UNCHANGED <<disk, kept, mode, layout, bitfield, init_at, wiped>>

\* piece_completed has verified a piece; one without bytes never gets a block.
BeginWrite(i) == bitfield[i] = 0 /\ PieceSize(layout, i) > 0 /\ BeginCall(i, TRUE)

\* pieces_send loads a piece.
BeginRead(i) == bitfield[i] = 1 /\ BeginCall(i, FALSE)

RwTurn ==
  /\ mode = "run" /\ call # NoCall
  /\ RwStep(layout.files, call, disk, call', disk', TRUE)
  /\ UNCHANGED <<kept, mode, layout, bitfield, init_at, wiped>>

Returned(result) == mode = "run" /\ call # NoCall /\ call.result = result

\* Mutant: the bit is set whatever the write returned.
WriteReturnedAnyhow == (Returned("done") \/ Returned("failed")) /\ call.is_write

WriteReturned == Returned("done") /\ call.is_write

\* The rest of piece_completed.
CompletePiece ==
  /\ WriteReturned
  /\ bitfield' = [bitfield EXCEPT ![call.index] = 1]
  /\ call' = NoCall
  /\ wiped' = wiped \ {call.index}
  /\ UNCHANGED <<disk, kept, mode, layout, init_at>>

\* What a read put into the buffer hashes as it should.
Verifies ==
  call.got = [k \in 1 .. PieceSize(layout, call.index) |-> call.from + k - 1]

EndCall == call' = NoCall /\ UNCHANGED <<disk, kept, mode, layout, bitfield, init_at, wiped>>

\* A piece was loaded and verified, and one of its blocks is sent.
ServePiece == Returned("done") /\ ~ call.is_write /\ Verifies /\ EndCall

\* The write or the read failed, or what was read does not verify.
GiveUpCall ==
  /\ \/ Returned("failed")
     \/ Returned("done") /\ ~ call.is_write /\ ~ Verifies
  /\ EndCall

\* The client writes the bitfield down: what it wrote before is gone first.
BeginSave ==
  /\ Idle /\ mode' = "save" /\ kept' = NothingKept
  /\ UNCHANGED <<disk, layout, bitfield, init_at, call, wiped>>

EndSave ==
  /\ mode = "save" /\ mode' = "run" /\ kept' = bitfield
  /\ UNCHANGED <<disk, layout, bitfield, init_at, call, wiped>>

\* What was written down was cut short, and the client does not notice.
SaveCutShort ==
  /\ mode = "save" /\ mode' = "run"
  /\ UNCHANGED <<disk, kept, layout, bitfield, init_at, call, wiped>>

\* The client ends, or is killed.
Crash == mode # "off" /\ Stop /\ UNCHANGED <<disk, kept, wiped>>

-----------------------------------------------------------------------------
StoreInit ==
  /\ disk = <<>> /\ kept = NothingKept
  /\ mode = "off" /\ layout = NoLayout /\ bitfield = <<>> /\ init_at = 0 /\ call = NoCall
  /\ wiped = {}

StoreNext ==
  \/ BeginAny \/ InitFile \/ InitFails
  \/ mode = "run" /\ \E i \in Pieces(layout) : BeginWrite(i) \/ BeginRead(i)
  \/ RwTurn \/ CompletePiece \/ ServePiece \/ GiveUpCall
  \/ BeginSave \/ EndSave \/ SaveCutShort \/ Crash

StoreSpec == StoreInit /\ [][StoreNext]_storeVars

-----------------------------------------------------------------------------
(***************************************************************************)
(* Properties                                                              *)
(***************************************************************************)

Loaded == mode # "off"

\* The files of the torrent are together as long as the torrent, and its pieces
\* begin in there: not so if the info dictionary has a length besides its files,
\* or if lengths wrap.
Covered(l) ==
  /\ FileStart(l.files, Len(l.files) + 1) = l.length
  /\ l.piece_length * (l.piece_count - 1) <= l.length

OnDisk(i) == \A g \in Positions(layout, i) : InPlace(layout.files, disk, g)

\* A piece that the client takes itself to have is in its files, each byte at its
\* place: through pieces that span files, writes that fail half way or are cut by a
\* crash, and restarts from a state saved earlier.  The exception are pieces that
\* an initialisation of the files wiped out although somebody had them.
HaveOnDisk ==
  Loaded /\ Covered(layout) => \A i \in Bits(bitfield) \ wiped : OnDisk(i)

\* So a piece that is loaded to be served is what was written, and verifies, however
\* it lies in the files and whatever was written after it.
ReadsBack ==
  Returned("done") /\ ~ call.is_write /\ Covered(layout) /\ call.index \notin wiped
    => Verifies

=============================================================================
