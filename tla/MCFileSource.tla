---------------------------- MODULE MCFileSource ----------------------------
(***************************************************************************)
(* FileSource for TLC, with the files written out as the records they are  *)
(* made of: whole ones, ones that do not decompress and a last one that is *)
(* cut short.  The blocks of all files are numbered apart, so that a byte  *)
(* of the output tells which block it is of.                               *)
(***************************************************************************)
EXTENDS FileSource, SequencesExt

CONSTANTS
    FrameLen,  \* length of a frame
    Layouts,   \* the records of each file, as they may be
    Base(_),   \* the number of the byte before the first of a block
    MaxCalls   \* bound: calls of the application, and restarts

(* A record: the bytes of its block, whether the frame behind its header   *)
(* is as long as the header says, and how much of the record is in the file. *)
RecordLen == HeaderLen + FrameLen
Entries == [n : 1..WordSize - 1, intact : BOOLEAN, kept : 0..RecordLen]

BlocksOf(layout) == UNION {{name} \X DOMAIN layout[name] : name \in Names}
Numbers(layout, b) == Base(b) + 1 .. Base(b) + layout[b[1]][b[2]].n

(* The sizes fit the header's fields, and only the last record of a file   *)
(* is not there to its end.                                                *)
ASSUME LayoutsAssumption ==
    /\ FrameLen \in 1..WordSize - 1
    /\ Layouts \subseteq [Names -> Seq(Entries)]
    /\ \A layout \in Layouts : \A b \in BlocksOf(layout) :
         /\ Base(b) \in Nat
         /\ layout[b[1]][b[2]].kept < RecordLen => b[2] = Len(layout[b[1]])
         /\ \A c \in BlocksOf(layout) \ {b} : Numbers(layout, b) \cap Numbers(layout, c) = {}

VARIABLES
    recipe,    \* the records each file was made of
    calls,     \* number of calls of the application, and restarts
    sought,    \* seek has been called
    restarted, \* the block was started again after a stop
    lastCall,  \* what last decided whether there is a file
    expected   \* the byte a seek asks for as the next one, or NULL

mcvars == <<rvars, recipe, calls, sought, restarted, lastCall, expected>>

Block(b) == Run(Base(b), recipe[b[1]][b[2]].n)

Record(b) ==
    LET entry == recipe[b[1]][b[2]] IN
    SubSeq(Header(entry.n, FrameLen)
             \o Frame(Block(b), IF entry.intact THEN FrameLen ELSE FrameLen + 1),
           1, entry.kept)

(* The blocks of a file that decompress. *)
GoodIn(name) ==
    {k \in DOMAIN recipe[name] : recipe[name][k].intact /\ recipe[name][k].kept = RecordLen}
Good == UNION {{name} \X GoodIn(name) : name \in Names}

(* What a file stands for: those blocks, in order. *)
Contents(name) == FlattenSeq([k \in DOMAIN recipe[name] |->
                    IF k \in GoodIn(name) THEN Block(<<name, k>>) ELSE <<>>])

MCInit ==
    /\ recipe \in Layouts
    /\ content = [name \in Names |->
                    FlattenSeq([k \in DOMAIN recipe[name] |-> Record(<<name, k>>)])]
    /\ Init
    /\ calls = 0 /\ sought = FALSE /\ restarted = FALSE
    /\ lastCall = "open" /\ expected = NULL

Thread ==
    /\ Work \/ Stop
    /\ lastCall' = IF status' = "stopped" THEN "stop" ELSE lastCall
    /\ expected' = IF out' # out THEN NULL ELSE expected
    /\ UNCHANGED <<recipe, calls, sought, restarted>>

SampleAt(seek_point) ==
    IF pc = "idle" /\ byteQueue = <<>> /\ d_fp # NULL
       /\ seek_point * ItemSize + 1 \in DOMAIN Contents(d_fp.name)
    THEN Contents(d_fp.name)[seek_point * ItemSize + 1] ELSE NULL

Caller ==
    /\ calls < MaxCalls
    /\ calls' = calls + 1
    /\ \/ /\ \E name \in Names, repeat \in BOOLEAN : Open(name, repeat)
          /\ lastCall' = "open" /\ expected' = NULL /\ UNCHANGED sought
       \/ OpenFails /\ lastCall' = "failed" /\ expected' = NULL /\ UNCHANGED sought
       \/ Close /\ lastCall' = "close" /\ expected' = NULL /\ UNCHANGED sought
       \/ Start /\ UNCHANGED <<sought, lastCall, expected>>
       \/ ClosedTwice /\ UNCHANGED <<sought, lastCall, expected>>
       \/ \E seek_point \in SeekPoints, whence \in Whences :
            /\ Seek(seek_point, whence)
            /\ sought' = TRUE
            /\ expected' = IF whence = "SEEK_SET" THEN SampleAt(seek_point) ELSE NULL
            /\ UNCHANGED lastCall
    /\ restarted' = (restarted \/ status' # status)
    /\ UNCHANGED recipe

MCNext == Thread \/ Caller

MCSpec == MCInit /\ [][MCNext]_mcvars /\ WF_mcvars(Thread /\ (Work \/ StopForget \/ StopFree))

-----------------------------------------------------------------------------
Got == out \o byteQueue

(* Byte i of what has been played, or waits to be, is the first of block b. *)
Begins(i, b) == i \in 1..Len(Got) /\ Got[i] = Base(b) + 1

Full == Len(out) + ItemSize > StreamRoom

(* Block c may follow block b: it comes next in the same file, or it is    *)
(* the first of a file that is played from its beginning.                  *)
MayFollow(b, c) ==
    \/ /\ c[1] = b[1] /\ c[2] > b[2]
       /\ \A k \in GoodIn(b[1]) : k <= b[2] \/ c[2] <= k
    \/ /\ \A k \in GoodIn(c[1]) : c[2] <= k
       /\ calls > 0 \/ \A k \in GoodIn(b[1]) : k <= b[2]

(* From byte i on lies the whole of block b, and what follows it begins    *)
(* another block, which is the next one unless there was a seek.           *)
WholeFrom(i, b) ==
    LET next == i + Len(Block(b)) IN
    /\ \/ next = Len(Got) + 1
       \/ \E c \in Good : Begins(next, c) /\ (sought \/ MayFollow(b, c))
    /\ SubSeq(Got, i, next - 1) = Block(b)

(* Only whole blocks are played, across changes of the file, ends of it,   *)
(* records that are cut short or do not decompress and even seeks to the   *)
(* middle of a record; without a seek no block is skipped or repeated.     *)
PlaysInOrder ==
    /\ Got # <<>> => \E b \in Good : Begins(1, b)
    /\ \A b \in Good, i \in 1..Len(Got) : Begins(i, b) => WholeFrom(i, b)

(* A source that ends has read its file to the last block, and gives up    *)
(* less than the largest request of one call of work.                      *)
LosesLessThanACall ==
    status = "done" /\ pc = "idle" /\ ~sought =>
      /\ Len(byteQueue) < MaxItems * ItemSize
      /\ \A k \in GoodIn(d_fp.name) :
           \E i \in 1..Len(Got) : Begins(i, <<d_fp.name, k>>)

(* The documentation has the block output the decompressed data of the     *)
(* file: what it gives up at the end is no whole item.                     *)
TailDelivered == status = "done" => Len(byteQueue) < ItemSize

(* Undefined behaviour is reached only by a seek without a file, by a seek *)
(* that comes between the fclose of a stream and what replaces it, by an   *)
(* open or a close in the middle of stop, and by a block that was started  *)
(* again after stop, when it reads a header into the buffer stop freed: a  *)
(* block that runs and is not sought in never reaches any.                 *)
FaultsOnlyBy ==
    faulted =>
      \/ sought /\ (d_fp = NULL \/ FpClosed)
      \/ calls > 0 /\ NewFpClosed
      \/ restarted /\ pc = "loop" /\ localWriteBufferSize = 0

(* work throws only if the file was closed, another call of open failed or *)
(* the block was stopped after the last call of open that succeeded,       *)
(* however those calls fall between the steps of work.                     *)
ThrowsOnlyWhenClosed ==
    [][status' = "threw" /\ status # "threw" => lastCall # "open"]_mcvars

(* A block that does not repeat ends, or fills its output. *)
Finishes ==
    <>[]~d_repeat => <>[](status # "running" \/ Full \/ faulted)

(* A block that repeats a file with a block in it goes on to play. *)
KeepsPlaying ==
    <>[](/\ d_repeat /\ status = "running" /\ ~faulted
         /\ d_fp # NULL /\ GoodIn(d_fp.name) # {}) => <>Full

(* "seek_point: sample offset in file": the next sample after a seek is    *)
(* the one it asks for.                                                    *)
SeeksToSample ==
    [][expected # NULL /\ out' # out => out'[Len(out) + 1] = expected]_mcvars

-----------------------------------------------------------------------------
(* The files of the runs: File is any of these, the others are plain. *)
Intact(n) == [n |-> n, intact |-> TRUE, kept |-> RecordLen]
Spoilt(n) == [Intact(n) EXCEPT !.intact = FALSE]
CutAt(n, kept) == [Intact(n) EXCEPT !.kept = kept]

Plain == <<Intact(1), Intact(3)>>

Recipes == {Plain,
            <<Intact(2), Spoilt(1), Intact(1), CutAt(1, HeaderLen + 1)>>,
            <<CutAt(1, HeaderLen - 1)>>}

MCLayouts == {[name \in Names |-> IF name = File THEN files ELSE Plain] : files \in Recipes}

MCSeekPoints == {-1, 1}

MCBase(b) == (IF b[1] = File THEN 0 ELSE 100) + 10 * b[2]

=============================================================================
