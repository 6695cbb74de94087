------------------------------- MODULE Decoder -------------------------------
(***************************************************************************)
(* One PositionedDecoder (src/decode.rs) with its BufSource                *)
(* (src/source.rs) and its codec (src/codec.rs and the decompression       *)
(* libraries), read by one thread at a time as the pool guarantees.        *)
(*                                                                         *)
(* Bytes are abstracted to their positions.  The codec consumes the        *)
(* compressed bytes 0, 1, ... and produces the uncompressed bytes          *)
(* 0, 1, ...; how many of each a call moves is its own choice.  The        *)
(* variable garbled records that the codec was handed a byte of another    *)
(* position than the next one, after which what it produces is arbitrary.  *)
(***************************************************************************)
EXTENDS Integers

CONSTANTS
  Entries,   \* the entries a decoder may be made for
  BufLen,    \* the length of the source buffer
  SkipLen    \* the length of the skip buffer

(* What an entry is, and what the central directory says of it:            *)
(*   clen    compressed_size                                               *)
(*   inFile  how much of the range lies within the archive file            *)
(*   cend    where the stream ends; beyond clen if the stream is cut       *)
(*   bad     the first compressed byte the codec rejects; beyond cend if   *)
(*           there is none                                                 *)
(*   slen    how much the stream decompresses to                           *)
(*   total   uncompressed_size                                             *)
(*   sumOk   the first total bytes have the declared checksum              *)
EntryType == [clen : Nat, inFile : Nat, cend : Nat, bad : Nat, slen : Nat,
              total : Nat, sumOk : BOOLEAN]

ASSUME DecoderAssumption ==
  /\ Entries \subseteq EntryType
  /\ \A e \in Entries : e.cend > 0 /\ (e.clen = 0 => e.slen = 0)
  /\ BufLen \in Nat \ {0} /\ SkipLen \in Nat \ {0}

PC == {"idle", "fill", "end", "extra"}
Results == {"none", "ok", "behind", "truncated", "invalid", "pastend", "io"}

VARIABLES
  entry,     \* the entry the decoder reads
  withCrc,   \* crc is Some: the mount verifies checksums
  src,       \* BufSource, with the position the buffer was read from
  cin, cout, broken, garbled,  \* the codec
  pos, finished, verified,     \* the decoder
  crc,       \* how many bytes the checksum covers
  sum,       \* crc as verify finalized it
  verdict,   \* what verify wrote to the entry's verify_state
  pc,        \* where the thread is in read_at
  offset, want, written,       \* its arguments, and the progress
  first,     \* the position of the byte put first into out
  result     \* what the last read_at returned

codec == <<cin, cout, broken, garbled>>
request == <<offset, want>>
vars == <<entry, withCrc, src, codec, pos, finished, verified, crc, sum,
          verdict, pc, request, written, first, result>>

SourceType == [consumed : Nat, filled : Nat, pos : Nat, at : Nat]

TypeOK ==
  /\ entry \in Entries /\ withCrc \in BOOLEAN
  /\ src \in SourceType
  /\ cin \in Nat /\ cout \in Nat /\ broken \in BOOLEAN /\ garbled \in BOOLEAN
  /\ pos \in Nat /\ finished \in BOOLEAN /\ verified \in BOOLEAN
  /\ crc \in Nat /\ sum \in Nat
  /\ verdict \in {"unknown", "ok", "bad"}
  /\ pc \in PC /\ offset \in Nat /\ want \in Nat /\ written \in Nat
  /\ first \in Nat /\ result \in Results

Least(m, n) == IF m <= n THEN m ELSE n

(* BufSource::new and retarget: the recycled buffer counts as empty.       *)
Retargeted == [consumed |-> 0, filled |-> 0, pos |-> 0, at |-> src.at]

(* PositionedDecoder::new and reinit, from the same reset of the codec.    *)
Reset ==
  /\ src' = Retargeted
  /\ cin' = 0 /\ cout' = 0 /\ broken' = FALSE /\ garbled' = FALSE
  /\ pos' = 0 /\ finished' = FALSE /\ verified' = FALSE /\ crc' = 0

Init ==
  /\ entry \in Entries /\ withCrc \in BOOLEAN
  /\ src = [consumed |-> 0, filled |-> 0, pos |-> 0, at |-> 0]
  /\ cin = 0 /\ cout = 0 /\ broken = FALSE /\ garbled = FALSE
  /\ pos = 0 /\ finished = FALSE /\ verified = FALSE /\ crc = 0 /\ sum = 0
  /\ verdict = "unknown" /\ pc = "idle"
  /\ offset = 0 /\ want = 0 /\ written = 0 /\ first = 0 /\ result = "none"

-----------------------------------------------------------------------------
(* The pool's operations on a decoder that is not being read.              *)

(* into_parts, then new for some entry with the parts.                     *)
Renew ==
  /\ pc = "idle"
  /\ entry' \in Entries
  /\ Reset
  /\ verdict' = "unknown" /\ result' = "none"
  /\ UNCHANGED <<withCrc, sum, pc, request, written, first>>

Rewind ==
  /\ pc = "idle"
  /\ Reset
  /\ result' = "none"
  /\ UNCHANGED <<entry, withCrc, sum, verdict, pc, request, written, first>>

-----------------------------------------------------------------------------
(* read_at.  The callers ask for bytes below the declared size, or for     *)
(* none of an empty entry; that is read_all, which makes a decoder for the *)
(* one read.                                                               *)

Finish(r) == pc' = "idle" /\ result' = r

Begin(o, n) ==
  /\ pc = "idle"
  /\ o + n <= entry.total /\ (n = 0 => entry.total = 0 /\ result = "none")
  /\ offset' = o /\ want' = n /\ written' = 0
  /\ \/ pos > o /\ Finish("behind")
     \/ pos <= o /\ pc' = "fill" /\ result' = "none"
  /\ UNCHANGED <<entry, withCrc, src, codec, pos, finished, verified, crc, sum,
                 verdict, first>>

Skipping == pc = "fill" /\ pos < offset
Writing == pc = "fill" /\ pos >= offset /\ written < want /\ pos < entry.total

(* How much of the skip buffer, of out or of extra a step may fill.        *)
Room ==
  IF pc = "extra" THEN 1
  ELSE IF pos < offset THEN Least(offset - pos, SkipLen)
  ELSE Least(entry.total - pos, want - written)

InPump == Skipping \/ Writing \/ pc = "extra"

-----------------------------------------------------------------------------
(* BufSource::fill_buf.                                                    *)

Refills == src.pos = src.filled

Discarded_Subtracts ==
  [consumed |-> src.consumed - src.filled, filled |-> 0, pos |-> 0,
   at |-> src.at]

(* The buffer is emptied before the read that may fail.                    *)
Discarded ==
  [consumed |-> src.consumed + src.filled, filled |-> 0, pos |-> 0,
   at |-> src.at]
Remaining == entry.clen - Discarded.consumed
Chunk == Least(Remaining, BufLen)

Filled_Rereads ==
  IF ~Refills THEN src
  ELSE IF Remaining = 0 THEN Discarded
  ELSE [Discarded EXCEPT !.filled = Chunk, !.at = src.consumed]

Filled ==
  IF ~Refills THEN src
  ELSE IF Remaining = 0 THEN Discarded
  ELSE [Discarded EXCEPT !.filled = Chunk, !.at = Discarded.consumed]

(* The chunk goes past the end of the archive.                             *)
PastEnd == Refills /\ Remaining > 0 /\ Discarded.consumed + Chunk > entry.inFile

ProvesBad_Any(e) == TRUE

ProvesBad(e) == e \in {"invalid", "pastend"}

StaysVerified_Always(e) == TRUE

(* Only an error that proves the entry bad is the end of verify.           *)
StaysVerified(e) == ProvesBad(e)

(* An error leaves a pump step, and with it read_at, at once.              *)

PumpFails(e) ==
  /\ Finish(e)
  /\ \/ /\ pc = "extra"
        /\ verdict' = IF ProvesBad(e) THEN "bad" ELSE verdict
        /\ verified' = StaysVerified(e)
     \/ pc # "extra" /\ UNCHANGED <<verdict, verified>>
  /\ UNCHANGED <<entry, withCrc, cin, cout, garbled, pos, finished, crc, sum,
                 request, written, first>>

ReadFails ==
  /\ InPump /\ ~finished
  /\ Refills /\ Remaining > 0
  /\ src' = Discarded
  /\ UNCHANGED broken
  /\ \/ PastEnd /\ PumpFails("pastend")
     \/ PumpFails("io")

-----------------------------------------------------------------------------
(* The decompression libraries: a call that is given compressed bytes or   *)
(* still holds output makes progress, reports the end or rejects the       *)
(* stream.  A codec that rejected a stream does so until it is reset.  The *)
(* "decompressor stalled" error has the kind of a rejection and is one     *)
(* here.                                                                   *)

Input == Filled.filled - Filled.pos

Misfed == Input > 0 /\ Filled.at + Filled.pos # cin

Rejects == broken \/ garbled \/ Misfed \/ (entry.bad <= entry.cend /\ cin + Input > entry.bad)

Moves ==
  {[c |-> c, p |-> p, done |-> d] :
     c \in 0 .. Input, p \in 0 .. Room, d \in BOOLEAN}

Possible(m) ==
  LET in == cin + m.c
      out == cout + m.p
  IN /\ ~broken /\ in <= entry.cend /\ out <= entry.slen
     /\ entry.bad <= entry.cend => in <= entry.bad
     /\ m.p > 0 => in > 0
     /\ m.done => in = entry.cend /\ out = entry.slen
     /\ m.c = 0 /\ m.p = 0 =>
          \/ m.done
          \/ /\ Input = 0 /\ cin < entry.cend
             /\ cin < entry.clen \/ cout = entry.slen

Outcomes_EmptyInput ==
  IF Input = 0 THEN {[c |-> 0, p |-> 0, done |-> FALSE]}
  ELSE {m \in Moves : Possible(m)}

(* The codec is called even without input, as it may hold output.          *)
Outcomes == {m \in Moves : Possible(m)}

CodecFails ==
  /\ InPump /\ ~finished /\ ~PastEnd
  /\ Rejects
  /\ src' = Filled
  /\ broken' = TRUE
  /\ PumpFails("invalid")

-----------------------------------------------------------------------------
(* Pump::step.                                                             *)

Accepted_NoOverrun(n) == sum = entry.total /\ entry.sumOk /\ ~garbled

(* The checksum matches, and the look for one more byte found none.        *)
Accepted(n) == sum = entry.total /\ entry.sumOk /\ ~garbled /\ n = 0

(* What the caller of step does with n bytes or the end of the stream.     *)
Used(n) ==
  \/ /\ Skipping
     /\ IF n = 0 THEN Finish("truncated") ELSE UNCHANGED <<pc, result>>
     /\ UNCHANGED <<written, first, verdict>>
  \/ /\ Writing
     /\ pc' = IF n = 0 THEN "end" ELSE pc
     /\ written' = written + n
     /\ first' = IF written = 0 THEN cout ELSE first
     /\ UNCHANGED <<result, verdict>>
  \/ /\ pc = "extra"
     /\ verdict' = IF Accepted(n) THEN "ok" ELSE "bad"
     /\ Finish(IF Accepted(n) THEN "ok" ELSE "invalid")
     /\ UNCHANGED <<written, first>>

(* The stream ended in an earlier step.                                    *)
PumpAtEnd ==
  /\ InPump /\ finished
  /\ Used(0)
  /\ UNCHANGED <<entry, withCrc, src, codec, pos, finished, verified, crc, sum,
                 request>>

Ends_DoneOnly(m) == m.done

(* The codec said so, or nothing is left to move.                          *)
Ends(m) == m.done \/ (m.c = 0 /\ m.p = 0)

(* One turn of the loop in step.                                           *)
PumpStep ==
  /\ InPump /\ ~finished /\ ~PastEnd
  /\ \E m \in Outcomes :
       /\ src' = [Filled EXCEPT !.pos = @ + m.c]
       /\ cin' = cin + m.c /\ cout' = cout + m.p
       /\ garbled' = (garbled \/ (m.c > 0 /\ Misfed))
       /\ pos' = pos + m.p
       /\ crc' = IF withCrc THEN crc + m.p ELSE crc
       /\ finished' = Ends(m)
       /\ \/ (m.p > 0 \/ finished') /\ Used(m.p)
          \/ /\ m.p = 0 /\ ~finished'
             /\ UNCHANGED <<pc, written, first, result, verdict>>
  /\ UNCHANGED <<entry, withCrc, broken, verified, sum, request>>

-----------------------------------------------------------------------------
(* The loops of read_at are done.                                          *)
LeaveLoops ==
  /\ pc = "fill" /\ ~Skipping /\ ~Writing
  /\ pc' = "end"
  /\ UNCHANGED <<entry, withCrc, src, codec, pos, finished, verified, crc, sum,
                 verdict, request, written, first, result>>

(* verify, up to the look for one more byte.                               *)
End ==
  /\ pc = "end"
  /\ \/ /\ pos < entry.total \/ verified
        /\ Finish("ok")
        /\ UNCHANGED <<verified, verdict, sum>>
     \/ /\ pos >= entry.total /\ ~verified
        /\ verified' = TRUE
        /\ IF pos # entry.total
           THEN verdict' = "bad" /\ Finish("truncated") /\ UNCHANGED sum
           ELSE IF ~withCrc
           THEN Finish("ok") /\ UNCHANGED <<verdict, sum>>
           ELSE sum' = crc /\ pc' = "extra" /\ UNCHANGED <<verdict, result>>
  /\ UNCHANGED <<entry, withCrc, src, codec, pos, finished, crc, request,
                 written, first>>

ReadAt == ReadFails \/ CodecFails \/ PumpAtEnd \/ PumpStep \/ LeaveLoops \/ End

Next ==
  \/ Renew \/ Rewind
  \/ \E o, n \in 0 .. entry.total : Begin(o, n)
  \/ ReadAt

Spec == Init /\ [][Next]_vars
FairSpec == Spec /\ WF_vars(ReadAt)

-----------------------------------------------------------------------------
(* Properties.                                                             *)

(* The entry decompresses to exactly what the central directory says.      *)
Correct == entry.slen = entry.total /\ entry.sumOk

(* ... and every byte of it can be read and decompressed.                  *)
Sound == Correct /\ entry.clen <= entry.inFile /\ entry.bad > entry.cend

(* decode.rs 117-121: a read that succeeds put the bytes from offset on    *)
(* into out, in order, whatever errors, skips, refills, rewinds and        *)
(* recycling for other entries the decoder went through before.            *)
RightBytes ==
  result = "ok" =>
    /\ ~garbled
    /\ written > 0 => first = offset /\ cout = offset + written

(* decode.rs 281-283 and the test of a read that stops inside the last     *)
(* match: no read of a sound entry is short, even if the codec holds       *)
(* output back after it consumed all of its input.                         *)
SoundReadsWhole == Sound /\ result = "ok" => written = want

(* decode.rs 239-245: only a bad entry gets VERIFY_BAD.  A failure to read *)
(* the archive, at any point and however often, never does that.           *)
NoFalseBad == verdict = "bad" => ~Sound

(* decode.rs 183-237: with verification, a read that delivers the last     *)
(* byte of an entry succeeds only if the whole entry is what the central   *)
(* directory says, and only then is the entry marked VERIFY_OK.            *)
LastByteVerified ==
  /\ verdict = "ok" => Correct
  /\ result = "ok" /\ withCrc /\ offset + written = entry.total => Correct

(* decode.rs 217-225: a decoder that counts its entry as verified has      *)
(* recorded a verdict; a temporary failure leaves it to the next read.     *)
VerdictRecorded ==
  pc = "idle" /\ withCrc /\ verified => verdict # "unknown"

(* Every read_at returns: each turn of its loops moves the codec or        *)
(* ends.                                                                   *)
ReadEnds == pc # "idle" ~> pc = "idle"

(* decode.rs 125-126: read_at "Returns an error when the offset is         *)
(* invalid, the entry is truncated, ...": a read of an entry that stops    *)
(* early never succeeds with less than was asked for.                      *)
TruncationReported == result = "ok" => written = want
=============================================================================
