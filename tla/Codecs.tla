------------------------------- MODULE Codecs -------------------------------
(***************************************************************************)
(* The codecs and their factories: Video_Decoder_Factory, which makes a    *)
(* Video_Decoder_FFmpeg, and Video_Encoder_Factory, which makes a          *)
(* Video_Encoder_H264 or _H265.  A factory news the object, lets it open   *)
(* its library step by step, deletes it when a step failed, and keeps the  *)
(* pointers it gave out in a set; destroy releases and deletes what it     *)
(* finds there.  Video_Encoder_Task destroys its encoder through the       *)
(* factory; Video_Decoder_Task deletes its decoder without.                *)
(*                                                                         *)
(* A codec is an address, its type, and the pieces of the library it       *)
(* holds.  The destructors are empty: what a deleted codec holds strays.   *)
(* An encoder also stamps what it puts out with the time since its init.   *)
(***************************************************************************)
EXTENDS Integers, Sequences

CONSTANTS
  Null,        \* the NULL pointer
  Addresses,   \* bound: where codecs are allocated
  Lead,        \* the 1000 us subtracted from the elapsed time
  Rate, Unit,  \* the 90000 ticks in 1000000 us
  LongWord, Word,  \* values of u_int64_t (2^64) and unsigned int (2^32)
  MaxElapsed,  \* bound: time since an encoder's init
  MaxGap       \* bound: time between two frames

ASSUME CodecsAssumption ==
  /\ Null \notin Addresses
  /\ Lead \in Nat /\ MaxElapsed \in Nat /\ MaxGap \in Nat
  /\ Rate \in Nat \ {0} /\ Unit \in Nat \ {0}
  /\ LongWord \in Nat /\ Word \in Nat \ {0} /\ LongWord % Word = 0

\* The product with Rate wraps after six years and a half, which no encoder sees.
ASSUME NoEncoderRunsThatLong == MaxElapsed * Rate < LongWord

\* What an init obtains, in its order.
Steps ==
  [ffmpeg |-> <<"codec", "context", "open", "frame">>,
   h264   |-> <<"encoder", "picture">>,
   h265   |-> <<"param", "picture", "encoder">>]
EncoderTypes == {"h264", "h265"}
Types == DOMAIN Steps
First(type, n) == {Steps[type][i] : i \in 1..n}
All(type) == First(type, Len(Steps[type]))

VARIABLES
  codec,      \* type of the codec at an address, or Null
  held,       \* pieces it holds
  decoders,   \* _decoders, of the decoders' factory
  encoders,   \* _encoders, of the encoders' factory
  elapsed,    \* time of an encoder's last frame since its init
  stamp,      \* and the timestamp it was given, -1 at first
  astray,     \* pieces that no object holds: <<type, piece, how>> (history)
  ended       \* why the process is gone, or "no"

objects == <<codec, held>>
times == <<elapsed, stamp>>
codecsVars == <<objects, decoders, encoders, times, astray, ended>>

CodecsInit ==
  /\ codec = [a \in Addresses |-> Null] /\ held = [a \in Addresses |-> {}]
  /\ decoders = {} /\ encoders = {}
  /\ elapsed = [a \in Addresses |-> 0] /\ stamp = [a \in Addresses |-> -1]
  /\ astray = {} /\ ended = "no"

\* The AVCodec found is not the decoder's own.
Strays(type, pieces, how) ==
  astray' = astray \cup ({type} \X (pieces \ {"codec"}) \X {how})

New(a, type) ==
  /\ ended = "no"
  /\ codec[a] = Null
  /\ codec' = [codec EXCEPT ![a] = type]
  /\ held' = [held EXCEPT ![a] = All(type)]
  /\ UNCHANGED times

Freed(a) ==
  /\ codec' = [codec EXCEPT ![a] = Null]
  /\ held' = [held EXCEPT ![a] = {}]
  /\ elapsed' = [elapsed EXCEPT ![a] = 0]
  /\ stamp' = [stamp EXCEPT ![a] = -1]
-----------------------------------------------------------------------------
(* Decoders.                                                               *)

\* (Mutant: only a decoder that came to its frame is cleaned up.)
AfterReleaseOfFrame(pieces) == IF "frame" \in pieces THEN {} ELSE pieces

\* release(): a codec that was found is closed, the context and the frame freed.
AfterRelease(pieces) ==
  pieces \ ((IF "codec" \in pieces THEN {"codec", "open"} ELSE {}) \cup {"context", "frame"})

CreateDecoder(a) ==
  /\ New(a, "ffmpeg")
  /\ decoders' = decoders \cup {a}
  /\ UNCHANGED <<encoders, astray, ended>>

\* codec_init fails after n steps and releases what these obtained.  The factory
\* deletes the decoder, and NULL enters the set.
CreateDecoderFails(n) ==
  /\ ended = "no"
  /\ Strays("ffmpeg", AfterRelease(First("ffmpeg", n)), "init")
  /\ decoders' = decoders \cup {Null}
  /\ UNCHANGED <<objects, encoders, times, ended>>

\* A decoder destroyed stays in the set.
DestroyDecoder(a) ==
  /\ ended = "no"
  /\ a \in decoders /\ codec[a] = "ffmpeg"
  /\ Strays("ffmpeg", AfterRelease(held[a]), "destroy")
  /\ Freed(a)
  /\ UNCHANGED <<decoders, encoders, ended>>

\* destroy(NULL) calls release through NULL once a create has failed.
DestroyNoDecoder ==
  /\ ended = "no"
  /\ Null \in decoders
  /\ ended' = "destroy(NULL)"
  /\ UNCHANGED <<objects, decoders, encoders, times, astray>>

\* ~Video_Decoder_Task.
DeleteDecoder(a) ==
  /\ ended = "no"
  /\ codec[a] = "ffmpeg"
  /\ Strays("ffmpeg", held[a], "delete")
  /\ Freed(a)
  /\ UNCHANGED <<decoders, encoders, ended>>
-----------------------------------------------------------------------------
(* Encoders.                                                               *)

\* A failed x264_encoder_open, or a type that is neither H264 nor H265, changes
\* nothing.
CreateEncoder(a, type) ==
  /\ New(a, type)
  /\ encoders' = encoders \cup {a}
  /\ UNCHANGED <<decoders, astray, ended>>

\* The result of x264_picture_alloc is not tested: memset writes through NULL.
NoPicture ==
  /\ ended = "no"
  /\ ended' = "no picture"
  /\ UNCHANGED <<objects, decoders, encoders, times, astray>>

\* The init of an H265 encoder frees what it obtained when a later step fails,
\* but for the parameters when the preset or the profile is refused.
CreateH265Fails ==
  /\ ended = "no"
  /\ Strays("h265", {"param"}, "init")
  /\ UNCHANGED <<objects, decoders, encoders, times, ended>>

\* (Mutant: computed in unsigned int.)
StampNarrow(t) == ((((t - Lead) % Word) * Rate) % Word) \div Unit

\* The timestamp of a frame at time t: computed in u_int64_t, passed on as
\* unsigned int.
Stamp(t) == (((((t - Lead) % LongWord) * Rate) % LongWord) \div Unit) % Word

\* operator(): the library takes the frame and puts out NALs, which get the time
\* of their coding.  The first output of an H264 encoder makes _nalu_buf.
Encode(a, t) ==
  /\ ended = "no"
  /\ codec[a] \in EncoderTypes
  /\ t <= MaxElapsed
  /\ held' = [held EXCEPT ![a] = IF codec[a] = "h264" THEN @ \cup {"nalu_buf"} ELSE @]
  /\ elapsed' = [elapsed EXCEPT ![a] = t]
  /\ stamp' = [stamp EXCEPT ![a] = Stamp(t)]
  /\ UNCHANGED <<codec, decoders, encoders, astray, ended>>

\* release().  It leaves the pointers as they are; the object is deleted next.
AfterEncoderRelease(type, pieces) ==
  pieces \ (IF type = "h264" THEN {"picture", "encoder", "nalu_buf"}
            ELSE {"param", "picture", "encoder"})

\* ~Video_Encoder_Task.  A pointer that the set does not hold, NULL too, is
\* passed over.
DestroyEncoder(a) ==
  /\ ended = "no"
  /\ a \in encoders /\ codec[a] \in EncoderTypes
  /\ Strays(codec[a], AfterEncoderRelease(codec[a], held[a]), "destroy")
  /\ Freed(a)
  /\ encoders' = encoders \ {a}
  /\ UNCHANGED <<decoders, ended>>
-----------------------------------------------------------------------------
Decoders ==
  \/ \E a \in Addresses : CreateDecoder(a) \/ DestroyDecoder(a) \/ DeleteDecoder(a)
  \/ \E n \in 0..3 : CreateDecoderFails(n)
  \/ DestroyNoDecoder
Encoders ==
  \/ \E a \in Addresses :
       \/ \E type \in EncoderTypes : CreateEncoder(a, type)
       \/ \E d \in 0..MaxGap : Encode(a, elapsed[a] + d)
       \/ DestroyEncoder(a)
  \/ NoPicture \/ CreateH265Fails

CodecsNext == Decoders \/ Encoders

CodecsSpec == CodecsInit /\ [][CodecsNext]_codecsVars
-----------------------------------------------------------------------------
(* Safety.                                                                 *)

\* Whichever step of an init fails, and whatever was coded before, nothing that
\* a codec's library gave out is lost: but for the parameters of an H265 encoder
\* whose preset is refused, and for all of a decoder that ~Video_Decoder_Task
\* deletes without a release.
NothingStrays ==
  astray \subseteq {<<"h265", "param", "init">>} \cup ({"ffmpeg"} \X All("ffmpeg") \X {"delete"})

\* The timestamps of two frames in a row are as far apart, to within a tick and
\* modulo the width of the timestamp, as the frames are in time: unless the first
\* came within the 1000 us that are subtracted.
StampsKeepTime ==
  [][\A a \in Addresses :
       codec[a] = codec'[a] /\ stamp[a] # -1 /\ stamp'[a] # -1 /\ elapsed[a] >= Lead =>
         LET ticks == ((elapsed'[a] - elapsed[a]) * Rate) \div Unit IN
           (stamp'[a] - stamp[a] - ticks) % Word \in {0, 1}]_codecsVars
=============================================================================
