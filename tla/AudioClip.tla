----------------------------- MODULE AudioClip -----------------------------
(***************************************************************************)
(* The audio helpers of src/sarvam_server.py: pcm_to_wav, wav_to_pcm and   *)
(* apply_edge_fade.  A file is a sequence of bytes; of a byte the model    *)
(* keeps what it is part of: four bytes of a chunk's id, four of its size, *)
(* two of a sample.  A field read where none begins reads as noise.        *)
(***************************************************************************)
EXTENDS Integers, Sequences, FiniteSets, FiniteSetsExt

CONSTANTS FadeSamples   \* samples at each end that are faded (5 ms)

WavHeaderSize == 44

Field(kind, value) == [i \in 1 .. 4 |-> [is |-> kind, of |-> value, nr |-> i]]
Filler(n) == [i \in 1 .. n |-> [is |-> "filler", of |-> 0, nr |-> 0]]

\* Samples as bytes, and back: an odd byte at the end is no sample.
Bytes(samples) ==
  [i \in 1 .. 2 * Len(samples) |->
    [is |-> "pcm", of |-> samples[(i + 1) \div 2], nr |-> 2 - (i % 2)]]
Samples(bytes) == [k \in 1 .. Len(bytes) \div 2 |-> bytes[2 * k].of]

-----------------------------------------------------------------------------
(* WAV.                                                                    *)

Riff == Field("id", "RIFF") \o Field("size", 0) \o Field("id", "WAVE")
Chunk(id, size, content) == Field("id", id) \o Field("size", size) \o content

\* A canonical file: one format chunk of 16 bytes, then the data.
PcmToWav(pcm) == Riff \o Chunk("fmt", 16, Filler(16)) \o Chunk("data", Len(pcm), pcm)

\* What struct reads at offset o (from 0).
Begins(kind, wav, o) == \A i \in 1 .. 4 : wav[o + i].is = kind /\ wav[o + i].nr = i
ReadId(wav, o) == IF Begins("id", wav, o) THEN wav[o + 1].of ELSE "noise"
ReadSize(wav, o) == IF Begins("size", wav, o) THEN wav[o + 1].of ELSE 0

\* Python's wav[from : from + n].
Slice(wav, from, n) == SubSeq(wav, from + 1, Min({from + n, Len(wav)}))

\* Mutants of WavToPcm: the data is where a canonical file has it; chunks of
\* an odd size are not padded.
FixedOffset(wav) == Slice(wav, WavHeaderSize, Len(wav))

WalkUnpadded(wav) ==
  LET walk[o \in Nat] ==
        IF o + 8 > Len(wav) THEN Slice(wav, WavHeaderSize, Len(wav))
        ELSE LET size == ReadSize(wav, o + 4)
             IN  IF ReadId(wav, o) = "data" THEN Slice(wav, o + 8, size)
                 ELSE walk[o + 8 + size]
  IN  walk[12]

\* The chunk list is walked to the data chunk.
WavToPcm(wav) ==
  LET walk[o \in Nat] ==
        IF o + 8 > Len(wav) THEN Slice(wav, WavHeaderSize, Len(wav))
        ELSE LET size == ReadSize(wav, o + 4)
             IN  IF ReadId(wav, o) = "data" THEN Slice(wav, o + 8, size)
                 ELSE walk[o + 8 + size + (size % 2)]
  IN  walk[12]

-----------------------------------------------------------------------------
(* The fade.                                                               *)

\* int(v * (i / n)) rounds towards zero.  (Where n does not divide v * i a   *
\* float's last bit may take one more off the amplitude.)
Scale(v, i, n) == IF v < 0 THEN -((-v * i) \div n) ELSE (v * i) \div n

\* Mutant of ApplyEdgeFade: only the beginning is faded.
FadeIn(pcm) ==
  LET s == Samples(pcm)
      n == Min({FadeSamples, Len(s) \div 2})
  IN  IF n = 0 THEN pcm
      ELSE Bytes([k \in DOMAIN s |-> IF k <= n THEN Scale(s[k], k - 1, n) ELSE s[k]])

\* The first and the last n samples are ramped; a clip too short to be faded is
\* returned as it is, an odd byte included.
ApplyEdgeFade(pcm) ==
  LET s == Samples(pcm)
      total == Len(s)
      n == Min({FadeSamples, total \div 2})
      Faded(k) == IF k <= n THEN Scale(s[k], k - 1, n)
                  ELSE IF k > total - n THEN Scale(s[k], total - k, n)
                  ELSE s[k]
  IN  IF n = 0 THEN pcm ELSE Bytes([k \in 1 .. total |-> Faded(k)])
=============================================================================
