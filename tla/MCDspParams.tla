---------------------------- MODULE MCDspParams -----------------------------
(***************************************************************************)
(* One session per page of the PC program, so that each one gets several   *)
(* words: the parameters of different pages do not depend on one another.  *)
(***************************************************************************)
EXTENDS DspParams, FiniteSetsExt

MCChannels == {1, 2}
MCBands == {1, 2}

Page(words) == [words |-> words, clicks |-> {}, keys |-> {}]

\* 15 Hz is out of range.
CutPage == Page({Command(11, t, 1, f) : t \in {4, 5}, f \in {15, 50, 100, 10000}})

\* Gains of +3, -3 (226) and -12.6 dB (130), which is out of range.
EqPage == Page({Command(11, 8, c, b * 256 + g) : c \in MCChannels, b \in MCBands, g \in {30}}
               \cup {Command(11, 8, 1, 0), Command(11, 8, 1, 256 + 226), Command(11, 8, 1, 256 + 130)})

\* 52 ms are the limit at 96 kHz, 104 ms at 48 kHz, where 104.03 ms are a sample
\* too many; 201 is refused, and so is a rate with an op other than 0.
TimingPage ==
  [words |-> {Command(11, 3, 1, d) : d \in {52 * 256, 104 * 256, 104 * 256 + 3, 201 * 256}}
               \cup {Command(2, 1, 4, 0), Command(2, 1, 2, 0), Command(3, 1, 4, 0)}
               \cup {[Command(2, 1, 1, 0) EXCEPT !.op = 1]}
               \cup {InputWord(1), InputWord(2), Command(13, 11, 2, 0)}
               \cup {Command(1, 10, t, 0) : t \in {4, 11}},
   clicks |-> {}, keys |-> {1, 2}]

\* 10 Hz is no frequency for a crossover.
CrossoverPage ==
  Page({Command(15, 1, 1, n) : n \in 0..3} \cup {Command(15, 1, 2, f) : f \in {10, 1000}}
       \cup {Command(15, 1, 4, 1), Command(15, 1, 5, 2)})

InputPage ==
  [words |-> {InputWord(n) : n \in {0, 1, 2}} \cup {Command(13, 11, s, 0) : s \in 1..3}
               \cup {Command(2, 6, 3, 0), Command(3, 6, 4, 0)},
   clicks |-> {}, keys |-> {2}]

\* The DSP takes a volume whatever its first parameter is.
VolumePage ==
  [words |-> {VolumeWord(v) : v \in {0, 60, 96, 97}} \cup {[VolumeWord(30) EXCEPT !.param1 = 1]},
   clicks |-> -1..1, keys |-> {}]

MCSessions == 
  [cuts |-> CutPage, eq |-> EqPage, timing |-> TimingPage,
   crossover |-> CrossoverPage, input |-> InputPage, volume |-> VolumePage]

\* No slot more than the longest session needs.
MCCount ==
  [k \in TableKeys |-> Max({Cardinality(Ids(n, k)) : n \in DOMAIN MCSessions})]
=============================================================================
