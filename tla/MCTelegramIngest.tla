--------------------------- MODULE MCTelegramIngest ---------------------------
(* Small instances of TelegramIngest: what the messages say.               *)
EXTENDS TelegramIngest, TLC

CONSTANTS e1, e2, m1, m2, m3, m4

Scan(t) == [NoTimes EXCEPT !.masuk = t]

Of(pairs) == [m \in Messages |-> (CHOOSE x \in pairs : x[1] = m)[2]]

\* All messages are scans of one employee ...
OneEmployee == [m \in Messages |-> e1]

\* ... at four different instants, ...
FourScans == Of({<<m1, Scan(1)>>, <<m2, Scan(2)>>, <<m3, Scan(3)>>, <<m4, Scan(4)>>})

\* ... or at two, one of which is reported by two channels.
SharedScan == Of({<<m1, Scan(1)>>, <<m2, Scan(2)>>, <<m3, Scan(2)>>})

\* Messages whose text names the events: an end of break, both ends of a
\* break, a check-out, and a bare scan.
NamedEvents ==
  Of({<<m1, Scan(1)>>, <<m2, [NoTimes EXCEPT !.selesai = 3]>>,
      <<m3, [NoTimes EXCEPT !.mulai = 2, !.selesai = 3]>>,
      <<m4, [NoTimes EXCEPT !.pulang = 4]>>})

\* The slots of the queue's worker are interchangeable.
WorkerSymmetry == Permutations(Workers)

TwoAndOne == Of({<<m1, e1>>, <<m2, e1>>, <<m3, e2>>})
SameAccount == [e \in Employees |-> "account"]

OwnAccount == [e \in Employees |-> e]
Breaks == [e \in Employees |-> TRUE]
NoBreaks == [e \in Employees |-> FALSE]
=============================================================================
