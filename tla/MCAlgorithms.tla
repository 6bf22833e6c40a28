---------------------------- MODULE MCAlgorithms ----------------------------
(***************************************************************************)
(* The pure algorithms, on every input up to a bound, with the batch       *)
(* operations on slices among them: lists of ranges, two devices of two    *)
(* functions, all days up to a year, and all slices of small elements.     *)
(***************************************************************************)
EXTENDS Algorithms, Simd
LOCAL INSTANCE SequencesExt

CONSTANTS Width, Lanes, MaxElems

\* The capabilities of a function: none, one, two in either order, and lists that do not end.
MCCaps == {1, 2}
Lists == {<<0, 0, 0>>, <<1, 0, 0>>, <<1, 2, 0>>, <<2, 0, 1>>, <<1, 1, 0>>, <<2, 2, 1>>}
Fn(vendor, multi, l) ==
  [vendor |-> vendor, multi |-> multi, head |-> l[1], next |-> <<l[2], l[3]>>, id |-> <<"vendor", "other">>]
Fns(multi) ==
  {Fn("none", FALSE, <<0, 0, 0>>)} \cup {Fn("other", b, <<0, 0, 0>>) : b \in multi}
    \cup {Fn("virtio", b, l) : b \in multi, l \in Lists}
Devices == {Broken} \cup {<<f, g>> : f \in Fns(BOOLEAN), g \in Fns({FALSE})}
MCMachines == {<<d, e>> : d \in Devices, e \in Devices}

Pairs == [x : 0..(2^Width - 1), y : 0..(2^Width - 1)]
\* One of the slices may be shorter than the other, by one.
SimdJobs ==
  [is : {"simd"}, op : Ops \ Shifts, n : {0}, sg : BOOLEAN, checks : {TRUE}, short : {"a", "b", "none"}]
    \cup [is : {"simd"}, op : Shifts, n : 0..(Width + 1), sg : BOOLEAN, checks : BOOLEAN, short : {"none"}]

Init == JobInit \/ (input = <<>> /\ job \in SimdJobs)
AddPair ==
  /\ job.is = "simd" /\ Len(input) < MaxElems
  /\ \E p \in Pairs : (job.op \in Shifts \cup {"not"} => p.y = 0) /\ input' = Append(input, p)
  /\ UNCHANGED job
Next == JobNext \/ AddPair

\* The probe is a loop of the main task, which nothing takes the core from for good.
Spec == Init /\ [][Next]_jobVars /\ WF_jobVars(Probe)

-----------------------------------------------------------------------------
(* Properties. *)

Shorter(s, which) == IF job.short = which /\ s # <<>> THEN Front(s) ELSE s
Xs == Shorter([i \in DOMAIN input |-> input[i].x], "a")
Ys == Shorter([i \in DOMAIN input |-> input[i].y], "b")

\* The operations give the same at every SimdLevel, at any two lengths, except: integer division panics in vectors when
\* a divisor is 0 or the last vector is not full, where single elements are skipped or divided; the lowest number
\* over -1 wraps in vectors; so do shifts by all the bits or more when overflows are checked; and rotating negative
\* numbers by part of their bits drags the sign along.
LevelsAgree ==
  job.is = "simd" =>
    LET s == Scalar(job.op, Xs, Ys, job.n, job.sg, Width, job.checks)
        v == Vector(job.op, Xs, Ys, job.n, job.sg, Width, Lanes)
        both == 1..Used(job.op, Xs, Ys)
    IN  IF job.op \in Divisions /\ both # {}
        THEN /\ v = Panics <=> Used(job.op, Xs, Ys) % Lanes # 0 \/ \E i \in both : Ys[i] = 0
             /\ v # Panics /\ s # Panics => v = s
             /\ s = Panics <=> \E i \in both : Overflows(Xs[i], Ys[i], job.sg, Width)
        ELSE v = s \/ s = Panics
               \/ (/\ job.op \in {"rotl", "rotr"} /\ job.sg /\ job.n % Width # 0
                   /\ \A i \in both : v[i] # s[i] => Signed(Xs[i], Width) < 0)
=============================================================================
