------------------------------ MODULE ZkpTests ------------------------------
(***************************************************************************)
(* The zerocoin zero-knowledge-proof unit test suite: the test case        *)
(* bulletproofs_tests and the four suites it runs (overviewpage.h, lines   *)
(* 69-633 of the file as it stands in this repository).                    *)
(*                                                                         *)
(* The cryptography (generators, arithmetic circuits, polynomial           *)
(* commitments, signatures of knowledge) lives in libzerocoin, outside     *)
(* this repository.  Its answer to each check is an input: either what a   *)
(* correct library answers ("correct") or anything ("faulty").  What the   *)
(* model keeps is the harness: the global test counters, the               *)
(* finalResult accumulation of every suite, eval_tpoly, and the lists of   *)
(* proofs batch_signature_of_knowledge_tests builds and hands to the       *)
(* threaded verifier.  Random draws (randBignum, PrivateCoin, Commitment)  *)
(* are fresh identities taken from a counter.                              *)
(***************************************************************************)
EXTENDS Naturals, Sequences, FiniteSets
LOCAL INSTANCE SequencesExt

CONSTANTS
    Start, End, Step,       \* arguments of batch_signature_of_knowledge_tests
    Q,                      \* the SoK group order q, a small prime here
    NDash, M1Dash, M2Dash,  \* ZKP_NDASH, ZKP_M1DASH, ZKP_M2DASH
    Libraries               \* subset of {"correct", "faulty"}

\* Line 593 writes vProofs_threaded5[k - 1]; the list has Step * iterations
\* entries, so the write is in bounds only when 1 <= Start <= Step.  The one
\* call (line 630) passes 8, 24, 8.
ASSUME 1 <= Start /\ Start <= Step /\ Step >= 1

VARIABLES
    library,            \* how libzerocoin answers
    zNumTests,          \* global test counters (lines 99-100)
    zSuccessfulTests,
    checks,             \* results of the BOOST_CHECKs of bulletproofs_tests
    pc,                 \* the suite running
    finalResult,        \* batch_signature_of_knowledge_tests' accumulator
    k,                  \* its loop variable
    msghashList, coinList, commitmentList, sigList, vProofs,
    msghashList2, coinList2, commitmentList2,
    vLists,             \* the five lists verified in the last iteration
    fresh               \* source of fresh random values

vars == <<library, zNumTests, zSuccessfulTests, checks, pc, finalResult, k,
          msghashList, coinList, commitmentList, sigList, vProofs,
          msghashList2, coinList2, commitmentList2, vLists, fresh>>

-----------------------------------------------------------------------------
(* Test_* bodies.  Each increments zNumTests, computes its check and fails *)
(* iff the check equals fReverseTest; only a pass increments               *)
(* zSuccessfulTests.  A call site is finalResult = finalResult & Test_*(), *)
(* with the bitwise &: every test runs whatever the earlier ones returned. *)
(***************************************************************************)
Passed(test, fReverseTest) == test # fReverseTest

TestCallAssigning(acc, t) ==
    [num |-> acc.num + 1,
     ok |-> acc.ok + (IF Passed(t.test, t.rev) THEN 1 ELSE 0),
     final |-> Passed(t.test, t.rev)]

TestCallShortCircuit(acc, t) ==
    IF ~acc.final THEN acc
    ELSE [num |-> acc.num + 1,
          ok |-> acc.ok + (IF Passed(t.test, t.rev) THEN 1 ELSE 0),
          final |-> Passed(t.test, t.rev)]

TestCallUncounted(acc, t) ==
    [num |-> acc.num,
     ok |-> acc.ok + (IF Passed(t.test, t.rev) THEN 1 ELSE 0),
     final |-> acc.final /\ Passed(t.test, t.rev)]

TestCall(acc, t) ==
    [num |-> acc.num + 1,
     ok |-> acc.ok + (IF Passed(t.test, t.rev) THEN 1 ELSE 0),
     final |-> acc.final /\ Passed(t.test, t.rev)]

\* A suite's calls, in order, from the counters and an accumulator.
RunTests(final, calls) ==
    FoldLeft(TestCall, [num |-> zNumTests, ok |-> zSuccessfulTests, final |-> final], calls)

\* The checks a suite makes: what a correct library answers, or anything.
Outcomes(expected) ==
    IF library = "correct" THEN {expected} ELSE [DOMAIN expected -> BOOLEAN]

\* The call list of a suite from its checks and fReverseTest flags.
Calls(tests, revs) == [j \in DOMAIN tests |-> [test |-> tests[j], rev |-> revs[j]]]

\* A suite ends in BOOST_CHECK(suite()).
EndSuite(r, next) ==
    /\ zNumTests' = r.num
    /\ zSuccessfulTests' = r.ok
    /\ checks' = Append(checks, r.final)
    /\ pc' = next

-----------------------------------------------------------------------------
(* Polynomial evaluation.                                                  *)
(***************************************************************************)
NM1 == NDash * M1Dash
NTotal == NDash * (M1Dash + M2Dash)

Indices(a, b) == [j \in 1..(b - a + 1) |-> a + j - 1]

InverseMod(x) == CHOOSE y \in 1..(Q - 1) : (x * y) % Q = 1

\* xPowersPositive[i] = x^i and xPowersNegative[i] = x^-i, mod q.
XPowersPositive(x) == [i \in 0..(M2Dash * NDash) |-> (x ^ i) % Q]
XPowersNegative(x) == [i \in 0..(M1Dash * NDash) |-> (InverseMod(x) ^ i) % Q]

\* eval_tpoly: tpoly[i] * x^(i - NM1), summed mod q in two loops.
EvalTpolyDropTop(tpoly, xPos, xNeg) ==
    LET AddNeg(sum, i) == (sum + ((tpoly[i] * xNeg[NM1 - i]) % Q)) % Q
        AddPos(sum, i) == (sum + ((tpoly[i] * xPos[i - NM1]) % Q)) % Q
    IN FoldLeft(AddPos, FoldLeft(AddNeg, 0, Indices(0, NM1)), Indices(NM1 + 1, NTotal - 1))

EvalTpoly(tpoly, xPos, xNeg) ==
    LET AddNeg(sum, i) == (sum + ((tpoly[i] * xNeg[NM1 - i]) % Q)) % Q
        AddPos(sum, i) == (sum + ((tpoly[i] * xPos[i - NM1]) % Q)) % Q
    IN FoldLeft(AddPos, FoldLeft(AddNeg, 0, Indices(0, NM1)), Indices(NM1 + 1, NTotal))

\* Reference for t(x): the v with v * x^NM1 = sum of tpoly[j] * x^j (mod q).
\* It uses no inverse; it is what a correct PolynomialCommitment::Verify
\* writes into val.
TOfX(tpoly, x) ==
    LET p == FoldLeft(LAMBDA s, j : s + tpoly[j] * x ^ j, 0, Indices(0, NTotal))
    IN CHOOSE v \in 0..(Q - 1) : (v * x ^ NM1) % Q = p % Q

\* Random tpoly of degree NTotal with zero constant term (lines 343-346).
TPolys == {tp \in [0..NTotal -> 0..(Q - 1)] : tp[NM1] = 0}

-----------------------------------------------------------------------------
(* Signatures of knowledge.  A signature is made for a coin, a commitment  *)
(* and a message hash; a packed proof carries a serial, a commitment value *)
(* and a message hash.  A coin's serial is the coin's identity.            *)
(***************************************************************************)
Sig(coin, com, msg) == [coin |-> coin, com |-> com, msg |-> msg]

Proof(sig, serial, com, msg) == [sig |-> sig, serial |-> serial, com |-> com, msg |-> msg]

\* SerialNumberSoKProof verifies iff it carries what its signature signed.
Valid(p) == p.serial = p.sig.coin /\ p.com = p.sig.com /\ p.msg = p.sig.msg

\* ThreadedBatchVerify: all proofs of the list verify.
ThreadedBatchVerify(proofs) == \A i \in DOMAIN proofs : Valid(proofs[i])

-----------------------------------------------------------------------------
Init ==
    /\ library \in Libraries
    /\ zNumTests = 0
    /\ zSuccessfulTests = 0
    /\ checks = <<>>
    /\ pc = "parameters"
    /\ finalResult = TRUE
    /\ k = 0
    /\ msghashList = <<>> /\ coinList = <<>> /\ commitmentList = <<>>
    /\ sigList = <<>> /\ vProofs = <<>>
    /\ msghashList2 = <<>> /\ coinList2 = <<>> /\ commitmentList2 = <<>>
    /\ vLists = <<>>
    /\ fresh = 0

BatchUnchanged ==
    UNCHANGED <<finalResult, k, msghashList, coinList, commitmentList, sigList,
                vProofs, msghashList2, coinList2, commitmentList2, vLists, fresh>>

\* parameters_tests: Test_generators (every gis[i]^q = 1).
ParametersTests ==
    /\ pc = "parameters"
    /\ \E tests \in Outcomes(<<TRUE>>) :
          EndSuite(RunTests(TRUE, Calls(tests, <<FALSE>>)), "arithmetic")
    /\ UNCHANGED library
    /\ BatchUnchanged

\* arithmetic_circuit_tests: three checks of the honest circuit, then
\* Test_cfinalLog and Test_arithConstraints reversed on a random circuit.
ArithmeticCircuitTests ==
    /\ pc = "arithmetic"
    /\ \E tests \in Outcomes(<<TRUE, TRUE, TRUE, FALSE, FALSE>>) :
          EndSuite(RunTests(TRUE, Calls(tests, <<FALSE, FALSE, FALSE, TRUE, TRUE>>)),
                   "polynomial")
    /\ UNCHANGED library
    /\ BatchUnchanged
\* polynomial_commitment_tests: random tpoly and x, Test_polyVerify1 on the
\* honest commitment (Verify writes val), Test_polyVerify2 (val against
\* eval_tpoly), then Test_polyVerify1 reversed on three tampered copies.
PolynomialCommitmentTests ==
    /\ pc = "polynomial"
    /\ \E tpoly \in TPolys, x \in 1..(Q - 1) :
       \E val \in IF library = "correct" THEN {TOfX(tpoly, x)} ELSE 0..(Q - 1) :
       \E verify \in Outcomes(<<TRUE, FALSE, FALSE, FALSE>>) :
          LET tx == EvalTpoly(tpoly, XPowersPositive(x), XPowersNegative(x))
              tests == <<verify[1], val = tx, verify[2], verify[3], verify[4]>>
          IN EndSuite(RunTests(TRUE, Calls(tests, <<FALSE, FALSE, TRUE, TRUE, TRUE>>)),
                      "batch")
    /\ UNCHANGED library
    /\ BatchUnchanged

\* batch_signature_of_knowledge_tests: the range guard and the loop's start.
BatchStart ==
    /\ pc = "batch"
    /\ IF End < Start \/ Step < 1
          THEN /\ checks' = Append(checks, FALSE)
               /\ pc' = "done"
               /\ UNCHANGED <<finalResult, k>>
          ELSE /\ finalResult' = TRUE
               /\ k' = Start
               /\ pc' = "loop"
               /\ UNCHANGED checks
    /\ UNCHANGED <<library, zNumTests, zSuccessfulTests, msghashList, coinList,
                   commitmentList, sigList, vProofs, msghashList2, coinList2,
                   commitmentList2, vLists, fresh>>

\* The five lists verified in an iteration: the honest list, a bad message
\* hash appended, a bad commitment at the front, a bad coin and commitment
\* appended, and a bad message hash at index k - 1.
VerifyListsCopiedFromSecond(honest, badmsg, badsig, p) ==
    <<honest,
      Append(honest, badmsg),
      [Append(honest, badmsg) EXCEPT ![1] = badsig],
      Append(honest, p),
      [honest EXCEPT ![k] = badmsg]>>

VerifyLists(honest, badmsg, badsig, p) ==
    <<honest,
      Append(honest, badmsg),
      [honest EXCEPT ![1] = badsig],
      Append(honest, p),
      [honest EXCEPT ![k] = badmsg]>>

\* One iteration of the loop over k.  Each inner loop runs i over 0..step-1,
\* so the signatures and proofs are always made from the first step coins,
\* commitments and message hashes, while step new ones are appended.
BatchIteration ==
    /\ pc = "loop"
    /\ k <= End
    /\ LET n == fresh
           msgs == msghashList \o [i \in 1..Step |-> n + i]
           coins == coinList \o [i \in 1..Step |-> n + Step + i]
           coms == commitmentList \o [i \in 1..Step |-> n + 2 * Step + i]
           msgs2 == Append(msghashList2, n + 3 * Step + 1)
           coins2 == Append(coinList2, n + 3 * Step + 2)
           coms2 == Append(commitmentList2, n + 3 * Step + 3)
           sigs == sigList \o [i \in 1..Step |-> Sig(coins[i], coms[i], msgs[i])]
           honest == vProofs \o [i \in 1..Step |-> Proof(sigs[i], coins[i], coms[i], msgs[i])]
           badmsg == Proof(sigs[1], coins[1], coms[1], msgs2[1])
           badsig == Proof(sigs[1], coins[1], coms2[1], msgs[1])
           p == Proof(sigs[1], coins[1], coms2[1], msgs2[1])
           lists == VerifyLists(honest, badmsg, badsig, p)
       IN \E tests \in Outcomes([j \in 1..5 |-> ThreadedBatchVerify(lists[j])]) :
            LET r == RunTests(finalResult, Calls(tests, <<FALSE, TRUE, TRUE, TRUE, TRUE>>))
            IN /\ zNumTests' = r.num
               /\ zSuccessfulTests' = r.ok
               /\ finalResult' = r.final
               /\ msghashList' = msgs /\ coinList' = coins /\ commitmentList' = coms
               /\ msghashList2' = msgs2 /\ coinList2' = coins2 /\ commitmentList2' = coms2
               /\ sigList' = sigs /\ vProofs' = honest
               /\ vLists' = lists
               /\ fresh' = n + 3 * Step + 3
               /\ k' = k + Step
    /\ UNCHANGED <<library, checks, pc>>

\* The loop ends; BOOST_CHECK of the suite's result.  bulletproofs_tests
\* then prints zSuccessfulTests out of zNumTests.
BatchEnd ==
    /\ pc = "loop"
    /\ k > End
    /\ checks' = Append(checks, finalResult)
    /\ pc' = "done"
    /\ UNCHANGED <<library, zNumTests, zSuccessfulTests>>
    /\ BatchUnchanged

Next ==
    \/ ParametersTests
    \/ ArithmeticCircuitTests
    \/ PolynomialCommitmentTests
    \/ BatchStart
    \/ BatchIteration
    \/ BatchEnd

Spec == Init /\ [][Next]_vars

-----------------------------------------------------------------------------
TypeOK ==
    /\ library \in {"correct", "faulty"}
    /\ zNumTests \in Nat /\ zSuccessfulTests \in 0..zNumTests
    /\ checks \in Seq(BOOLEAN)
    /\ pc \in {"parameters", "arithmetic", "polynomial", "batch", "loop", "done"}
    /\ finalResult \in BOOLEAN
    /\ k \in Nat
    /\ fresh \in Nat
    /\ Len(vProofs) = Len(sigList)

\* The report bulletproofs_tests prints ("zSuccessfulTests out of zNumTests
\* tests passed") says every test passed exactly when every BOOST_CHECK of
\* the test case passed: the suites' finalResult accumulation and the
\* global counters agree, whichever tests the library makes fail.
ReportConsistent ==
    pc = "done" =>
        ((zSuccessfulTests = zNumTests) <=> \A i \in DOMAIN checks : checks[i])

\* Every Test_* call runs, whatever earlier calls returned (the call sites
\* use the bitwise &): the report counts 11 tests before the batch suite
\* and 5 per iteration of its loop.
Iterations == Cardinality({j \in Start..End : (j - Start) % Step = 0})

EveryTestRuns ==
    pc = "done" => zNumTests = 11 + 5 * Iterations

\* With a correct libzerocoin the whole test case passes: every honest
\* check is expected to pass, every reversed one is handed data that a
\* correct verifier rejects, and eval_tpoly computes t(x).
CorrectLibraryPasses ==
    (library = "correct" /\ pc = "done") =>
        /\ \A i \in DOMAIN checks : checks[i]
        /\ zSuccessfulTests = zNumTests

\* The lists batch_signature_of_knowledge_tests builds: the honest list
\* holds only valid proofs, and each list for a reversed test holds exactly
\* one bad proof, as the comments at lines 580 and 586 say.
OneBadProofPerReversedList ==
    vLists # <<>> =>
        /\ ThreadedBatchVerify(vLists[1])
        /\ \A j \in 2..5 :
              Cardinality({i \in DOMAIN vLists[j] : ~Valid(vLists[j][i])}) = 1
=============================================================================
