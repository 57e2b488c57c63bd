------------------------------ MODULE DegreePath ------------------------------
(***************************************************************************)
(* The engines that plan a degree: which courses a student may take        *)
(* (rules/evaluator.py), what a record is worth (progress/engine.py),      *)
(* which courses are candidates (recommendations/engine.py), which of them *)
(* make a semester (planner/engine.py), and the path of semesters to the   *)
(* degree (degree_path/engine.py).                                         *)
(*                                                                         *)
(* A behaviour is one path of one strategy, for one record and one limit.  *)
(* The search keeps a few of these paths, by a ranking that is left out    *)
(* here: what holds of every path holds of those, whatever the ranking.    *)
(* The catalogue is taken as a complete snapshot of the plan.              *)
(***************************************************************************)
EXTENDS Integers, Sequences, FiniteSetsExt

CONSTANTS
  Courses,        \* the courses that count toward the degree
  Approved,       \* those of them that are approved free electives
  Groups,         \* the plan's requirement groups
  GroupOf,        \* the group of a course
  Hours,          \* the credit hours of a course
  Needed,         \* the credit hours a group requires
  Elective,       \* the groups of which any courses do: ELECTIVE ...
  FreeElective,   \* ... and FREE_ELECTIVE
  Total,          \* the plan's total credit hours
  Prerequisites,  \* of a course: sets of options, one of each to be passed
  Unclear,        \* courses whose prerequisites are unresolved
  Projects,       \* courses that need MinEarned hours besides
  MinEarned,      \* the hours a project needs
  DisplayOrder,   \* the order in which the plan lists its courses
  Code,           \* the course codes, as numbers: only their order matters
  CandidateWindow,   \* DEFAULT_CANDIDATE_WINDOW_SIZE
  CombinationLimit,  \* DEFAULT_COMBINATION_EVALUATION_LIMIT
  MaxCourses,     \* max_courses_per_semester
  Horizon,        \* max_semesters_ahead
  Limits          \* the max_credit_hours_per_semester students ask for

ASSUME DegreePathAssumption ==
  /\ IsFiniteSet(Courses) /\ IsFiniteSet(Groups)
  /\ Approved \subseteq Courses /\ Unclear \subseteq Courses /\ Projects \subseteq Courses
  /\ GroupOf \in [Courses -> Groups]
  /\ Elective \subseteq Groups /\ FreeElective \subseteq Groups \ Elective
  /\ Hours \in [Courses -> Nat] /\ Needed \in [Groups -> Nat]
  /\ Prerequisites \in [Courses -> SUBSET SUBSET Courses]
  /\ DisplayOrder \in [Courses -> Nat] /\ Code \in [Courses -> Nat]
  /\ \A c, d \in Courses : Code[c] = Code[d] => c = d
  /\ {CandidateWindow, CombinationLimit} \subseteq Nat \ {0}
  /\ {Total, MinEarned, MaxCourses, Horizon} \union Limits \subseteq Nat

VARIABLES
  passed,      \* the courses the student has passed
  enrolled,    \* those he is enrolled in and has not passed
  limit,       \* the request's max_credit_hours_per_semester
  strategy,    \* the strategy the path is planned by
  terms,       \* the semesters planned: a sequence of sets of courses
  outcome,     \* PathStatus, or that the path is still growing
  blockers     \* unresolved_blocker_codes

pathVars == <<passed, enrolled, limit, strategy, terms, outcome, blockers>>

Strategies == {"FASTEST", "BALANCED", "LIGHTER"}
Outcomes == {"growing", "MODELED_COMPLETE", "HORIZON_REACHED", "NO_VALID_NEXT_PLAN",
             "BLOCKED_BY_REVIEW_REQUIRED", "BLOCKED_BY_CURRENT_IN_PROGRESS"}
Blockers == {"REVIEW_REQUIRED_BLOCKER", "CURRENT_IN_PROGRESS_BLOCKER", "PREREQUISITES_LOCKED",
             "PLAN_CONSTRAINTS_TOO_RESTRICTIVE", "CANDIDATE_WINDOW_EXCLUSION"}

PathTypeOK ==
  /\ passed \subseteq Courses
  /\ enrolled \subseteq Courses \ passed
  /\ limit \in Limits
  /\ strategy \in Strategies
  /\ terms \in Seq(SUBSET Courses) /\ Len(terms) <= Horizon
  /\ outcome \in Outcomes
  /\ blockers \subseteq Blockers

----------------------------------------------------------------------------
(* progress/engine.py: what a set of passed courses is worth               *)

Plan == Courses \ Approved
In(g) == {c \in Courses : GroupOf[c] = g}
Least(m, n) == IF m <= n THEN m ELSE n
HoursOf(S) == SumFunctionOnSet(Hours, S)

Credited(done, g) == Least(HoursOf(done \intersect In(g)), Needed[g])
Lacking(done, g) == Needed[g] - Credited(done, g)
Satisfied(done, g) ==
  Lacking(done, g) = 0 /\ (g \in Elective \union FreeElective \/ In(g) \subseteq done)

Completed(done) == Least(SumFunction([g \in Groups |-> Credited(done, g)]), Total)
Remaining(done) == Total - Completed(done)

(* in_progress_plan_credits                                                *)
CurrentCredits(done, now) ==
  SumFunction([g \in Groups |-> Least(HoursOf(now \intersect In(g)), Lacking(done, g))])

Complete(done) == \A g \in Groups : Satisfied(done, g)

----------------------------------------------------------------------------
(* rules/evaluator.py: evaluate_can_take                                   *)

PrerequisitesMet(done, c) == \A options \in Prerequisites[c] : options \intersect done # {}
EnoughEarned(done, c) == c \in Projects => HoursOf(done \intersect Plan) >= MinEarned

Eligible(done, c) == c \notin Unclear /\ PrerequisitesMet(done, c) /\ EnoughEarned(done, c)
ReviewRequired(done, c) == c \in Unclear /\ EnoughEarned(done, c)

----------------------------------------------------------------------------
(* recommendations/engine.py: recommend_courses                            *)

Incomplete(done, now) == Plan \ (done \union now)

Candidates(done, now) ==
  {c \in Incomplete(done, now) :
     /\ Eligible(done, c)
     /\ ~(GroupOf[c] \in Elective /\ Lacking(done, GroupOf[c]) = 0)}

Mandatory(c) == GroupOf[c] \notin Elective \union FreeElective
OneIf(b) == IF b THEN 1 ELSE 0

(* The first component in which two tuples differ puts p above q.          *)
Above(p, q) == \E i \in DOMAIN p : p[i] > q[i] /\ \A j \in 1 .. i - 1 : p[j] = q[j]

(* priority_tuple, with the codes' ascending order turned round            *)
Priority(done, now, c) ==
  LET g == GroupOf[c]
      opened == {t \in Incomplete(done, now) \ {c} :
                   ~Eligible(done, t) /\ Eligible(done \union {c}, t)}
  IN  <<OneIf(Mandatory(c)) + OneIf(Mandatory(c) /\ Hours[c] > 0),
        OneIf(Lacking(done, g) > 0),
        Credited(done \union {c}, g) - Credited(done, g),
        OneIf(~Satisfied(done, g) /\ Satisfied(done \union {c}, g)),
        Cardinality(opened), -DisplayOrder[c], -Code[c]>>

Ranks(done, now) ==
  LET priority == [c \in Candidates(done, now) |-> Priority(done, now, c)]
  IN  [c \in DOMAIN priority |->
         1 + Cardinality({d \in DOMAIN priority : Above(priority[d], priority[c])})]

----------------------------------------------------------------------------
(* planner/engine.py: plan_semester, as the path planner calls it          *)

(* ProgressProjection.selected_passes: what passing S adds to the credits. *)
Gain(done, S) ==
  LET added(g) == HoursOf((S \ done) \intersect In(g))
      credited(g) == Least(HoursOf(done \intersect In(g)) + added(g), Needed[g])
  IN  Least(SumFunction([g \in Groups |-> credited(g)]), Total) - Completed(done)

(* The index of the courses that cite a course as an option.               *)
UnlockTargets(done, now, c) ==
  {t \in Incomplete(done, now) \ Unclear :
     ~Eligible(done, t) /\ \E options \in Prerequisites[t] : c \in options}

(* Faulty: only courses all of whose options are in S are looked at.       *)
UnlockedOnlyByAll(done, now, S) ==
  {t \in (UNION {UnlockTargets(done, now, c) : c \in S}) \ S :
     Eligible(done \union S, t) /\ UNION Prerequisites[t] \subseteq S}

(* newly_eligible_course_codes of the combination S                        *)
Unlocked(done, now, S) ==
  {t \in (UNION {UnlockTargets(done, now, c) : c \in S}) \ S : Eligible(done \union S, t)}

(* Faulty: the candidate's own gain is looked at, not the combination's.   *)
ExtendsAlone(done, S, c, cap) ==
  /\ HoursOf(S) + Hours[c] <= cap
  /\ Cardinality(S) + 1 <= MaxCourses
  /\ Gain(done, {c}) = Hours[c]

(* Faulty: the semester stays below the limit.                             *)
ExtendsBelow(done, S, c, cap) ==
  /\ HoursOf(S) + Hours[c] < cap
  /\ Cardinality(S) + 1 <= MaxCourses
  /\ Gain(done, S \union {c}) = HoursOf(S \union {c})

(* May the candidate c join the combination S?                             *)
Extends(done, S, c, cap) ==
  /\ HoursOf(S) + Hours[c] <= cap
  /\ Cardinality(S) + 1 <= MaxCourses
  /\ Gain(done, S \union {c}) = HoursOf(S \union {c})

(* The candidates the planner looks at                                     *)
InWindow(rank) == {c \in DOMAIN rank : rank[c] <= CandidateWindow}
Window(done, now) == InWindow(Ranks(done, now))

(* _frontier_key: what a combination is kept for, most of all its mandatory *)
(* courses; if all is equal, the lower codes are kept.                     *)
Merit(done, rank, S) ==
  <<Cardinality({c \in S : Mandatory(c)}),
    Cardinality({g \in Groups : ~Satisfied(done, g) /\ Satisfied(done \union S, g)}),
    Gain(done, S), HoursOf(S), -SumFunctionOnSet(rank, S)>>

(* Is S kept before T?                                                     *)
Better(merit, S, T) ==
  \/ Above(merit[S], merit[T])
  \/ merit[S] = merit[T] /\ \E c \in S \ T : \A d \in T \ S : Code[c] < Code[d]

Kept(done, rank, sets) ==
  LET merit == [S \in sets |-> Merit(done, rank, S)]
  IN  IF Cardinality(sets) <= CombinationLimit THEN sets
      ELSE {S \in DOMAIN merit :
              Cardinality({T \in DOMAIN merit : Better(merit, T, S)}) < CombinationLimit}

(* What becomes of the combinations with one candidate more                *)
Grown(done, rank, sets, c, cap) ==
  LET joined == {S \union {c} : S \in {T \in sets : Extends(done, T, c, cap)}}
  IN  Kept(done, rank, sets \union joined)

Last(rank, C) == CHOOSE c \in C : \A d \in C : rank[d] <= rank[c]

(* The frontier: the candidates, by rank, join the combinations there are. *)
Frontier(done, now, cap) ==
  LET rank == Ranks(done, now)
      frontier[C \in SUBSET InWindow(rank)] ==
        IF C = {} THEN {{}}
        ELSE LET c == Last(rank, C)
                 sets == frontier[C \ {c}]
             IN  Grown(done, rank, sets, c, cap)
  IN  frontier[InWindow(rank)]

SemesterPlans(done, now, cap) == Frontier(done, now, cap) \ {{}}

----------------------------------------------------------------------------
(* degree_path/engine.py                                                   *)

(* The strategy's own limit of a semester.                                 *)
Cap ==
  CASE strategy = "FASTEST"  -> limit
    [] strategy = "BALANCED" -> IF limit > 15 THEN 15 ELSE 12
    [] strategy = "LIGHTER"  -> Least(12, limit)

Planned == UNION {terms[i] : i \in DOMAIN terms}
Done == passed \union Planned

(* Any record of a student                                                 *)
PathInit ==
  /\ passed \in SUBSET Courses
  /\ enrolled \in SUBSET (Courses \ passed)
  /\ limit \in Limits
  /\ strategy \in Strategies
  /\ terms = <<>>
  /\ outcome = "growing"
  /\ blockers = {}

(* Faulty: the horizon does not end the expansion.                         *)
PlanSemesterAnyway ==
  /\ outcome = "growing"
  /\ ~Complete(Done)
  /\ \E S \in SemesterPlans(Done, enrolled, Cap) : terms' = Append(terms, S)
  /\ UNCHANGED <<passed, enrolled, limit, strategy, outcome, blockers>>

(* A plan of the next semester makes a child state.                        *)
PlanSemester ==
  /\ outcome = "growing"
  /\ ~Complete(Done) /\ Len(terms) < Horizon
  /\ \E S \in SemesterPlans(Done, enrolled, Cap) : terms' = Append(terms, S)
  /\ UNCHANGED <<passed, enrolled, limit, strategy, outcome, blockers>>

(* Courses of groups that are not satisfied                                *)
Outstanding == {c \in Courses \ Done : ~Satisfied(Done, GroupOf[c])}

(* _collect_blocker_evidence: what is known without a plan of a semester   *)
Evidence ==
  {b \in Blockers :
     \/ /\ b = "REVIEW_REQUIRED_BLOCKER"
        /\ \E c \in Outstanding \ enrolled : c \in Plan /\ ReviewRequired(Done, c)
     \/ b = "CURRENT_IN_PROGRESS_BLOCKER" /\ Outstanding \intersect enrolled # {}
     \/ /\ b = "PREREQUISITES_LOCKED"
        /\ \E c \in (Outstanding \intersect Plan) \ Unclear : ~PrerequisitesMet(Done, c)}

(* ... and from there being none                                           *)
PlanEvidence ==
  LET candidates == Candidates(Done, enrolled)
      fitting == {c \in candidates : Hours[c] <= Cap /\ MaxCourses >= 1}
  IN  {b \in Blockers :
         \/ b = "PLAN_CONSTRAINTS_TOO_RESTRICTIVE" /\ candidates # {} /\ fitting = {}
         \/ /\ b = "CANDIDATE_WINDOW_EXCLUSION"
            /\ fitting \ Window(Done, enrolled) # {}}

Stops(why, evidence) ==
  /\ outcome = "growing"
  /\ outcome' = why
  /\ blockers' = evidence
  /\ UNCHANGED <<passed, enrolled, limit, strategy, terms>>

Graduate == Complete(Done) /\ Stops("MODELED_COMPLETE", {})

ReachHorizon ==
  ~Complete(Done) /\ Len(terms) = Horizon /\ Stops("HORIZON_REACHED", Evidence)

(* No plan of a semester is left.                                          *)
Stuck ==
  LET candidates == Candidates(Done, enrolled)
      taking == Outstanding \intersect enrolled
  IN  /\ ~Complete(Done) /\ Len(terms) < Horizon
      /\ SemesterPlans(Done, enrolled, Cap) = {}
      /\ Stops(IF candidates = {} /\ "REVIEW_REQUIRED_BLOCKER" \in Evidence
                 THEN "BLOCKED_BY_REVIEW_REQUIRED"
               ELSE IF /\ candidates = {} /\ taking # {}
                       /\ Candidates(Done \union taking, enrolled \ taking) # {}
                      THEN "BLOCKED_BY_CURRENT_IN_PROGRESS"
               ELSE "NO_VALID_NEXT_PLAN",
               Evidence \union PlanEvidence)

PathNext == PlanSemester \/ Graduate \/ ReachHorizon \/ Stuck

PathSpec == PathInit /\ [][PathNext]_pathVars

----------------------------------------------------------------------------
(* Properties *)

(* The hours a path plans, semester after semester, are the hours by which *)
(* it brings the degree nearer: no semester is filled with courses that do *)
(* not count.  The validation refuses the whole result otherwise.          *)
PlannedCreditsCount == HoursOf(Planned) = Completed(Done) - Completed(passed)

(* The index of citations misses no course that a semester unlocks, but    *)
(* for projects, which hours unlock as well, and brings none that it does  *)
(* not.                                                                    *)
UnlocksAreExact ==
  outcome = "growing" =>
    \A S \in SemesterPlans(Done, enrolled, Cap) :
      LET unlocked == {t \in Incomplete(Done, enrolled) \ S :
                         ~Eligible(Done, t) /\ Eligible(Done \union S, t)}
      IN  /\ Unlocked(Done, enrolled, S) \subseteq unlocked
          /\ unlocked \subseteq Unlocked(Done, enrolled, S) \union Projects

(* As long as they are no more than the planner keeps, no combination of   *)
(* the candidates it looks at is missed that keeps the limits and counts   *)
(* in full: none is lost because a smaller one was refused.                *)
FewAreAllPlanned ==
  outcome = "growing" =>
    LET full == {S \in SUBSET Window(Done, enrolled) :
                   /\ Cardinality(S) <= MaxCourses
                   /\ HoursOf(S) <= Cap
                   /\ Completed(Done \union S) - Completed(Done) = HoursOf(S)}
    IN  Cardinality(full) <= CombinationLimit =>
          SemesterPlans(Done, enrolled, Cap) = full \ {{}}

(* A path gives up while a candidate would make a semester by itself only  *)
(* if that candidate is outside the window, and then it says so: what the  *)
(* cut of the combinations drops never leaves a path without a plan.       *)
GivingUpIsExplained ==
  outcome \notin {"growing", "MODELED_COMPLETE", "HORIZON_REACHED"} =>
    \A c \in Candidates(Done, enrolled) :
      /\ MaxCourses >= 1 /\ Hours[c] <= Cap
      /\ Completed(Done \union {c}) - Completed(Done) = Hours[c]
      => c \notin Window(Done, enrolled) /\ "CANDIDATE_WINDOW_EXCLUSION" \in blockers

(* What the student is taking now still fits into what a path leaves open. *)
(* The engine raises an integrity error otherwise.                         *)
CurrentCoursesFit ==
  outcome # "growing" => Remaining(Done) >= CurrentCredits(passed, enrolled)
============================================================================
