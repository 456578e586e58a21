----------------------------- MODULE CgroupTree -----------------------------
(***************************************************************************)
(* The default hierarchy of cgroup.c: creating and removing cgroups,       *)
(* enabling controllers for the children of a cgroup, threaded cgroups,    *)
(* and the life of a css, the state of one controller in one cgroup.       *)
(*                                                                         *)
(* What runs under cgroup_mutex is one step.  The rest is asynchronous:    *)
(* the confirmation that a percpu reference is killed on all CPUs, the     *)
(* three work items of a dying css or cgroup, holders of references, and a *)
(* writer that has dropped the mutex to wait for a css to go offline.      *)
(*                                                                         *)
(* A css is named <<cgroup, controller, n>>: a dead css may still be there *)
(* when the controller is enabled again.  Tasks are reduced to whether a   *)
(* cgroup has some (nr_populated_csets); CgroupTasks models them.          *)
(***************************************************************************)
EXTENDS Integers, FiniteSets

CONSTANTS
  Ss,             \* the controllers of the hierarchy
  ThreadedSs,     \* cgrp_dfl_threaded_ss_mask
  DependsOn,      \* ss->depends_on
  MaxCgroups,     \* bound: cgroups below the root at one time
  MaxGeneration,  \* bound: csses of one controller in one cgroup at one time
  MaxDying,       \* bound: csses that are not live when the next are killed
  MaxHolds,       \* bound: references that others hold on csses
  MaxDescendants, \* cgroup.max.descendants and
  MaxDepth,       \* cgroup.max.depth of every cgroup
  Writer,         \* the processes that write to the files of the hierarchy
  Masks           \* the sets of controllers they name

ASSUME TreeAssumption ==
  /\ ThreadedSs \subseteq Ss
  /\ DependsOn \in [Ss -> SUBSET Ss]
  /\ Masks \subseteq SUBSET Ss
  /\ {MaxCgroups, MaxGeneration, MaxDying, MaxHolds, MaxDescendants, MaxDepth} \subseteq Nat

Root == 0
Cgroup == 0 .. MaxCgroups
Css == Cgroup \X Ss \X (1 .. MaxGeneration)
NoCgroup == -1
NoCss == <<>>

VARIABLES
  cgrp,     \* the cgroups that exist
  css,      \* the csses that exist
  tasked,   \* the cgroups that have tasks
  held,     \* held[i]: references on css i that are held by others
  wr        \* the writers

treeVars == <<cgrp, css, tasked, held, wr>>

\* "ref": there are references; "release", "free": css_release_work_fn and
\* css_free_rwork_fn are queued.  online is CSS_ONLINE of cgrp->self.
CgroupRecord ==
  [parent : Cgroup \cup {NoCgroup}, online : BOOLEAN, refs : Nat,
   control : SUBSET Ss,         \* subtree_control
   mask : SUBSET Ss,            \* subtree_ss_mask
   dom : Cgroup,                \* dom_cgrp
   threadedChildren : Nat, descendants : Nat, dying : Nat,
   stage : {"ref", "release", "free"}]

\* "live"; "killing": kill_css was called; "killed": that has been confirmed,
\* and css_killed_work_fn is queued when onlineCnt is 0; "offline"; "free":
\* without references, or never online, and its last work items are queued
CssRecord ==
  [parent : Css \cup {NoCss}, refs : Nat, onlineCnt : Nat,
   stage : {"live", "killing", "killed", "offline", "free"}]

\* a write to cgroup.subtree_control or, not at the root, to cgroup.type
Request == [func : {"control"}, cgroup : Cgroup, enable : Masks, disable : {{}}]
           \cup [func : {"control"}, cgroup : Cgroup, enable : {{}}, disable : Masks]
           \cup [func : {"type"}, cgroup : Cgroup \ {Root}, enable : {{}}, disable : {{}}]
NoRequest == [func |-> "none", cgroup |-> Root, enable |-> {}, disable |-> {}]

IdleWriter == [pc |-> "idle", req |-> NoRequest, dsct |-> Root, woken |-> FALSE]

TreeTypeOK ==
  /\ \A c \in DOMAIN cgrp : c \in Cgroup /\ cgrp[c] \in CgroupRecord
  /\ \A i \in DOMAIN css : i \in Css /\ css[i] \in CssRecord
  /\ tasked \subseteq DOMAIN cgrp
  /\ \A i \in DOMAIN held : i \in DOMAIN css /\ held[i] \in 1 .. MaxHolds
  /\ \A w \in Writer :
       /\ wr[w].pc \in {"idle", "lock", "wait"}
       /\ wr[w].req.cgroup \in DOMAIN cgrp /\ wr[w].dsct \in DOMAIN cgrp

NewCgroup(p) ==
  [parent |-> p, online |-> TRUE, refs |-> 1, control |-> {}, mask |-> {},
   dom |-> Root, threadedChildren |-> 0, descendants |-> 0, dying |-> 0,
   stage |-> "ref"]

NewCss(p) == [parent |-> p, refs |-> 1, onlineCnt |-> 1, stage |-> "live"]

\* cgroup_init: the root cgroup with a css of every controller; the references
\* of the root hierarchy are never given up
TreeInit ==
  /\ cgrp = [c \in {Root} |->
               [NewCgroup(NoCgroup) EXCEPT !.refs = 1 + Cardinality(Ss)]]
  /\ css = [i \in {Root} \X Ss \X {1} |-> NewCss(NoCss)]
  /\ tasked = {Root}
  /\ held = <<>>
  /\ wr = [w \in Writer |-> IdleWriter]

-----------------------------------------------------------------------------
(* The tree.  G and S are values of cgrp and css.                          *)

\* the css that cgrp->subsys[] points to has CSS_ONLINE
Online(S, i) == S[i].stage \in {"live", "killing", "killed"}
Dying(S, i) == S[i].stage # "live"

\* cgroup_css
CgroupCss(S, c, s) == {i \in DOMAIN S : i[1] = c /\ i[2] = s /\ Online(S, i)}
TheCss(S, c, s) == CHOOSE i \in CgroupCss(S, c, s) : TRUE

\* c and the cgroups above it
Path(G, c) ==
  LET up[n \in 0 .. MaxCgroups] ==
        IF n = 0 THEN c
        ELSE IF up[n - 1] = NoCgroup THEN NoCgroup ELSE G[up[n - 1]].parent
  IN  {up[n] : n \in 0 .. MaxCgroups} \ {NoCgroup}
Ancestors(G, c) == Path(G, c) \ {c}

\* cgroup_for_each_live_descendant_pre and _post, with c itself
LiveSubtree(G, c) == {d \in DOMAIN G : c \in Path(G, d) /\ G[d].online}
LiveChildren(G, c) == {d \in DOMAIN G : G[d].parent = c /\ G[d].online}

Threaded(G, c) == G[c].dom # c
Mixable(G, c) == G[c].parent = NoCgroup

\* cgroup_is_populated, and nr_populated_domain_children
Populated(G, c) == \E d \in tasked : c \in Path(G, d)
DomainChildPopulated(G, c) ==
  \E d \in DOMAIN G : G[d].parent = c /\ ~Threaded(G, d) /\ Populated(G, d)

\* cgroup_can_be_thread_root
CanBeThreadRoot(G, c) ==
  \/ Mixable(G, c)
  \/ /\ ~Threaded(G, c)
     /\ ~DomainChildPopulated(G, c)
     /\ G[c].control \subseteq ThreadedSs

\* cgroup_is_thread_root
ThreadRoot(G, c) ==
  /\ ~Threaded(G, c)
  /\ \/ G[c].threadedChildren > 0
     \/ c \in tasked /\ G[c].control \cap ThreadedSs # {}

\* cgroup_is_valid_domain
ValidDomain(G, c) ==
  /\ ~Threaded(G, c)
  /\ \A a \in Ancestors(G, c) : /\ Mixable(G, a) \/ ~ThreadRoot(G, a)
                                /\ ~Threaded(G, a)

\* cgroup_control and cgroup_ss_mask, given the masks of the parent
Available(G, c, mask) == IF Threaded(G, c) THEN mask \cap ThreadedSs ELSE mask
Control(G, c) == IF c = Root THEN Ss ELSE Available(G, c, G[G[c].parent].control)
SsMask(G, c) == IF c = Root THEN Ss ELSE Available(G, c, G[G[c].parent].mask)

\* cgroup_calc_subtree_ss_mask: a fixed point
CalcSubtreeSsMask(control, this) ==
  LET cur[n \in 0 .. Cardinality(Ss)] ==
        IF n = 0 THEN control
        ELSE (cur[n - 1] \cup UNION {DependsOn[s] : s \in cur[n - 1]}) \cap this
  IN  cur[Cardinality(Ss)]

\* cgroup_propagate_control
Propagate(G, c) ==
  LET sub == LiveSubtree(G, c)
      control[d \in sub] ==
        G[d].control \cap
          (IF d = c THEN Control(G, c) ELSE Available(G, d, control[G[d].parent]))
      mask[d \in sub] ==
        CalcSubtreeSsMask(control[d],
          IF d = c THEN SsMask(G, c) ELSE Available(G, d, mask[G[d].parent]))
  IN  [d \in DOMAIN G |-> IF d \in sub
                          THEN [G[d] EXCEPT !.control = control[d], !.mask = mask[d]]
                          ELSE G[d]]

-----------------------------------------------------------------------------
(* References.                                                             *)

\* cgroup_put n times; css_release queues the next work
PutCgroup(G, c, n) ==
  [G EXCEPT ![c].refs = @ - n,
            ![c].stage = IF G[c].refs = n THEN "release" ELSE @]
GetCgroup(G, c, n) == [G EXCEPT ![c].refs = @ + n]

\* css_put
PutCss(S, i) ==
  [S EXCEPT ![i].refs = @ - 1,
            ![i].stage = IF S[i].refs = 1 THEN "free" ELSE @]

Without(f, x) == [y \in DOMAIN f \ {x} |-> f[y]]

-----------------------------------------------------------------------------
(* Making and unmaking csses.                                              *)

\* the <<cgroup, controller>> below c that have to be given a css
Missing(G, S, c) ==
  {p \in LiveSubtree(G, c) \X Ss : p[2] \in SsMask(G, p[1]) /\ CgroupCss(S, p[1], p[2]) = {}}

\* a name for the new css
FreshGen(S, p) == {n \in 1 .. MaxGeneration : <<p[1], p[2], n>> \notin DOMAIN S}
Fresh(S, p) == <<p[1], p[2], CHOOSE n \in FreshGen(S, p) : TRUE>>

\* Mutant of CreatedCss: online_css does not count on the parent
CreatedCssUncounted(G, S, ok, bad) ==
  LET new == {Fresh(S, p) : p \in ok \cup bad}
      parent(p) == LET q == <<G[p[1]].parent, p[2]>> IN
                   IF q \in ok THEN Fresh(S, q) ELSE TheCss(S, q[1], q[2])
      isBad(i) == <<i[1], i[2]>> \in bad
      base(i) == IF i \notin new THEN S[i]
                 ELSE IF isBad(i)
                 THEN [NewCss(parent(i)) EXCEPT !.onlineCnt = 0, !.stage = "free"]
                 ELSE NewCss(parent(i))
  IN  [i \in DOMAIN S \cup new |->
         [base(i) EXCEPT !.refs = @ + Cardinality({p \in ok \cup bad : parent(p) = i})]]

\* css_create for all pairs in ok.  It fails for those in bad, after
\* init_and_link_css, and they are handed to css_free_rwork_fn.
CreatedCss(G, S, ok, bad) ==
  LET new == {Fresh(S, p) : p \in ok \cup bad}
      parent(p) == LET q == <<G[p[1]].parent, p[2]>> IN
                   IF q \in ok THEN Fresh(S, q) ELSE TheCss(S, q[1], q[2])
      isBad(i) == <<i[1], i[2]>> \in bad
      base(i) == IF i \notin new THEN S[i]
                 ELSE IF isBad(i)
                 THEN [NewCss(parent(i)) EXCEPT !.onlineCnt = 0, !.stage = "free"]
                 ELSE NewCss(parent(i))
      kids(i, set) == Cardinality({p \in set : parent(p) = i})
  IN  [i \in DOMAIN S \cup new |->
         [base(i) EXCEPT !.refs = @ + kids(i, ok \cup bad),
                         !.onlineCnt = @ + kids(i, ok)]]

\* init_and_link_css gets the cgroup
CreatedGet(G, ok, bad) ==
  [c \in DOMAIN G |->
     [G[c] EXCEPT !.refs = @ + Cardinality({p \in ok \cup bad : p[1] = c})]]

\* kill_css; the reference it takes makes up for the base reference it kills
Killed(S, set) ==
  [i \in DOMAIN S |-> IF i \in set /\ S[i].stage = "live"
                      THEN [S[i] EXCEPT !.stage = "killing"] ELSE S[i]]

\* cgroup_apply_control_disable
ApplyControlDisable(G, S, c) ==
  Killed(S, {i \in DOMAIN S : /\ i[1] \in LiveSubtree(G, c) /\ Online(S, i)
                              /\ S[i].parent # NoCss
                              /\ i[2] \notin SsMask(G, i[1])})

\* How far cgroup_apply_control_enable gets: all csses are made, or those of
\* some part closed towards c, and one more may be half made.
EnableOutcomes(G, S, c) ==
  LET missing == Missing(G, S, c)
      above(p) == {q \in missing : q[2] = p[2] /\ q[1] \in Ancestors(G, p[1])}
      closed == {ok \in SUBSET missing : \A p \in ok : above(p) \subseteq ok}
      next(ok) == {p \in missing \ ok : above(p) \subseteq ok}
  IN  {[ok |-> missing, bad |-> {}, ret |-> 0]} \cup
      UNION {{[ok |-> ok, bad |-> bad, ret |-> -1] :
                bad \in {{}} \cup {{p} : p \in next(ok)}} : ok \in closed}

\* the names suffice (MaxGeneration)
CanName(G, S, c) == \A p \in Missing(G, S, c) : FreshGen(S, p) # {}

\* cgroup_apply_control and cgroup_finalize_control, with G the changed and
\* old the saved cgroups.  When csses cannot be made, or tasks cannot be
\* migrated to them (ret = -1 with all of them made), the masks are restored
\* and the csses that do not belong to them are killed again.
ControlApplied(old, G, S, c, out) ==
  LET made == CreatedCss(G, S, out.ok, out.bad)
      g == CreatedGet(IF out.ret = 0 THEN G ELSE Propagate(old, c), out.ok, out.bad)
  IN  [cgrp |-> g, css |-> ApplyControlDisable(g, made, c)]

\* cgroup_destroy_locked, once nothing stands in its way
Destroyed(G, S, c) ==
  LET p == G[c].parent
      g == [d \in DOMAIN G |->
              IF d \in Ancestors(G, c)
              THEN [G[d] EXCEPT
                      !.descendants = @ - 1, !.dying = @ + 1,
                      !.threadedChildren = IF d = p /\ Threaded(G, c) THEN @ - 1 ELSE @]
              ELSE IF d = c THEN [G[d] EXCEPT !.online = FALSE] ELSE G[d]]
  IN  [cgrp |-> PutCgroup(g, c, 1),
       css |-> Killed(S, {i \in DOMAIN S : i[1] = c /\ Online(S, i)})]

FewDying(S) == Cardinality({i \in DOMAIN S : Dying(S, i)}) <= MaxDying

-----------------------------------------------------------------------------
(* mkdir, rmdir, and tasks.                                                *)

\* cgroup_check_hierarchy_limits
WithinLimits(p) ==
  \A a \in Path(cgrp, p) :
    /\ cgrp[a].descendants < MaxDescendants
    /\ Cardinality(Path(cgrp, p)) - Cardinality(Ancestors(cgrp, a)) <= MaxDepth

\* cgroup_create: the new cgroup c below p
Created(p, c) ==
  LET g == [d \in DOMAIN cgrp \cup {c} |->
              IF d = c THEN [NewCgroup(p) EXCEPT !.dom = c]
              ELSE IF d \in Path(cgrp, p)
              THEN [cgrp[d] EXCEPT !.descendants = @ + 1,
                                   !.refs = IF d = p THEN @ + 1 ELSE @]
              ELSE cgrp[d]]
  IN  Propagate(g, c)

\* cgroup_mkdir
Mkdir(p) ==
  /\ cgrp[p].online
  /\ WithinLimits(p)
  /\ DOMAIN cgrp # Cgroup
  /\ LET c == CHOOSE x \in Cgroup \ DOMAIN cgrp : TRUE
         g == Created(p, c)
     IN  \E out \in EnableOutcomes(g, css, c) :
           LET g2 == CreatedGet(g, out.ok, out.bad)
               s2 == CreatedCss(g, css, out.ok, out.bad)
               res == IF out.ret = 0 THEN [cgrp |-> g2, css |-> s2]
                                     ELSE Destroyed(g2, s2, c)
           IN  FewDying(res.css) /\ cgrp' = res.cgrp /\ css' = res.css
  /\ UNCHANGED <<tasked, held, wr>>

\* cgroup_rmdir
Rmdir(c) ==
  /\ c # Root /\ cgrp[c].online
  /\ ~Populated(cgrp, c)
  /\ LiveChildren(cgrp, c) = {}
  /\ LET res == Destroyed(cgrp, css, c) IN
     FewDying(res.css) /\ cgrp' = res.cgrp /\ css' = res.css
  /\ UNCHANGED <<tasked, held, wr>>

\* cgroup_migrate_vet_dst: a task may come to c
VetDst(c) ==
  /\ ValidDomain(cgrp, cgrp[c].dom)
  /\ \/ Mixable(cgrp, c) \/ CanBeThreadRoot(cgrp, c) \/ Threaded(cgrp, c)
     \/ cgrp[c].control = {}

\* cgroup_procs_write and cgroup_threads_write bring the first task to c
Attach(c) ==
  /\ cgrp[c].online /\ c \notin tasked
  /\ VetDst(c)
  /\ tasked' = tasked \cup {c}
  /\ UNCHANGED <<cgrp, css, held, wr>>

\* the last task of c goes elsewhere, or exits
Detach(c) ==
  /\ c \in tasked \ {Root}
  /\ tasked' = tasked \ {c}
  /\ UNCHANGED <<cgrp, css, held, wr>>

-----------------------------------------------------------------------------
(* cgroup.subtree_control and cgroup.type.                                 *)

\* Mutant of Draining: the cgroup itself, and not those below it
DrainingHere(c) == {i \in DOMAIN css : i[1] = c /\ Online(css, i) /\ Dying(css, i)}

\* the csses that cgroup_lock_and_drain_offline waits for
Draining(c) == {i \in DOMAIN css : /\ i[1] \in LiveSubtree(cgrp, c)
                                   /\ Online(css, i) /\ Dying(css, i)}

\* cgroup_kn_lock_live has got the mutex for request r, at once or after a
\* wait; in the second case there is a reference on the cgroup.
Locking(w, r) ==
  \/ wr[w].pc = "idle" /\ r.cgroup \in DOMAIN cgrp /\ cgrp[r.cgroup].online
  \/ wr[w].pc = "lock" /\ r = wr[w].req

\* cgroup_lock_and_drain_offline finds a dying css and sleeps
WaitOffline(w, r) ==
  /\ Locking(w, r)
  /\ \E i \in Draining(r.cgroup) :
       /\ cgrp' = GetCgroup(IF wr[w].pc = "idle" THEN GetCgroup(cgrp, r.cgroup, 1)
                                                 ELSE cgrp, i[1], 1)
       /\ wr' = [wr EXCEPT ![w] = [pc |-> "wait", req |-> r, dsct |-> i[1],
                                   woken |-> FALSE]]
  /\ UNCHANGED <<css, tasked, held>>

\* it has been woken, and starts again
WaitEnds(w) ==
  /\ wr[w].pc = "wait" /\ wr[w].woken
  /\ cgrp' = PutCgroup(cgrp, wr[w].dsct, 1)
  /\ wr' = [wr EXCEPT ![w].pc = "lock", ![w].dsct = Root, ![w].woken = FALSE]
  /\ UNCHANGED <<css, tasked, held>>

Locked(w, r) == Locking(w, r) /\ Draining(r.cgroup) = {}

\* the write ends with cgroup_kn_unlock
Unlock(w, G) ==
  /\ cgrp' = IF wr[w].pc = "lock" THEN PutCgroup(G, wr[w].req.cgroup, 1) ELSE G
  /\ wr' = [wr EXCEPT ![w] = IdleWriter]

\* what is left of the masks asked for without what changes nothing
ToEnable(r) == r.enable \ cgrp[r.cgroup].control
ToDisable(r) == r.disable \cap cgrp[r.cgroup].control

\* cgroup_vet_subtree_control_enable
VetEnable(c, enable) ==
  \/ enable = {}
  \/ /\ ValidDomain(cgrp, cgrp[c].dom)
     /\ \/ Mixable(cgrp, c)
        \/ enable \subseteq ThreadedSs /\ (CanBeThreadRoot(cgrp, c) \/ Threaded(cgrp, c))
        \/ /\ enable \subseteq ThreadedSs \/ ~(ThreadRoot(cgrp, c) \/ Threaded(cgrp, c))
           /\ c \notin tasked

\* cgroup_subtree_control_write goes through
MayWriteControl(r) ==
  /\ cgrp[r.cgroup].online
  /\ ToEnable(r) \subseteq Control(cgrp, r.cgroup)
  /\ \A d \in LiveChildren(cgrp, r.cgroup) : cgrp[d].control \cap ToDisable(r) = {}
  /\ ToEnable(r) \cup ToDisable(r) # {}
  /\ VetEnable(r.cgroup, ToEnable(r))

WriteControl(w, r) ==
  LET c == r.cgroup
      g == Propagate([cgrp EXCEPT ![c].control = (@ \cup ToEnable(r)) \ ToDisable(r)], c)
  IN  /\ Locked(w, r) /\ r.func = "control" /\ MayWriteControl(r)
      /\ CanName(g, css, c)
      /\ \E out \in EnableOutcomes(g, css, c) :
           LET res == ControlApplied(cgrp, g, css, c, out) IN
           FewDying(res.css) /\ Unlock(w, res.cgrp) /\ css' = res.css
      /\ UNCHANGED <<tasked, held>>

\* cgroup_enable_threaded goes through
MayEnableThreaded(c) ==
  LET dom == cgrp[cgrp[c].parent].dom IN
  /\ cgrp[c].online /\ ~Threaded(cgrp, c)
  /\ ~Populated(cgrp, c) /\ cgrp[c].control \subseteq ThreadedSs
  /\ ValidDomain(cgrp, dom) /\ CanBeThreadRoot(cgrp, dom)

\* "threaded" is written to cgroup.type
WriteType(w, r) ==
  LET c == r.cgroup
      p == cgrp[c].parent
      joins(d) == d \in LiveSubtree(cgrp, c) /\ (d = c \/ Threaded(cgrp, d))
      g == Propagate([d \in DOMAIN cgrp |->
                        IF joins(d) THEN [cgrp[d] EXCEPT !.dom = cgrp[p].dom] ELSE cgrp[d]], c)
  IN  /\ Locked(w, r) /\ r.func = "type" /\ MayEnableThreaded(c)
      /\ CanName(g, css, c)
      /\ \E out \in EnableOutcomes(g, css, c) :
           LET res == ControlApplied(cgrp, g, css, c, out) IN
           /\ Unlock(w, IF out.ret = 0
                        THEN [res.cgrp EXCEPT ![p].threadedChildren = @ + 1] ELSE res.cgrp)
           /\ FewDying(res.css) /\ css' = res.css
      /\ UNCHANGED <<tasked, held>>

\* a write that had to wait is refused, or there is nothing to do
WriteRefused(w, r) ==
  /\ wr[w].pc = "lock" /\ Locked(w, r)
  /\ IF r.func = "control" THEN ~MayWriteControl(r) ELSE ~MayEnableThreaded(r.cgroup)
  /\ Unlock(w, cgrp)
  /\ UNCHANGED <<css, tasked, held>>

-----------------------------------------------------------------------------
(* The end of a css and of a cgroup.                                       *)

\* css_killed_ref_fn
KillConfirmed(i) ==
  /\ css[i].stage = "killing"
  /\ css' = [css EXCEPT ![i].onlineCnt = @ - 1, ![i].stage = "killed"]
  /\ UNCHANGED <<cgrp, tasked, held, wr>>

\* the csses above i, nearest first
CssAbove(i) ==
  LET up[n \in 0 .. MaxCgroups] ==
        IF n = 0 THEN css[i].parent
        ELSE IF up[n - 1] = NoCss THEN NoCss ELSE css[up[n - 1]].parent
  IN  up

\* css_killed_work_fn: i goes offline, and each css above it of which it was
\* the last that kept it online
KilledWork(i) ==
  LET up == CssAbove(i)
      last(n) == up[n] # NoCss /\ css[up[n]].onlineCnt = 1
      reached == {up[n] : n \in {m \in 0 .. MaxCgroups : \A k \in 0 .. m - 1 : last(k)}} \ {NoCss}
      off == {i} \cup {j \in reached : css[j].onlineCnt = 1}
  IN  /\ css[i].stage = "killed" /\ css[i].onlineCnt = 0
      /\ css' = [j \in DOMAIN css |->
                   [css[j] EXCEPT
                      !.onlineCnt = IF j \in reached THEN @ - 1 ELSE @,
                      !.refs = IF j \in off THEN @ - 1 ELSE @,
                      !.stage = IF j \notin off THEN @
                                ELSE IF css[j].refs = 1 THEN "free" ELSE "offline"]]
      /\ wr' = [w \in Writer |->
                  [wr[w] EXCEPT !.woken = @ \/ (wr[w].pc = "wait" /\
                                                \E j \in off : j[1] = wr[w].dsct)]]
      /\ UNCHANGED <<cgrp, tasked, held>>

\* css_release_work_fn of a cgroup
CgroupReleased(c) ==
  /\ cgrp[c].stage = "release"
  /\ cgrp' = [d \in DOMAIN cgrp |->
                [cgrp[d] EXCEPT !.stage = IF d = c THEN "free" ELSE @,
                                !.dying = IF d \in Ancestors(cgrp, c) THEN @ - 1 ELSE @]]
  /\ UNCHANGED <<css, tasked, held, wr>>

\* css_release_work_fn of a css, which changes nothing here, and then
\* css_free_rwork_fn of a css, and of a cgroup
CssFreed(i) ==
  /\ css[i].stage = "free"
  /\ cgrp' = PutCgroup(cgrp, i[1], 1)
  /\ css' = Without(PutCss(css, css[i].parent), i)
  /\ UNCHANGED <<tasked, held, wr>>

CgroupFreed(c) ==
  /\ cgrp[c].stage = "free"
  /\ cgrp' = Without(PutCgroup(cgrp, cgrp[c].parent, 1), c)
  /\ UNCHANGED <<css, tasked, held, wr>>

\* css_tryget_online in a controller: it succeeds until the kill is confirmed
Hold(i) ==
  /\ css[i].stage \in {"live", "killing"}
  /\ Cardinality(DOMAIN held) < MaxHolds
  /\ i \notin DOMAIN held
  /\ held' = [j \in DOMAIN held \cup {i} |-> 1]
  /\ css' = [css EXCEPT ![i].refs = @ + 1]
  /\ UNCHANGED <<cgrp, tasked, wr>>

Drop(i) ==
  /\ i \in DOMAIN held
  /\ held' = Without(held, i)
  /\ css' = PutCss(css, i)
  /\ UNCHANGED <<cgrp, tasked, wr>>

-----------------------------------------------------------------------------

Destroys == \/ \E i \in DOMAIN css : \/ KillConfirmed(i) \/ KilledWork(i)
                                     \/ CssFreed(i)
            \/ \E c \in DOMAIN cgrp : CgroupReleased(c) \/ CgroupFreed(c)

Writes(w, r) ==
  WaitOffline(w, r) \/ WriteControl(w, r) \/ WriteType(w, r) \/ WriteRefused(w, r)

TreeNext ==
  \/ \E c \in DOMAIN cgrp : Mkdir(c) \/ Rmdir(c) \/ Attach(c) \/ Detach(c)
  \/ \E w \in Writer : WaitEnds(w) \/ \E r \in Request : Writes(w, r)
  \/ Destroys
  \/ \E i \in DOMAIN css : Hold(i) \/ Drop(i)

TreeSpec == TreeInit /\ [][TreeNext]_treeVars

-----------------------------------------------------------------------------
(* Properties.                                                             *)

\* A css goes offline only after the csses below it, in whatever order the
\* kills of a subtree are confirmed on the CPUs (online_cnt).
OfflineInOrder ==
  \A i \in DOMAIN css :
    Online(css, i) /\ css[i].parent # NoCss => Online(css, css[i].parent)

\* Nothing is freed under what points to it: the cgroup and the parent of a
\* css, and the parent of a cgroup, are there with the references that are
\* put last; a reference count is the number of those who hold one; and what
\* nobody refers to is on its way to be freed.
ReferencesBalanced ==
  /\ \A i \in DOMAIN css :
       /\ i[1] \in DOMAIN cgrp
       /\ css[i].parent # NoCss => css[i].parent \in DOMAIN css
       /\ css[i].stage # "free" =>
            css[i].refs # 0 /\ css[i].refs = Cardinality({j \in DOMAIN css : css[j].parent = i})
                          + (IF i \in DOMAIN held THEN 1 ELSE 0)
                          + (IF Online(css, i) THEN 1 ELSE 0)
  /\ \A c \in DOMAIN cgrp :
       /\ cgrp[c].parent # NoCgroup => cgrp[c].parent \in DOMAIN cgrp
       /\ cgrp[c].refs = 0 <=> cgrp[c].stage # "ref"
       /\ cgrp[c].refs = (IF cgrp[c].online THEN 1 ELSE 0)
                         + Cardinality({i \in DOMAIN css : i[1] = c})
                         + Cardinality({d \in DOMAIN cgrp : cgrp[d].parent = c})
                         + Cardinality({w \in Writer : wr[w].pc # "idle" /\ wr[w].req.cgroup = c})
                         + Cardinality({w \in Writer : wr[w].pc = "wait" /\ wr[w].dsct = c})

\* nr_descendants, nr_dying_descendants and nr_threaded_children count what
\* they are named for, across failed mkdirs and cgroups that linger.
CountsAgree ==
  \A c \in DOMAIN cgrp :
    LET below == {d \in DOMAIN cgrp : c \in Ancestors(cgrp, d)} IN
    /\ cgrp[c].descendants = Cardinality({d \in below : cgrp[d].online})
    /\ cgrp[c].dying = Cardinality({d \in below : ~cgrp[d].online /\ cgrp[d].stage # "free"})
    /\ cgrp[c].threadedChildren =
         Cardinality({d \in LiveChildren(cgrp, c) : Threaded(cgrp, d)})

\* A live cgroup has exactly the csses that cgroup_ss_mask names, one of each
\* and none of them dying, also after a change of control that failed half
\* way; a css that has to go may still be draining.  (BUG_ON in
\* init_and_link_css, WARN_ON_ONCE in cgroup_apply_control_enable.)
CssesMatchControl ==
  \A c \in DOMAIN cgrp : cgrp[c].online =>
    /\ cgrp[c].control \subseteq Control(cgrp, c)
    /\ \A s \in Ss :
         /\ Cardinality(CgroupCss(css, c, s)) <= 1
         /\ s \in SsMask(cgrp, c) <=>
              \E i \in CgroupCss(css, c, s) : css[i].stage = "live"

\* The no-internal-process constraint: tasks never share a cgroup with domain
\* controllers for its children, and below a thread root no domain cgroup has
\* tasks, whichever of tasks, controllers and types comes first.
NoInternalProcesses ==
  \A c \in DOMAIN cgrp \ {Root} : cgrp[c].online =>
    /\ c \in tasked => cgrp[c].control \subseteq ThreadedSs
    /\ Threaded(cgrp, c) =>
         LET p == cgrp[c].parent IN
         /\ cgrp[p].dom = cgrp[c].dom /\ ~Threaded(cgrp, cgrp[c].dom)
         /\ cgrp[c].control \subseteq ThreadedSs
    /\ c \in tasked => ValidDomain(cgrp, cgrp[c].dom)

\* What cgroups and csses go through never frees or offlines anything too early
\* and never miscounts it, while kills are confirmed in any order and references
\* are held across removals.
LifetimesKept == TreeTypeOK /\ OfflineInOrder /\ ReferencesBalanced /\ CountsAgree

\* Controllers, tasks and threaded cgroups fit together after every write to
\* cgroup.subtree_control or cgroup.type, those that waited for a dying css and
\* those that failed half way included.
ControlKept == CssesMatchControl /\ NoInternalProcesses
=============================================================================
