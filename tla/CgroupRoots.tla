---------------------------- MODULE CgroupRoots ----------------------------
(***************************************************************************)
(* The hierarchies of cgroups: mounting, remounting and unmounting the     *)
(* version 1 file system (cgroup1_get_tree, cgroup1_reconfigure,           *)
(* cgroup_kill_sb), and the controllers that move between the default      *)
(* hierarchy and the others (rebind_subsystems).                           *)
(*                                                                         *)
(* What runs under cgroup_mutex is one step.  Looking for the super block, *)
(* the test for a dying root after it, and the steps of cgroup_kill_sb are *)
(* outside of it.  A hierarchy has at most one child, which stands for     *)
(* whatever is below its root; the controllers used below the root of the  *)
(* default hierarchy are a set.                                            *)
(***************************************************************************)
EXTENDS Integers, FiniteSets

CONSTANTS
  Ctl,         \* the controllers
  Hier,        \* identities for version 1 hierarchies; 0 is the default one
  Ns,          \* the cgroup namespaces; 0 is the initial one
  Mounter,     \* the processes that mount
  Options,     \* the mount options in use: [mask, none, name]; name 0 is no name
  MaxMounts    \* bound: calls of mount

ASSUME RootsAssumption ==
  /\ 0 \notin Hier /\ 0 \in Ns /\ MaxMounts \in Nat
  /\ IsFiniteSet(Ns) /\ IsFiniteSet(Mounter)
  /\ Options \subseteq [mask : SUBSET Ctl, none : BOOLEAN, name : Nat]

VARIABLES
  hier,      \* the version 1 hierarchies there are
  home,      \* ss->root
  dflUsed,   \* the controllers enabled below the default root
  sbs,       \* the super blocks, one for a hierarchy and a namespace
  mnt,       \* the calls of mount in progress
  mounts,    \* calls so far
  killed2    \* a root was killed twice: its count is off from then on

rootsVars == <<hier, home, dflUsed, sbs, mnt, mounts, killed2>>

Sb == Hier \X Ns
NoSb == [st |-> "none", act |-> 0]
NoOption == [mask |-> {}, none |-> FALSE, name |-> 0]
IdleMnt == [pc |-> "idle", o |-> NoOption, ns |-> 0, r |-> 0]

RootsInit ==
  /\ hier = [r \in {} |-> 0]
  /\ home = [s \in Ctl |-> 0]
  /\ dflUsed = {}
  /\ sbs = [k \in Sb |-> NoSb]
  /\ mnt = [p \in Mounter |-> IdleMnt]
  /\ mounts = 0
  /\ killed2 = FALSE

-----------------------------------------------------------------------------
\* check_cgroupfs_options: all controllers where nothing is named
Resolved(o) == IF o.mask = {} /\ ~o.none /\ o.name = 0 THEN [o EXCEPT !.mask = Ctl] ELSE o
OptionsValid(o) == /\ o.mask # {} \/ o.name # 0
                   /\ o.mask = {} \/ ~o.none

HasChildren(r) == hier[r].kid \in {"live", "dying"}

\* rebind_subsystems: the conditions
MayRebind(dst, S) ==
  \A s \in S : /\ IF home[s] = 0 THEN s \notin dflUsed ELSE ~HasChildren(home[s])
               /\ home[s] = 0 \/ dst = 0

\* rebind_subsystems: off the source, on to the destination
Rebound(H, dst, S) ==
  [r \in DOMAIN H |-> [H[r] EXCEPT !.mask = IF r = dst THEN @ \cup S ELSE @ \ S]]
NewHome(dst, S) == [s \in Ctl |-> IF s \in S THEN dst ELSE home[s]]

NameMatches(o) == {r \in DOMAIN hier : hier[r].name = o.name}
Wants(o) == o.mask # {} \/ o.none

\* cgroup1_root_to_use: up to the creation
RootToUse(o) ==
  LET named == IF o.name # 0 THEN NameMatches(o) ELSE DOMAIN hier
      cands == {r \in named : Wants(o) => hier[r].mask = o.mask}
  IN  IF \E s \in o.mask : home[s] # 0 /\ hier[home[s]].dead THEN "restart"
      ELSE IF cands # {} THEN "use"
      ELSE IF o.name # 0 /\ named # {} THEN "refused"
      ELSE IF Wants(o) THEN "create" ELSE "refused"

UsedRoot(o) ==
  CHOOSE r \in DOMAIN hier : /\ o.name # 0 => hier[r].name = o.name
                             /\ Wants(o) => hier[r].mask = o.mask

\* init_cgroup_root, cgroup_setup_root; the reference is the base one and the mount's
NewRoot(o) == [mask |-> {}, name |-> o.name, ref |-> 2, dead |-> FALSE, kid |-> "none"]

MountCall(p, o, ns) ==
  /\ mnt[p].pc = "idle" /\ mounts < MaxMounts
  /\ mnt' = [mnt EXCEPT ![p] = [pc |-> "find", o |-> Resolved(o), ns |-> ns, r |-> 0]]
  /\ mounts' = mounts + 1
  /\ UNCHANGED <<hier, home, dflUsed, sbs, killed2>>

\* cgroup1_get_tree under the mutex: an existing hierarchy that is alive
FindUse(p) ==
  LET r == UsedRoot(mnt[p].o) IN
  /\ mnt[p].pc = "find" /\ OptionsValid(mnt[p].o) /\ RootToUse(mnt[p].o) = "use"
  /\ ~hier[r].dead
  /\ hier' = [hier EXCEPT ![r].ref = @ + 1]
  /\ mnt' = [mnt EXCEPT ![p].pc = "get", ![p].r = r]
  /\ UNCHANGED <<home, dflUsed, sbs, mounts, killed2>>

\* a new one; the controllers are taken from the default hierarchy
FindCreate(p) ==
  LET o == mnt[p].o IN
  /\ mnt[p].pc = "find" /\ OptionsValid(o) /\ RootToUse(o) = "create"
  /\ mnt[p].ns = 0 /\ MayRebind(1, o.mask)
  /\ \E r \in Hier \ DOMAIN hier :
       LET grown == [x \in DOMAIN hier \cup {r} |-> IF x = r THEN NewRoot(o) ELSE hier[x]] IN
       /\ \A q \in Hier \ DOMAIN hier : r <= q
       /\ hier' = Rebound(grown, r, o.mask)
       /\ home' = NewHome(r, o.mask)
       /\ mnt' = [mnt EXCEPT ![p].pc = "get", ![p].r = r]
  /\ UNCHANGED <<dflUsed, sbs, mounts, killed2>>

\* bad options, the wrong controllers, or controllers in use: an error.  The
\* hierarchies are too few only in the model.
FindRefused(p) ==
  LET o == mnt[p].o IN
  /\ mnt[p].pc = "find"
  /\ \/ ~OptionsValid(o)
     \/ RootToUse(o) = "refused"
     \/ RootToUse(o) = "create" /\ (mnt[p].ns # 0 \/ ~MayRebind(1, o.mask) \/ Hier \subseteq DOMAIN hier)
  /\ mnt' = [mnt EXCEPT ![p] = IdleMnt]
  /\ UNCHANGED <<hier, home, dflUsed, sbs, mounts, killed2>>

\* Mutant of MountGet: the reference is kept with a shared one too
MountGetKept(p) ==
  LET k == <<mnt[p].r, mnt[p].ns>> IN
  /\ mnt[p].pc = "get" /\ sbs[k].st \in {"none", "up"}
  /\ sbs' = [sbs EXCEPT ![k] = [st |-> "up", act |-> @.act + 1]]
  /\ mnt' = [mnt EXCEPT ![p].pc = "check"]
  /\ UNCHANGED <<hier, home, dflUsed, mounts, killed2>>

\* kernfs_get_tree: a super block is made or shared; while one is going
\* down the caller waits.  The reference goes with a new one.
MountGet(p) ==
  LET k == <<mnt[p].r, mnt[p].ns>> IN
  /\ mnt[p].pc = "get" /\ sbs[k].st \in {"none", "up"}
  /\ sbs' = [sbs EXCEPT ![k] = [st |-> "up", act |-> @.act + 1]]
  /\ hier' = [hier EXCEPT ![mnt[p].r].ref = IF sbs[k].st = "up" THEN @ - 1 ELSE @]
  /\ mnt' = [mnt EXCEPT ![p].pc = "check"]
  /\ UNCHANGED <<home, dflUsed, mounts, killed2>>

\* kernfs_get_tree failed
MountGetFails(p) ==
  /\ mnt[p].pc = "get"
  /\ hier' = [hier EXCEPT ![mnt[p].r].ref = @ - 1]
  /\ mnt' = [mnt EXCEPT ![p] = IdleMnt]
  /\ UNCHANGED <<home, dflUsed, sbs, mounts, killed2>>

\* deactivate_super: the last user takes the super block down
Deactivated(k) == IF sbs[k].act = 1 THEN [st |-> "test", act |-> 0] ELSE [sbs[k] EXCEPT !.act = @ - 1]

\* the test after it: a root that died meanwhile is given back, and mount starts over
MountCheck(p) ==
  LET k == <<mnt[p].r, mnt[p].ns>> IN
  /\ mnt[p].pc = "check"
  /\ IF hier[mnt[p].r].dead
     THEN /\ sbs' = [sbs EXCEPT ![k] = Deactivated(k)]
          /\ mnt' = [mnt EXCEPT ![p].pc = "find", ![p].r = 0]
     ELSE /\ mnt' = [mnt EXCEPT ![p] = IdleMnt]
          /\ UNCHANGED sbs
  /\ UNCHANGED <<hier, home, dflUsed, mounts, killed2>>

-----------------------------------------------------------------------------
\* mounted: more users than the calls of mount that have not answered
Mounted(k) ==
  /\ sbs[k].st = "up"
  /\ sbs[k].act > Cardinality({p \in Mounter : mnt[p].pc = "check" /\ <<mnt[p].r, mnt[p].ns>> = k})

Umount(k) ==
  /\ Mounted(k)
  /\ sbs' = [sbs EXCEPT ![k] = Deactivated(k)]
  /\ UNCHANGED <<hier, home, dflUsed, mnt, mounts, killed2>>

\* cgroup_kill_sb: the look at the root, without a lock
KillTest(k) ==
  /\ sbs[k].st = "test"
  /\ sbs' = [sbs EXCEPT ![k].st = IF ~HasChildren(k[1]) /\ ~hier[k[1]].dead THEN "kill" ELSE "put"]
  /\ UNCHANGED <<hier, home, dflUsed, mnt, mounts, killed2>>

\* percpu_ref_kill, which gives the base reference back
KillRef(k) ==
  /\ sbs[k].st = "kill"
  /\ hier' = [hier EXCEPT ![k[1]].dead = TRUE, ![k[1]].ref = @ - 1]
  /\ killed2' = hier[k[1]].dead
  /\ sbs' = [sbs EXCEPT ![k].st = "put"]
  /\ UNCHANGED <<home, dflUsed, mnt, mounts>>

KillPut(k) ==
  /\ sbs[k].st = "put"
  /\ hier' = [hier EXCEPT ![k[1]].ref = @ - 1]
  /\ sbs' = [sbs EXCEPT ![k] = NoSb]
  /\ UNCHANGED <<home, dflUsed, mnt, mounts, killed2>>

\* css_free_rwork_fn of the root, cgroup_destroy_root
DestroyRoot(r) ==
  LET left == Rebound(hier, 0, hier[r].mask) IN
  /\ hier[r].ref = 0
  /\ home' = NewHome(0, hier[r].mask)
  /\ hier' = [x \in DOMAIN hier \ {r} |-> left[x]]
  /\ UNCHANGED <<dflUsed, sbs, mnt, mounts, killed2>>

\* cgroup1_reconfigure
Remount(k, o) ==
  LET r == k[1]
      new == Resolved(o)
      added == new.mask \ hier[r].mask
      removed == hier[r].mask \ new.mask
  IN  /\ Mounted(k) /\ OptionsValid(new) /\ added \cup removed # {}
      /\ new.name \in {0, hier[r].name} /\ ~HasChildren(r) /\ MayRebind(r, added)
      /\ hier' = Rebound(Rebound(hier, r, added), 0, removed)
      /\ home' = [s \in Ctl |-> IF s \in removed THEN 0 ELSE NewHome(r, added)[s]]
      /\ UNCHANGED <<dflUsed, sbs, mnt, mounts, killed2>>

\* a child of the root: made, removed, off the list of children, freed
ChildSteps(r) ==
  \/ /\ hier[r].kid = "none" /\ \E n \in Ns : Mounted(<<r, n>>)
     /\ hier' = [hier EXCEPT ![r].kid = "live", ![r].ref = @ + 1]
  \/ /\ hier[r].kid = "live" /\ \E n \in Ns : Mounted(<<r, n>>)
     /\ hier' = [hier EXCEPT ![r].kid = "dying"]
  \/ /\ hier[r].kid = "dying"
     /\ hier' = [hier EXCEPT ![r].kid = "unlinked"]
  \/ /\ hier[r].kid = "unlinked"
     /\ hier' = [hier EXCEPT ![r].kid = "none", ![r].ref = @ - 1]
Child(r) == ChildSteps(r) /\ UNCHANGED <<home, dflUsed, sbs, mnt, mounts, killed2>>

\* the default hierarchy starts or stops using a controller below its root
DflUse(s) ==
  /\ home[s] = 0
  /\ dflUsed' = IF s \in dflUsed THEN dflUsed \ {s} ELSE dflUsed \cup {s}
  /\ UNCHANGED <<hier, home, sbs, mnt, mounts, killed2>>

\* a root killed twice is followed no further
RootsNext ==
  /\ ~killed2
  /\ \/ \E p \in Mounter :
          \/ \E o \in Options, n \in Ns : MountCall(p, o, n)
          \/ FindUse(p) \/ FindCreate(p) \/ FindRefused(p)
          \/ MountGet(p) \/ MountGetFails(p) \/ MountCheck(p)
     \/ \E k \in Sb : Umount(k) \/ KillTest(k) \/ KillRef(k) \/ KillPut(k)
                      \/ (\E o \in Options : Remount(k, o))
     \/ \E r \in DOMAIN hier : DestroyRoot(r) \/ Child(r)
     \/ \E s \in Ctl : DflUse(s)

RootsSpec == RootsInit /\ [][RootsNext]_rootsVars

-----------------------------------------------------------------------------
\* A controller is in one hierarchy: the one it names, which exists, has it
\* in its mask, and no other has it, whatever mounts, remounts and releases
\* happen in between (rebind_subsystems moves pointer and masks one by one).
ControllersBound ==
  /\ \A s \in Ctl : home[s] # 0 => home[s] \in DOMAIN hier
  /\ \A r \in DOMAIN hier : hier[r].mask = {s \in Ctl : home[s] = r}

\* The references of a root are the base one until it is killed, one for
\* each super block, for each mount that found the root and has none yet, and
\* for its child; so a root is there for all of them.  A root killed twice is
\* excepted.
RefsExact ==
  ~killed2 =>
    /\ \A r \in DOMAIN hier :
         hier[r].ref = (IF hier[r].dead THEN 0 ELSE 1)
                       + Cardinality({n \in Ns : sbs[<<r, n>>].st # "none"})
                       + Cardinality({p \in Mounter : mnt[p].pc = "get" /\ mnt[p].r = r})
                       + (IF hier[r].kid = "none" THEN 0 ELSE 1)
    /\ \A k \in Sb : sbs[k].st # "none" => k[1] \in DOMAIN hier
    /\ \A p \in Mounter : mnt[p].pc \in {"get", "check"} => mnt[p].r \in DOMAIN hier

\* No two hierarchies answer the same request: names differ, and one without
\* a name has controllers to be known by.
RootsDistinct ==
  \A r \in DOMAIN hier :
    /\ hier[r].name = 0 => hier[r].mask # {}
    /\ \A q \in DOMAIN hier \ {r} : hier[q].name # hier[r].name \/ hier[r].name = 0

\* Mounts, remounts and unmounts that overlap leave every controller in one
\* hierarchy and every hierarchy with the references that its users hold.
RootsSound == ControllersBound /\ RefsExact /\ RootsDistinct
=============================================================================
