-------------------------------- MODULE StartUp --------------------------------
(***************************************************************************)
(* main() up to the tasks: the fabfile is imported from its directory, its *)
(* variables are searched for tasks, those of the modules it imported, too,*)
(* the command line is looked up in the tree of commands that results, and *)
(* execute() looks up what is run, one name after the other. Whether a task *)
(* succeeds is Execute's.                                                  *)
(*                                                                         *)
(* A dotted name is the sequence of its parts. A value of a fabfile is an  *)
(* item: the variable that holds it and what it is: a Task object, a plain *)
(* function as classic fabfiles have them, or a module. Other values, and  *)
(* those that an __all__ leaves out, are passed over and left out here.    *)
(***************************************************************************)
EXTENDS Integers, Sequences, SequencesExt

CONSTANTS
  Task,          \* the Task objects of the fabfile and its modules
  DefinedName,   \* their names, "undefined" for an instance of a subclass without one
  Aliases,       \* their aliases
  IsDefault,     \* those made with default=True
  FabfileModule, \* the module that the fabfile is
  Directory,     \* the directory it is in
  Fabfiles,      \* what may be imported: the variables of each module in order,
                 \*   and what this does to sys.path
  SysPaths,      \* what sys.path may be before
  CommandLines,  \* what the user may ask for
  None

ASSUME StartUpAssumption ==
  /\ DefinedName \in [Task -> STRING]
  /\ \A t \in Task : Aliases[t] \subseteq STRING
  /\ IsDefault \subseteq Task
  /\ \A p \in SysPaths : \A i, j \in DOMAIN p : p[i] = p[j] => i = j

VARIABLES
  pc,         \* how far main() is
  path,       \* sys.path
  added,      \* added_to_path
  index,      \* index of load_fabfile(), None when the directory was not moved
  fabfile,    \* the fabfile that is found, None if there is none
  frames,     \* the calls of load_tasks_from_module() and extract_tasks() under way
  seen,       \* _seen
  name,       \* the name attribute of each task
  newStyle,   \* env.new_style_tasks
  commands,   \* state.commands
  default,    \* the task that runs when none is named
  options,    \* the command line, once main() looks at it
  todo,       \* commands_to_run, as far as it is not done
  ran,        \* what execute() was called with and has found, "remainder" for the words after --
  status,     \* the status that main() exits with, as far as it has no errors to add
  before      \* history: sys.path at the start

pathVars == <<path, added, index, before>>
treeVars == <<frames, seen, name, newStyle>>
loadVars == <<pathVars, fabfile, treeVars>>
askVars == <<commands, default, options, todo, ran, status>>
vars == <<pc, loadVars, askVars>>

-----------------------------------------------------------------------------
(* Trees of commands. A collection maps names to tasks and collections.    *)

Empty == [n \in {} |-> None]
Leaf(obj) == [kind |-> "task", task |-> obj]
Collection(items, d) == [kind |-> "collection", items |-> items, default |-> d]

IsCollection(node) == node.kind = "collection"

\* The entry under a dotted name, None when there is no such path.
RECURSIVE Entry(_, _)
Entry(word, items) ==
  IF word[1] \notin DOMAIN items THEN None
  ELSE LET node == items[word[1]] IN
       IF Len(word) = 1 THEN node
       ELSE IF IsCollection(node) THEN Entry(Tail(word), node.items) ELSE None

\* crawl(): a collection stands for its default task.
Crawl(word, items) ==
  LET node == Entry(word, items)
  IN  IF node = None THEN None
      ELSE IF IsCollection(node) THEN node.default ELSE node.task

\* _task_names(), as a set: the order is the listing's.
RECURSIVE TaskNames(_)
TaskNames(items) ==
  LET collections == {n \in DOMAIN items : IsCollection(items[n])} IN
  {<<n>> : n \in DOMAIN items \ collections}
    \cup {<<n>> : n \in {n \in collections : items[n].default # None}}
    \cup UNION {{<<n>> \o w : w \in TaskNames(items[n].items)} : n \in collections}

-----------------------------------------------------------------------------

Init ==
  /\ pc = "start"
  /\ path \in SysPaths
  /\ before = path
  /\ added = FALSE /\ index = None
  /\ fabfile \in Fabfiles \cup {None}
  /\ frames = <<>> /\ seen = {}
  /\ name = DefinedName
  /\ newStyle = FALSE
  /\ commands = Empty /\ default = None
  /\ options = None /\ todo = <<>> /\ ran = <<>> /\ status = None

NoFabfile ==
  /\ pc = "start" /\ fabfile = None
  /\ pc' = "loaded"
  /\ UNCHANGED <<loadVars, askVars>>

\* load_fabfile() puts the directory in front, wherever it was.
PreparePath ==
  /\ pc = "start" /\ fabfile # None
  /\ IF ~ Contains(path, Directory)
     THEN /\ path' = <<Directory>> \o path
          /\ added' = TRUE
          /\ index' = index
     ELSE LET i == SelectInSeq(path, LAMBDA d : d = Directory) - 1 IN
          /\ path' = IF i = 0 THEN path ELSE RemoveAt(<<Directory>> \o path, i + 2)
          /\ index' = IF i = 0 THEN None ELSE i
          /\ added' = added
  /\ pc' = "import"
  /\ UNCHANGED <<before, fabfile, treeVars, askVars>>

\* The fabfile's module-level code runs and may change sys.path itself.
Import ==
  /\ pc = "import" /\ fabfile.import # "raise"
  /\ path' = CASE fabfile.import = "append" -> Append(path, "lib")
               [] fabfile.import = "insert" -> <<"lib">> \o path
               [] OTHER -> path
  /\ pc' = "restore"
  /\ UNCHANGED <<before, added, index, fabfile, treeVars, askVars>>

\* It raises, and nothing is restored: main() shows the exception and exits.
ImportRaises ==
  /\ pc = "import" /\ fabfile.import = "raise"
  /\ pc' = "over" /\ status' = 1
  /\ UNCHANGED <<loadVars, commands, default, options, todo, ran>>

\* A slip: the directory is put back without regard to the copy in front.
PutBackEarly == InsertAt(path, index + 1, Directory)

\* The path with the directory at its old index, behind the copy in front.
PutBack == InsertAt(path, index + 2, Directory)

RestorePath ==
  /\ pc = "restore"
  /\ path' = CASE added -> Tail(path)
               [] index # None -> Tail(PutBack)
               [] OTHER -> path
  /\ frames' = <<[module |-> FabfileModule, as |-> None, at |-> 1,
                  tasks |-> Empty, classic |-> Empty, default |-> None]>>
  /\ pc' = "load"
  /\ UNCHANGED <<before, added, index, fabfile, seen, name, newStyle, askVars>>

-----------------------------------------------------------------------------
(* extract_tasks(), one variable of one module after the other.            *)

Top == frames[Len(frames)]
Variables(f) == fabfile.vars[f.module]
Item == Variables(Top)[Top.at]

\* The next variable of the module that is looked at is of this kind.
Looking(kind) ==
  /\ pc = "load"
  /\ Top.at <= Len(Variables(Top))
  /\ Item.kind = kind

With(items, names, node) == [n \in names |-> node] @@ items

\* A task without a name gets that of the first variable it is met in.
NameOf(item) == IF name[item.obj] = "undefined" THEN item.as ELSE name[item.obj]

ReadTask ==
  /\ Looking("task")
  /\ LET t == Item.obj IN
     /\ name' = [name EXCEPT ![t] = NameOf(Item)]
     /\ frames' = [frames EXCEPT ![Len(frames)] =
          [@ EXCEPT !.at = @ + 1,
                    !.tasks = With(@, {NameOf(Item)} \cup Aliases[t], Leaf(t)),
                    !.default = IF t \in IsDefault THEN t ELSE @]]
  /\ newStyle' = TRUE
  /\ UNCHANGED <<pc, pathVars, fabfile, seen, askVars>>

ReadFunction ==
  /\ Looking("function")
  /\ frames' = [frames EXCEPT ![Len(frames)] =
       [@ EXCEPT !.at = @ + 1, !.classic = With(@, {Item.as}, Leaf(Item.obj))]]
  /\ UNCHANGED <<pc, pathVars, fabfile, seen, name, newStyle, askVars>>

\* A slip: a module is searched whenever it is met.
AlwaysUnseen(m) == TRUE

\* A slip: the fabfile counts as searched, and so does what it would be the first to hold.
UnseenTwice(m) == m \notin seen /\ seen = {}

Unseen(m) == m \notin seen

PassOver ==
  /\ Looking("module") /\ ~ Unseen(Item.obj)
  /\ frames' = [frames EXCEPT ![Len(frames)].at = @ + 1]
  /\ UNCHANGED <<pc, pathVars, fabfile, seen, name, newStyle, askVars>>

EnterModule ==
  /\ Looking("module") /\ Unseen(Item.obj)
  /\ seen' = seen \cup {Item.obj}
  /\ frames' = Append([frames EXCEPT ![Len(frames)].at = @ + 1],
                      [module |-> Item.obj, as |-> Item.as, at |-> 1,
                       tasks |-> Empty, classic |-> Empty, default |-> None])
  /\ UNCHANGED <<pc, pathVars, fabfile, name, newStyle, askVars>>

Searched == pc = "load" /\ Top.at > Len(Variables(Top))

Under == frames[Len(frames) - 1]

\* A task has taken the name that the module's tasks are to go under.
NameTaken == Top.as \in DOMAIN Under.tasks

\* The tasks of a module go under its name; without any there is no such name.
LeaveModule ==
  /\ Searched /\ Len(frames) > 1
  /\ Top.tasks = Empty \/ ~ NameTaken
  /\ frames' = [Front(frames) EXCEPT ![Len(frames) - 1].tasks =
       IF Top.tasks = Empty THEN @
       ELSE With(@, {Top.as}, Collection(Top.tasks, Top.default))]
  /\ UNCHANGED <<pc, pathVars, fabfile, seen, name, newStyle, askVars>>

\* A task takes no entries: the TypeError ends the program.
LeaveModuleRaises ==
  /\ Searched /\ Len(frames) > 1
  /\ Top.tasks # Empty /\ NameTaken
  /\ pc' = "over" /\ status' = 1
  /\ UNCHANGED <<loadVars, commands, default, options, todo, ran>>

\* One Task object anywhere hides all the plain functions.
Commands == IF newStyle THEN Top.tasks ELSE Top.classic

Loaded ==
  /\ Searched /\ Len(frames) = 1
  /\ commands' = Commands
  /\ default' = Top.default
  /\ frames' = <<>> /\ seen' = {}
  /\ pc' = "loaded"
  /\ UNCHANGED <<pathVars, fabfile, name, newStyle, options, todo, ran, status>>

-----------------------------------------------------------------------------
(* main() with the commands. What the user asks for is looked at first here. *)

Exits(s) ==
  /\ pc' = "over" /\ status' = s
  /\ UNCHANGED <<loadVars, commands, default, todo, ran>>

Bare(o) ==
  /\ ~ o.list /\ o.display = None /\ o.names = <<>> /\ ~ o.remainder
  /\ default = None

NothingToDo(o) ==
  \/ fabfile = None /\ ~ o.remainder
  \/ Bare(o)
  \/ commands = Empty /\ ~ o.remainder

\* No fabfile, no request or no commands: help or an error message.
GiveUp(o) ==
  /\ NothingToDo(o)
  /\ Exits(1)

\* --list. Without a fabfile, which -- allows, docstring is unbound: it raises.
ListCommands(o) ==
  /\ ~ NothingToDo(o) /\ o.list
  /\ Exits(IF fabfile = None THEN 1 ELSE 0)

DisplayCommand(o) ==
  /\ ~ NothingToDo(o) /\ ~ o.list /\ o.display # None
  /\ Exits(IF Crawl(o.display, commands) = None THEN 1 ELSE 0)

\* A slip: each name is looked up when it is its turn only.
UnknownFirst(o) == o.names # <<>> /\ Crawl(o.names[1], commands) = None

Unknown(o) == \E i \in 1..Len(o.names) : Crawl(o.names[i], commands) = None

RefuseUnknown(o) ==
  /\ ~ NothingToDo(o) /\ ~ o.list /\ o.display = None
  /\ Unknown(o) /\ ~ o.skip
  /\ Exits(1)

\* What is named, then the words after --; the default when there is neither.
ToRun(o) ==
  LET named == o.names \o (IF o.remainder THEN <<<<"remainder">>>> ELSE <<>>)
  IN  IF named = <<>> THEN <<<<name[default]>>>> ELSE named

RunCommands(o) ==
  /\ ~ NothingToDo(o) /\ ~ o.list /\ o.display = None
  /\ ~ Unknown(o) \/ o.skip
  /\ commands' = IF o.remainder THEN With(commands, {"remainder"}, Leaf("remainder")) ELSE commands
  /\ todo' = ToRun(o)
  /\ pc' = "run"
  /\ UNCHANGED <<loadVars, default, ran, status>>

Decide ==
  /\ pc = "loaded"
  /\ \E o \in CommandLines :
       /\ options' = o
       /\ GiveUp(o) \/ ListCommands(o) \/ DisplayCommand(o) \/ RefuseUnknown(o)
            \/ RunCommands(o)

\* execute() of the next command: the name is looked up once more.
ExecuteNext ==
  LET found == Crawl(Head(todo), commands)
      aborts == found = None /\ ~ options.skip
  IN
  /\ pc = "run" /\ todo # <<>>
  /\ ran' = IF found = None THEN ran ELSE Append(ran, found)
  /\ todo' = Tail(todo)
  /\ pc' = IF aborts THEN "over" ELSE pc
  /\ status' = IF aborts THEN 1 ELSE status
  /\ UNCHANGED <<loadVars, commands, default, options>>

AllExecuted ==
  /\ pc = "run" /\ todo = <<>>
  /\ pc' = "over" /\ status' = 0
  /\ UNCHANGED <<loadVars, commands, default, options, todo, ran>>

Over == pc = "over" /\ UNCHANGED vars

Next ==
  \/ NoFabfile \/ PreparePath \/ Import \/ ImportRaises \/ RestorePath
  \/ ReadTask \/ ReadFunction \/ PassOver \/ EnterModule
  \/ LeaveModule \/ LeaveModuleRaises \/ Loaded
  \/ Decide \/ ExecuteNext \/ AllExecuted
  \/ Over

Spec == Init /\ [][Next]_vars

-----------------------------------------------------------------------------
(* What the variables of the modules say, whatever order they are read in. *)

Items(m) == ToSet(fabfile.vars[m])
TasksIn(m) == {item.obj : item \in {i \in Items(m) : i.kind = "task"}}
ModulesIn(m) == {i \in Items(m) : i.kind = "module"}
Claims(item) ==
  IF item.kind = "task" THEN {name[item.obj]} \cup Aliases[item.obj] ELSE {item.as}

\* Two values of a module go by one name, so one of them hides the other.
Clash(m) ==
  \E i, j \in {x \in Items(m) : x.kind \in {"task", "module"}} :
    i.obj # j.obj /\ Claims(i) \cap Claims(j) # {}

RECURSIVE Reached(_)
Reached(ms) ==
  LET more == ms \cup {i.obj : i \in UNION {ModulesIn(m) : m \in ms}}
  IN  IF more = ms THEN ms ELSE Reached(more)

\* The last of the tasks of a module that are made its default.
DefaultOf(m) ==
  LET ds == SelectSeq(fabfile.vars[m], LAMBDA i : i.kind = "task" /\ i.obj \in IsDefault)
  IN  IF ds = <<>> THEN None ELSE Last(ds).obj

\* What a dotted name may stand for, seen from a module.
RECURSIVE Means(_, _)
Means(word, m) ==
  LET held == {i \in ModulesIn(m) : i.as = word[1]} IN
  IF Len(word) > 1 THEN UNION {Means(Tail(word), i.obj) : i \in held}
  ELSE {i.obj : i \in {i \in Items(m) : i.kind \in {"task", "function"} /\ word[1] \in Claims(i)}}
         \cup {DefaultOf(i.obj) : i \in held}

Parts == {i.as : i \in UNION {Items(m) : m \in Reached({FabfileModule})}}
           \cup {name[t] : t \in Task} \cup UNION {Aliases[t] : t \in Task}
Words == UNION {[1..k -> Parts] : k \in 1..3}

Phases == {"start", "import", "restore", "load", "loaded", "run", "over"}

\* Every variable has a value of its kind; the calls under way are one per
\* module that is being searched, and the fabfile's own, which a module that
\* imports it back may add once more.
TypeOK ==
  /\ pc \in Phases
  /\ ToSet(path) \subseteq UNION {ToSet(p) : p \in SysPaths} \cup {Directory, "lib"}
  /\ added \in BOOLEAN /\ index \in Nat \cup {None}
  /\ Len(frames) <= Cardinality(seen) + 1
  /\ default \in IsDefault \cup {None}
  /\ newStyle \in BOOLEAN
  /\ status \in {0, 1, None}
  /\ status # None <=> pc = "over"

\* load_fabfile() leaves sys.path as it was, the directory where it was
\* included, but for what the fabfile has added at its end. (A fabfile that
\* puts an entry in front loses this one instead, and the directory stays.)
PathIsRestored ==
  pc \in {"load", "loaded", "run"} =>
    /\ fabfile # None /\ fabfile.import = "nothing" => path = before
    /\ fabfile # None /\ fabfile.import = "append" => path = Append(before, "lib")

\* _task_names() lists just the names that crawl() resolves, and each leads to
\* an object that goes by this name in the module the dotted name leads to.
NamesAreTrue ==
  pc = "loaded" /\ fabfile # None =>
    LET resolved == {w \in Words : Crawl(w, commands) # None} IN
    /\ {w \in TaskNames(commands) : Len(w) <= 3} = resolved
    /\ \A w \in resolved : Crawl(w, commands) \in Means(w, FabfileModule)

\* Every Task object of the modules that can be reached from the fabfile is
\* found under some name, in whatever order and circles they import each other,
\* and the plain functions of a fabfile without any; unless two values of one
\* module go by the same name.
NoTaskLost ==
  LET modules == Reached({FabfileModule}) IN
  /\ pc = "loaded" /\ fabfile # None /\ (\A m \in modules : ~ Clash(m)) =>
       LET found == {Crawl(w, commands) : w \in TaskNames(commands)}
           tasks == UNION {TasksIn(m) : m \in modules}
           functions == {i.obj : i \in {i \in Items(FabfileModule) : i.kind = "function"}}
       IN  IF tasks # {} THEN tasks \subseteq found ELSE functions \subseteq found
  /\ pc = "over" /\ options = None /\ fabfile.import # "raise" =>
       \E m \in modules : Clash(m)

\* Every task has a name that leads to it, and every name a task.
TasksAreFound == NamesAreTrue /\ NoTaskLost

\* Names are looked up before the first task runs, in a tree that the words after --
\* and the default task are added to afterwards, and again when each is run: yet all
\* commands exist then. A name that is wrong, or is a command only later, stops fab
\* before anything has run, or is passed over where unknown names are to be skipped.
\* What runs goes by the names that were given, in their order, then come the words
\* after --. With neither, it is the last task that the fabfile made its default, or,
\* where two values of the fabfile go by one name, another that goes by its name.
RunsWhatWasAsked ==
  pc \in {"run", "over"} /\ options # None =>
    LET known == SelectSeq(options.names, LAMBDA w : w # <<"remainder">> /\ Crawl(w, commands) # None)
        chosen == DefaultOf(FabfileModule)
    IN  /\ status = 1 => ran = <<>>
        /\ ran # <<>> => ~ options.list /\ options.display = None
        /\ ran # <<>> /\ known # options.names => options.skip
        /\ \A i \in DOMAIN ran \cap DOMAIN known : ran[i] \in Means(known[i], FabfileModule)
        /\ \A i \in DOMAIN ran \ DOMAIN known :
             \/ options.remainder /\ i = Len(known) + 1 /\ ran[i] = "remainder"
             \/ /\ options.names = <<>> /\ ~ options.remainder /\ i = 1
                /\ \/ ran[i] = chosen
                   \/ Clash(FabfileModule) /\ ran[i] \in Means(<<name[chosen]>>, FabfileModule)
        /\ pc = "over" /\ ran # <<>> =>
             Len(ran) = Len(known) + (IF options.remainder \/ options.names = <<>> THEN 1 ELSE 0)

=============================================================================
