---------------------------- MODULE RPCInterface ----------------------------
(***************************************************************************)
(* Class RPCInterface: the map from the names of a plugin's functions to   *)
(* the functions.  Its keys are pointers to text, compared by strcmp().    *)
(* executeFunction() looks a name up with operator[], which inserts an     *)
(* unknown one: the key then points into the document of the request, and  *)
(* is stale when that document is gone.                                    *)
(*                                                                         *)
(* Requests are numbered; a key's owner is the request its text lies in,   *)
(* or Literal for the names the plugin registered.                         *)
(***************************************************************************)
EXTENDS Naturals

CONSTANT Functions        \* the names the plugin registers

VARIABLE funcMap          \* a set of entries; callable is false for NULL

Literal == 0

InitMap == funcMap = {[name |-> f, owner |-> Literal, callable |-> TRUE] :
                        f \in Functions}

Stale(now) == {e \in funcMap : e.owner \notin {Literal, now}}

(* A search that compares with stale text may take any way through the     *)
(* map, and what it reads there may spell the name it looks for.           *)
MayFind(name, now, callable) ==
  \/ \E e \in funcMap \ Stale(now) : e.name = name /\ e.callable = callable
  \/ \E e \in Stale(now) : e.callable = callable

MayMiss(name, now) ==
  \/ Stale(now) # {}
  \/ ~\E e \in funcMap : e.name = name

(* executeFunction() by request now: it calls the function...              *)
CallFunction(name, now) == MayFind(name, now, TRUE) /\ UNCHANGED funcMap

(* ...or throws, with the name in the map in any case.                     *)
NotFound(name, now) ==
  \/ MayFind(name, now, FALSE) /\ UNCHANGED funcMap
  \/ /\ MayMiss(name, now)
     /\ funcMap' = funcMap \cup
                     {[name |-> name, owner |-> now, callable |-> FALSE]}

(* getAllFunctionNames(), while every key can be read.                     *)
AllFunctionNames == {e.name : e \in funcMap}
=============================================================================
