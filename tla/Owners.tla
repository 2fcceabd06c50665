-------------------------------- MODULE Owners --------------------------------
(***************************************************************************)
(* The owners of resources of one thread, next to each other: Arena,       *)
(* UniqueHandle, the type-erased variables, the owners of OpenGL objects,  *)
(* RenderPass, and Database, Statement and Repository.  They share no      *)
(* state, and each goes its own way.                                       *)
(***************************************************************************)
EXTENDS Sqlite, Arena, UniqueHandle, TypeErasure, GlObjects, RenderPass

ownersVars == <<sqliteVars, arenaVars, handleVars, erasureVars, glVars, passVars>>

OwnersSpec ==
  /\ SqliteSpec /\ ArenaSpec /\ HandleSpec
  /\ ErasureSpec /\ GlSpec /\ PassSpec

(* Every buffer, descriptor, heap object, OpenGL object and statement of the
   program has exactly one owner, which frees it: after any moves, assignments,
   failed constructions and copies and exceptions nothing is freed twice,
   leaked or used after it.  The same holds of every connection that some
   Database has owned; one that a constructor leaves by an exception leaks
   (ConnectionsHaveOwners of Sqlite). *)
ResourcesOwnedOnce ==
  /\ ArenaTypeOK /\ HandleTypeOK /\ ErasureTypeOK /\ GlTypeOK /\ PassTypeOK /\ SqliteTypeOK
  /\ BuffersOwnedOnce /\ FilesOwnedOnce /\ ValueSemantics /\ ObjectsOwnedOnce
  /\ StatementsOwnedOnce /\ ConnectionsClosed
=============================================================================
