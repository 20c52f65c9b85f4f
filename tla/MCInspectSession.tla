-------------------------- MODULE MCInspectSession --------------------------
(***************************************************************************)
(* Model checking instance of InspectSession: a ZIP, an image and a        *)
(* document that does not open; two descriptors, so that they are used     *)
(* again and run out.                                                      *)
(***************************************************************************)
EXTENDS InspectSession

(* What the native library exports as it is, and with inspectFile as declared in Kotlin. *)
AsBuilt == {"version", "crc32", "detectFormat", "inspectHeader", "listZip"}
AsDeclared == AsBuilt \cup {"inspectFile"}
=============================================================================
