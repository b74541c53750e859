------------------------------ MODULE MCPgRun ------------------------------
(* Instances of PgRun for model checking. *)
EXTENDS PgRun, TLC

MCTags == <<"roads">>
MCNone == <<>>
MCRelGeom == <<"roads_relation_geom">>
MCGraph == <<"roads">>

\* Ways 1, 2 and 3 are classified; 1 and 2 have an edge, 1 and 3 a cost.  With two writers and
\* channels of one batch, the third tag batch meets a channel that may still be full.
MCIds == "roads" :> {1, 2, 3} @@ "relation_members" :> {1} @@ "edges" :> {1, 2}
         @@ "nodes" :> {1} @@ "roads_relation_geom" :> {3}

MCCosted == "roads" :> {1, 3}

=============================================================================
