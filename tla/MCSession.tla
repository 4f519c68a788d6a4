------------------------------- MODULE MCSession -------------------------------
EXTENDS Session, TLC

MCRoleOf == "admin" :> "superadmin" @@ "pmk" :> "admin_pmk"
===============================================================================
