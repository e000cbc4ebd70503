------------------------------ MODULE MCCampus ------------------------------
EXTENDS Campus
MCCapacity == [x \in Sections |-> IF x = "p" THEN 1 ELSE 0]
MCSubmissions == {<<"p", [s |-> "present", t |-> "absent"]>>,
                  <<"p", [s |-> "late"]>>, <<"q", [t |-> "half_day"]>>}
MCSlots == {<<1, 3>>, <<2, 4>>, <<3, 4>>}
MCSchemes == {[max |-> 10, pass |-> 3], [max |-> 10, pass |-> 6]}
MCSubjectScheme == [max |-> 20, pass |-> 6]
MCFixes == {<<1, 1>>, <<3, 3>>, <<9, 4>>}
MCCatalogue == [trial |-> {"fees"}, basic |-> {"hostel"},
                lifetime |-> {"fees", "hostel", "users"}]
MCFounded == [inst |-> 1, slug |-> "a", plan |-> "basic"]
MCOrders == {[plan |-> "trial", lifetime |-> FALSE, chosen |-> {"hostel"}],
             [plan |-> "special", lifetime |-> FALSE, chosen |-> {}],
             [plan |-> "trial", lifetime |-> TRUE, chosen |-> {}]}
MCDoors == {<<"id", 1>>, <<"slug", "a">>, <<"slug", "b">>}
=============================================================================
