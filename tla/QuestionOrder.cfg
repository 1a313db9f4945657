SPECIFICATION QuestionsSpec
CONSTANTS
 Defaults = {d1}
 Bank = {b1, b2}
 UsedBefore = {b1}
 Target = 2
 SortOrders = {0}
 Openers = {o1}
 MaxQuestions = 4
 MaxEdits = 3
 MaxFaults = 0
PROPERTIES
 AddedGoLast
CHECK_DEADLOCK FALSE
