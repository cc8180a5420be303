\* One Coordinator test, one Expert's own test and two work orders.
SPECIFICATION Spec
CONSTANTS
    h1 = h1
    h2 = h2
    c1 = c1
    x1 = x1
    o1 = o1
    o2 = o2
    Nodes = {h1, h2}
    Tests = {c1, x1}
    Orders = {o1, o2}
    Results = {yes, no}
    Budgets = {1, 2}
    DefaultBudget = 2
    TargetsOf <- MCTargetsOf
    AuthorOf <- MCAuthorOf
    ScopeOf <- MCScopeOf
    Coordinator = Coordinator
    None = None
SYMMETRY Symmetry
INVARIANTS
    BudgetKept
PROPERTIES
    QuestionRefined
    FactsAreFinal
    DecisionIsInformed
