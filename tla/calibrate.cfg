SPECIFICATION Spec
CONSTANTS
  MaxUnsigned = 2147483647
  PerNano = 10
  Setups <- AllSetups
  ProbesOf <- LmbenchProbes
  Matrices <- SomeMatrices
  Others <- OtherSections
  Lambdas <- SomeLambdas
  OneGig = 64
INVARIANTS CachesRecovered ReducedIsClose TimesAddUp ReadsBackTheModel FusedPrices IdsTellModelsApart
